--------------------------- MODULE SimCafeProofs ---------------------------
(***************************************************************************)
(* What is proved of SimCafe for any day: any customers, baskets, stations   *)
(* and staffing plan.                                                        *)
(***************************************************************************)
EXTENDS SimCafe, FiniteSetTheorems, SequenceTheorems, TLAPS

\* The stages an order can be in while its process is at a place.
StagesAt(where) ==
  CASE where \in {"away", "later"}       -> {"unplaced"}
    [] where \in {"new", "line", "till"} -> {"placed"}
    [] where = "bench"                   -> {"accepted"}
    [] where = "shelf"                   -> {"ready"}
    [] where = "gone"                    -> {"balked", "abandoned", "picked_up"}
    [] OTHER                             -> {"in_progress"}

StageInv ==
  /\ at \in [Orders -> AtCounter]
  /\ state \in [Orders -> State \cup {"unplaced"}]
  /\ \A o \in Orders : state[o] \in StagesAt(at[o])

\* Nothing is made before the bench.
Unmade == {"away", "later", "new", "line", "till", "bench"}

StepInv ==
  /\ step \in [Orders -> Nat]
  /\ \A o \in Orders : at[o] \in Unmade => step[o] = 0
  /\ NothingMadeForTheGone
-----------------------------------------------------------------------------
(* Stages *)

\* What an action can do to the customers: nothing, or one of them goes from a
\* place to another and from a stage to another.
Moves(o) ==
  /\ at'    = [at EXCEPT ![o] = at'[o]]
  /\ state' = [state EXCEPT ![o] = state'[o]]

Stays == UNCHANGED <<state, at>>

CustomerStep(o) ==
  /\ Moves(o)
  /\ \/ at[o] = "away" /\ at'[o] = "later" /\ state'[o] = state[o]
     \/ at[o] \in {"away", "later"} /\ at'[o] = "new" /\ state'[o] = "placed"
     \/ at[o] = "new" /\ at'[o] = "gone" /\ state'[o] = "balked"
     \/ at[o] = "new" /\ at'[o] = "bench" /\ state'[o] = "accepted"
     \/ at[o] = "new" /\ at'[o] = "line" /\ state'[o] = state[o]
     \/ at[o] = "line" /\ at'[o] = "gone" /\ state'[o] = "abandoned"
     \/ at[o] = "line" /\ at'[o] = "till" /\ state'[o] = state[o]
     \/ at[o] = "till" /\ at'[o] = "bench" /\ state'[o] = "accepted"
     \/ at[o] = "bench" /\ at'[o] = "make" /\ state'[o] = "in_progress"
     \/ /\ at[o] \in {"make", "station", "pour", "machines", "regain"}
        /\ at'[o] \in {"make", "station", "pour", "machines", "regain"}
        /\ state'[o] = state[o]
     \/ at[o] = "make" /\ at'[o] = "shelf" /\ state'[o] = "ready"
     \/ /\ at[o] = "shelf" /\ at'[o] = "gone"
        /\ state'[o] = IF o \in NoShows \cap Preorders THEN "abandoned" ELSE "picked_up"

\* Every step of the cafe moves one customer along, or none.
LEMMA StepsOfCustomers ==
  ASSUME StageInv, Next
  PROVE  Stays \/ \E o \in Orders : CustomerStep(o)
<1> USE DEF StageInv, Stays, IsAt, Goes
<1>1. ASSUME NEW o \in Orders, OrderNext(o) PROVE CustomerStep(o)
  <2> USE DEF CustomerStep, Moves
  <2>1. CASE ComeLater(o)
    BY <2>1 DEF ComeLater
  <2>2. CASE PlaceOrder(o)
    BY <2>2 DEF PlaceOrder
  <2>3. CASE Balk(o)
    BY <2>3 DEF Balk
  <2>4. CASE GoAhead(o)
    BY <2>4 DEF GoAhead
  <2>5. CASE JoinLine(o)
    BY <2>5 DEF JoinLine
  <2>6. CASE GiveUp(o)
    BY <2>6 DEF GiveUp
  <2>7. CASE StepUp(o)
    BY <2>7 DEF StepUp
  <2>8. CASE RingUp(o)
    BY <2>8 DEF RingUp
  <2>9. CASE Begin(o)
    BY <2>9 DEF Begin
  <2>10. CASE ToStation(o)
    BY <2>10 DEF ToStation, Comes
  <2>11. CASE ToPour(o)
    BY <2>11 DEF ToPour, Comes
  <2>12. CASE ToMachines(o)
    BY <2>12 DEF ToMachines, Comes
  <2>13. CASE LeaveStation(o)
    BY <2>13 DEF LeaveStation, GoesOn
  <2>14. CASE Pour(o)
    BY <2>14 DEF Pour, GoesOn
  <2>15. CASE MachinesDone(o)
    BY <2>15 DEF MachinesDone
  <2>16. CASE Regain(o)
    BY <2>16 DEF Regain, GoesOn
  <2>17. CASE Finish(o)
    BY <2>17 DEF Finish
  <2>18. CASE HandOver(o)
    BY <2>18 DEF HandOver
  <2> QED BY <1>1, <2>1, <2>2, <2>3, <2>4, <2>5, <2>6, <2>7, <2>8, <2>9, <2>10, <2>11,
             <2>12, <2>13, <2>14, <2>15, <2>16, <2>17, <2>18 DEF OrderNext
<1>2. ASSUME NEW s \in Stations, EndCycle(s) PROVE Stays
  BY <1>2 DEF EndCycle, customer
<1>3. ASSUME NEW s \in Grouping, ServerNext(s) PROVE Stays
  BY <1>3 DEF ServerNext, CallBarista, StartBatch, EndBatch, customer
<1>4. ASSUME PlannerNext PROVE Stays
  BY <1>4 DEF PlannerNext, BlockStarts, NextBlock, SendBack, CallOff, TakeOff, Staffed, customer
<1> QED BY <1>1, <1>2, <1>3, <1>4 DEF Next

\* A place and a stage of the process go together.
LEMMA StageStep == StageInv /\ [Next]_vars => StageInv'
<1> SUFFICES ASSUME StageInv, [Next]_vars PROVE StageInv'
  OBVIOUS
<1>1. CASE Next
  <2>1. CASE Stays
    BY <2>1 DEF Stays, StageInv
  <2>2. ASSUME NEW o \in Orders, CustomerStep(o) PROVE StageInv'
    <3>1. /\ at'[o] \in AtCounter /\ state'[o] \in State \cup {"unplaced"}
          /\ state'[o] \in StagesAt(at'[o])
      BY <2>2 DEF CustomerStep, StageInv, StagesAt, AtCounter, State
    <3>2. \A x \in Orders : x # o => at'[x] = at[x] /\ state'[x] = state[x]
      BY <2>2 DEF CustomerStep, Moves, StageInv
    <3>3. at' \in [Orders -> AtCounter] /\ state' \in [Orders -> State \cup {"unplaced"}]
      BY <2>2, <3>1 DEF CustomerStep, Moves, StageInv
    <3> QED BY <3>1, <3>2, <3>3 DEF StageInv
  <2> QED BY <1>1, <2>1, <2>2, StepsOfCustomers
<1>2. CASE UNCHANGED vars
  BY <1>2 DEF vars, StageInv
<1> QED BY <1>1, <1>2

\* Where its process is says in which state an order is.
THEOREM Stages == Spec => []StageInv
<1>1. Init => StageInv
  BY DEF Init, StageInv, StagesAt, AtCounter
<1> QED BY <1>1, StageStep, PTL DEF Spec

\* The simulator is an implementation of the abstract lifecycle: every order is
\* placed once and only makes the moves core/states.py allows.
THEOREM CafeImplementsLifecycle == Spec => ImplementsLifecycle
<1>1. Init => Lifecycle!LifecycleInit
  BY DEF Init, Lifecycle!LifecycleInit
<1>2. StageInv /\ [Next]_vars => [Lifecycle!LifecycleNext]_state
  <2> SUFFICES ASSUME StageInv, [Next]_vars, state' # state
               PROVE  Lifecycle!LifecycleNext
    OBVIOUS
  <2>1. PICK o \in Orders : CustomerStep(o)
    BY StepsOfCustomers DEF Stays, vars
  <2>2. CASE state'[o] = state[o]
    BY <2>1, <2>2 DEF CustomerStep, Moves, StageInv
  <2>3. CASE state[o] = "unplaced" /\ state'[o] = "placed"
    BY <2>1, <2>3 DEF CustomerStep, Moves, Lifecycle!LifecycleNext, Lifecycle!Place
  <2>4. CASE state[o] \in State /\ state'[o] \in LEGAL[state[o]]
    <3>1. state'[o] \in State
      BY <2>4 DEF LEGAL, State
    <3> QED BY <2>1, <2>4, <3>1
            DEF CustomerStep, Moves, Lifecycle!LifecycleNext, Lifecycle!Move,
                Lifecycle!State, Lifecycle!LEGAL, State, LEGAL
  <2>5. state[o] \in StagesAt(at[o])
    BY DEF StageInv
  <2>6. \/ state'[o] = state[o]
        \/ state[o] = "unplaced" /\ state'[o] = "placed"
        \/ state[o] \in State /\ state'[o] \in LEGAL[state[o]]
    BY <2>1, <2>5 DEF CustomerStep, StagesAt, State, LEGAL
  <2> QED BY <2>2, <2>3, <2>4, <2>6
<1> QED BY <1>1, <1>2, Stages, PTL DEF Spec, ImplementsLifecycle, Lifecycle!LifecycleSpec
-----------------------------------------------------------------------------
(* Work and those who leave *)

\* Only Begin and what follows it touch the step of an order.
LEMMA StepsCounted ==
  ASSUME StageInv, StepInv, Next
  PROVE  /\ step' \in [Orders -> Nat]
         /\ \A o \in Orders : step'[o] = step[o] \/ at'[o] = "make"
<1> USE DEF StageInv, StepInv, IsAt, Goes
<1>1. ASSUME NEW o \in Orders, OrderNext(o)
      PROVE  /\ step' \in [Orders -> Nat]
             /\ \A x \in Orders : step'[x] = step[x] \/ at'[x] = "make"
  <2>1. CASE step' = step
    BY <2>1
  <2>2. CASE Begin(o)
    BY <2>2 DEF Begin
  <2>3. CASE LeaveStation(o) \/ Pour(o) \/ Regain(o)
    BY <2>3 DEF LeaveStation, Pour, Regain, GoesOn
  <2> QED BY <1>1, <2>1, <2>2, <2>3
          DEF OrderNext, ComeLater, PlaceOrder, Balk, GoAhead, JoinLine, GiveUp, StepUp, RingUp,
              ToStation, ToPour, ToMachines, MachinesDone, Finish, HandOver
<1>2. ASSUME NEW s \in Stations, EndCycle(s) PROVE step' = step
  BY <1>2 DEF EndCycle, customer
<1>3. ASSUME NEW s \in Grouping, ServerNext(s) PROVE step' = step
  BY <1>3 DEF ServerNext, CallBarista, StartBatch, EndBatch, customer
<1>4. ASSUME PlannerNext PROVE step' = step
  BY <1>4 DEF PlannerNext, BlockStarts, NextBlock, SendBack, CallOff, TakeOff, Staffed, customer
<1> QED BY <1>1, <1>2, <1>3, <1>4 DEF Next

\* An order's step is counted from its bench on.
LEMMA StepsInOrder == Spec => []StepInv
<1>1. Init => StepInv
  BY CafeAssumption DEF Init, StepInv, NothingMadeForTheGone, Unmade, Orders
<1>2. StageInv /\ StepInv /\ [Next]_vars => StepInv'
  <2> SUFFICES ASSUME StageInv, StepInv, [Next]_vars PROVE StepInv'
    OBVIOUS
  <2>1. CASE Next
    <3>1. ASSUME NEW o \in Orders, at'[o] \in Unmade PROVE step'[o] = 0
      <4>1. step'[o] = step[o]
        BY <2>1, <3>1, StepsCounted DEF Unmade
      <4>2. at[o] \in Unmade
        <5>1. CASE at'[o] = at[o]
          BY <3>1, <5>1
        <5>2. ASSUME at'[o] # at[o] PROVE at[o] \in Unmade
          <6>1. PICK x \in Orders : CustomerStep(x)
            BY <2>1, <5>2, StepsOfCustomers DEF Stays
          <6>2. x = o
            BY <5>2, <6>1 DEF CustomerStep, Moves, StageInv
          <6> QED BY <3>1, <6>1, <6>2 DEF CustomerStep, Unmade
        <5> QED BY <5>1, <5>2
      <4> QED BY <4>1, <4>2 DEF StepInv
    <3>2. ASSUME NEW o \in Walkups, state'[o] \in LOST PROVE step'[o] = 0
      <4>1. o \in Orders
        BY DEF Orders
      <4>2. state'[o] \in StagesAt(at'[o])
        BY <4>1, <2>1, StageStep DEF StageInv
      <4>3. step'[o] = step[o]
        BY <3>2, <4>1, <4>2, <2>1, StepsCounted DEF StagesAt, LOST
      <4>4. CASE state'[o] = state[o]
        BY <3>2, <4>3, <4>4 DEF StepInv, NothingMadeForTheGone
      <4>5. ASSUME state'[o] # state[o] PROVE at[o] \in Unmade
        <5>1. PICK x \in Orders : CustomerStep(x)
          BY <2>1, <4>5, StepsOfCustomers DEF Stays
        <5>2. x = o
          BY <4>1, <4>5, <5>1 DEF CustomerStep, Moves, StageInv
        <5>3. o \notin Preorders
          BY <3>2, CafeAssumption
        <5> QED BY <3>2, <4>1, <4>5, <5>1, <5>2, <5>3 DEF CustomerStep, Unmade, LOST
      <4> QED BY <4>1, <4>3, <4>4, <4>5 DEF StepInv
    <3> QED BY <2>1, <3>1, <3>2, StepsCounted DEF StepInv, NothingMadeForTheGone
  <2>2. CASE UNCHANGED vars
    BY <2>2 DEF vars, StepInv, NothingMadeForTheGone
  <2> QED BY <2>1, <2>2
<1> QED BY <1>1, <1>2, Stages, PTL DEF Spec

\* Patience is spent in the line and nowhere after it: nothing was made for a
\* walk-up the cafe lost.
THEOREM NothingWasted == Spec => []NothingMadeForTheGone
<1>1. StepInv => NothingMadeForTheGone
  BY DEF StepInv
<1> QED BY <1>1, StepsInOrder, PTL
-----------------------------------------------------------------------------
(* The pool.  What Get, Put and Cancel do to it, whoever calls them. *)

PoolTypes ==
  /\ crew \subseteq Baristas /\ off \subseteq Baristas
  /\ crewQ \in Seq(Procs) /\ hands \in [Procs -> Baristas \cup {Nobody}]

\* Each barista is in one place.
OnePlaceEach ==
  /\ \A b \in Baristas : b \in crew \/ b \in off \/ \E p \in Procs : hands[p] = b
  /\ crew \cap off = {}
  /\ \A p \in Procs : hands[p] \notin crew \cup off
  /\ \A p, q \in Procs : hands[p] = hands[q] /\ hands[p] # Nobody => p = q

InLine(p) == \E i \in DOMAIN crewQ : crewQ[i] = p

\* Those in line have nobody yet, wait once, and wait only while nobody is free.
LineOK ==
  /\ \A i \in DOMAIN crewQ : hands[crewQ[i]] = Nobody
  /\ \A i, j \in DOMAIN crewQ : crewQ[i] = crewQ[j] => i = j
  /\ crewQ # <<>> => crew = {}

PoolOK == PoolTypes /\ OnePlaceEach /\ LineOK

\* What anybody but p can notice: somebody in line may be handed a barista.
OthersKeep(p) ==
  \A q \in Procs \ {p} :
    /\ InLine(q)' => InLine(q)
    /\ hands[q] # Nobody => hands'[q] # Nobody
    /\ InLine(q) => InLine(q)' \/ hands'[q] # Nobody
    /\ hands'[q] # Nobody => hands[q] # Nobody \/ InLine(q)

\* Who joins the line is in it, behind the others.
LEMMA Joining ==
  ASSUME NEW line \in Seq(Procs), NEW p \in Procs, \A i \in DOMAIN line : line[i] # p,
         \A i, j \in DOMAIN line : line[i] = line[j] => i = j
  PROVE  LET longer == Append(line, p)
         IN /\ longer \in Seq(Procs) /\ longer # <<>>
            /\ \A q \in Procs : (\E i \in DOMAIN longer : longer[i] = q)
                                  <=> q = p \/ \E i \in DOMAIN line : line[i] = q
            /\ \A i, j \in DOMAIN longer : longer[i] = longer[j] => i = j
<1> DEFINE longer == Append(line, p)
<1>1. /\ longer \in Seq(Procs) /\ Len(longer) = Len(line) + 1
      /\ longer[Len(line) + 1] = p /\ \A i \in 1..Len(line) : longer[i] = line[i]
      /\ DOMAIN longer = 1..(Len(line) + 1) /\ DOMAIN line = 1..Len(line) /\ Len(line) \in Nat
  OBVIOUS
<1>2. longer # <<>>
  BY <1>1
<1> HIDE DEF longer
<1>3. \A i, j \in DOMAIN longer : longer[i] = longer[j] => i = j
  BY <1>1
<1>4. ASSUME NEW q \in Procs
      PROVE  (\E i \in DOMAIN longer : longer[i] = q)
                <=> q = p \/ \E i \in DOMAIN line : line[i] = q
  BY <1>1
<1> QED BY <1>1, <1>2, <1>3, <1>4 DEF longer

\* The first in line, and the line behind them.
LEMMA Serving ==
  ASSUME NEW line \in Seq(Procs), line # <<>>,
         \A i, j \in DOMAIN line : line[i] = line[j] => i = j
  PROVE  /\ Head(line) \in Procs /\ Tail(line) \in Seq(Procs)
         /\ \E i \in DOMAIN line : line[i] = Head(line)
         /\ \A q \in Procs : (\E i \in DOMAIN Tail(line) : Tail(line)[i] = q)
                               <=> q # Head(line) /\ \E i \in DOMAIN line : line[i] = q
         /\ \A i, j \in DOMAIN Tail(line) : Tail(line)[i] = Tail(line)[j] => i = j
<1> DEFINE rest == Tail(line)
<1>1. /\ Len(line) \in Nat \ {0} /\ Head(line) = line[1] /\ rest \in Seq(Procs)
      /\ Len(rest) = Len(line) - 1 /\ \A i \in 1..(Len(line) - 1) : rest[i] = line[i + 1]
      /\ DOMAIN rest = 1..(Len(line) - 1) /\ DOMAIN line = 1..Len(line)
  OBVIOUS
<1> HIDE DEF rest
<1>2. ASSUME NEW i \in DOMAIN rest, NEW j \in DOMAIN rest, rest[i] = rest[j] PROVE i = j
  <2>1. i + 1 \in DOMAIN line /\ j + 1 \in DOMAIN line /\ line[i + 1] = line[j + 1]
    BY <1>1, <1>2
  <2> QED BY <1>1, <2>1
<1>3. ASSUME NEW q \in Procs, NEW i \in DOMAIN rest, rest[i] = q
      PROVE  q # Head(line) /\ \E k \in DOMAIN line : line[k] = q
  <2>1. i + 1 \in DOMAIN line /\ line[i + 1] = q /\ i + 1 # 1 /\ 1 \in DOMAIN line
    BY <1>1, <1>3
  <2> QED BY <1>1, <2>1
<1>4. ASSUME NEW q \in Procs, q # Head(line), NEW k \in DOMAIN line, line[k] = q
      PROVE  \E i \in DOMAIN rest : rest[i] = q
  <2>1. k # 1 /\ k - 1 \in DOMAIN rest /\ rest[k - 1] = q
    BY <1>1, <1>4
  <2> QED BY <2>1
<1>5. Head(line) \in Procs /\ \E i \in DOMAIN line : line[i] = Head(line)
  BY <1>1
<1> QED BY <1>1, <1>2, <1>3, <1>4, <1>5 DEF rest

\* A line without one of its members.
LEMMA Leaving ==
  ASSUME NEW line \in Seq(Procs), NEW k \in DOMAIN line,
         \A i, j \in DOMAIN line : line[i] = line[j] => i = j
  PROVE  LET shorter == RemoveAt(line, k)
         IN /\ shorter \in Seq(Procs)
            /\ \A q \in Procs : (\E i \in DOMAIN shorter : shorter[i] = q)
                                  <=> q # line[k] /\ \E i \in DOMAIN line : line[i] = q
            /\ \A i, j \in DOMAIN shorter : shorter[i] = shorter[j] => i = j
<1> DEFINE n == Len(line)
           shorter == RemoveAt(line, k)
           from(i) == IF i < k THEN i ELSE i + 1
<1>1. n \in Nat /\ k \in 1..n /\ DOMAIN line = 1..n
  OBVIOUS
<1>2. /\ shorter \in Seq(Procs) /\ Len(shorter) = n - 1
      /\ \A i \in 1..(n - 1) : shorter[i] = line[from(i)]
  <2> DEFINE front == SubSeq(line, 1, k - 1)
             back == SubSeq(line, k + 1, n)
  <2>1. front \in Seq(Procs) /\ Len(front) = k - 1 /\ \A i \in 1..(k - 1) : front[i] = line[i]
    BY <1>1
  <2>2. back \in Seq(Procs) /\ Len(back) = n - k /\ \A i \in 1..(n - k) : back[i] = line[k + i]
    BY <1>1, SMTT(30)
  <2>3. shorter = front \o back
    BY DEF RemoveAt
  <2> HIDE DEF front, back, shorter, n
  <2>4. /\ shorter \in Seq(Procs) /\ Len(shorter) = Len(front) + Len(back)
        /\ \A i \in 1..Len(shorter) : shorter[i] = IF i <= Len(front) THEN front[i]
                                                   ELSE back[i - Len(front)]
    BY <2>1, <2>2, <2>3, ConcatProperties
  <2>5. ASSUME NEW i \in 1..(n - 1) PROVE shorter[i] = line[from(i)]
    <3>1. CASE i < k
      <4>1. shorter[i] = front[i]
        BY <1>1, <2>1, <2>2, <2>4, <3>1
      <4> QED BY <1>1, <2>1, <3>1, <4>1
    <3>2. CASE ~(i < k)
      <4>1. shorter[i] = back[i - (k - 1)]
        BY <1>1, <2>1, <2>2, <2>4, <3>2
      <4>2. i - (k - 1) \in 1..(n - k) /\ k + (i - (k - 1)) = i + 1
        BY <1>1, <3>2
      <4> QED BY <2>2, <3>2, <4>1, <4>2
    <3> QED BY <3>1, <3>2
  <2> QED BY <1>1, <2>1, <2>2, <2>4, <2>5
<1>3. DOMAIN shorter = 1..(n - 1)
  BY <1>1, <1>2
<1> HIDE DEF shorter
<1>4. ASSUME NEW i \in DOMAIN shorter, NEW j \in DOMAIN shorter, shorter[i] = shorter[j] PROVE i = j
  <2>1. from(i) \in 1..n /\ from(j) \in 1..n
    BY <1>1, <1>3
  <2>2. from(i) = from(j)
    BY <1>1, <1>2, <1>3, <1>4, <2>1
  <2> QED BY <1>1, <1>3, <2>2
<1>5. ASSUME NEW q \in Procs, NEW i \in DOMAIN shorter, shorter[i] = q
      PROVE  q # line[k] /\ \E j \in DOMAIN line : line[j] = q
  <2>1. from(i) \in DOMAIN line /\ from(i) # k /\ line[from(i)] = q
    BY <1>1, <1>2, <1>3, <1>5
  <2> QED BY <2>1
<1>6. ASSUME NEW q \in Procs, NEW j \in DOMAIN line, line[j] = q, q # line[k]
      PROVE  \E i \in DOMAIN shorter : shorter[i] = q
  <2>1. CASE j < k
    <3>1. j \in DOMAIN shorter /\ from(j) = j
      BY <1>1, <1>3, <2>1
    <3> QED BY <1>2, <1>3, <1>6, <3>1
  <2>2. CASE j > k
    <3>1. j - 1 \in DOMAIN shorter /\ from(j - 1) = j
      BY <1>1, <1>3, <2>2
    <3> QED BY <1>2, <1>3, <1>6, <3>1
  <2> QED BY <1>1, <1>6, <2>1, <2>2
<1> QED BY <1>2, <1>4, <1>5, <1>6 DEF shorter

\* crew.get() by a process with nobody in hand: it has a barista or is in line.
LEMMA GetKeeps ==
  ASSUME PoolOK, NEW p \in Procs, hands[p] = Nobody, ~InLine(p), Get(p), off' = off
  PROVE  /\ PoolOK' /\ OthersKeep(p)
         /\ IF hands'[p] # Nobody THEN ~InLine(p)' ELSE InLine(p)'
<1> USE DEF PoolOK, PoolTypes, OnePlaceEach, LineOK, OthersKeep, InLine
<1>1. CASE crew = {}
  <2>1. crewQ' = Append(crewQ, p) /\ crew' = crew /\ hands' = hands
    BY <1>1 DEF Get
  <2>2. /\ crewQ' \in Seq(Procs) /\ crewQ' # <<>>
        /\ \A q \in Procs : InLine(q)' <=> q = p \/ InLine(q)
        /\ \A i, j \in DOMAIN crewQ' : crewQ'[i] = crewQ'[j] => i = j
    BY <2>1, Joining
  <2>3. LineOK'
    <3>1. ASSUME NEW i \in DOMAIN crewQ' PROVE hands'[crewQ'[i]] = Nobody
      <4>1. crewQ'[i] \in Procs /\ (crewQ'[i] = p \/ InLine(crewQ'[i]))
        BY <2>2, <3>1
      <4> QED BY <2>1, <4>1
    <3> QED BY <1>1, <2>1, <2>2, <3>1
  <2>4. PoolTypes' /\ OnePlaceEach'
    BY <2>1, <2>2
  <2>5. OthersKeep(p) /\ hands'[p] = Nobody /\ InLine(p)'
    BY <2>1, <2>2
  <2> QED BY <2>3, <2>4, <2>5
<1>2. CASE crew # {}
  <2>1. PICK b \in crew : crew' = crew \ {b} /\ hands' = [hands EXCEPT ![p] = b] /\ crewQ' = crewQ
    BY <1>2 DEF Get
  <2>2. crewQ = <<>>
    BY <1>2
  <2>3. PoolTypes' /\ LineOK'
    BY <2>1, <2>2
  <2>4. /\ hands'[p] = b /\ \A q \in Procs \ {p} : hands'[q] = hands[q]
        /\ b \in Baristas /\ b # Nobody
    BY <2>1, CafeAssumption
  <2>5. OnePlaceEach'
    <3>1. ASSUME NEW c \in Baristas
          PROVE  c \in crew' \/ c \in off' \/ \E q \in Procs : hands'[q] = c
      <4>1. CASE c = b
        BY <2>4, <4>1
      <4>2. ASSUME NEW q \in Procs, hands[q] = c PROVE hands'[q] = c
        BY <2>4, <4>2, CafeAssumption
      <4>3. CASE c # b /\ c \in crew
        BY <2>1, <4>3
      <4> QED BY <4>1, <4>2, <4>3
    <3>2. crew' \cap off' = {} /\ \A q \in Procs : hands'[q] \notin crew' \cup off'
      BY <2>1, <2>4
    <3>3. \A q, r \in Procs : hands'[q] = hands'[r] /\ hands'[q] # Nobody => q = r
      BY <2>1, <2>4
    <3> QED BY <3>1, <3>2, <3>3
  <2>6. OthersKeep(p) /\ hands'[p] # Nobody /\ ~InLine(p)'
    BY <2>1, <2>2, <2>4
  <2> QED BY <2>3, <2>5, <2>6
<1> QED BY <1>1, <1>2

\* Nobody is given to a barista in hand or off the floor.
LEMMA HandsAreReal ==
  ASSUME PoolOK, NEW p \in Procs, hands[p] # Nobody
  PROVE  hands[p] \in Baristas /\ ~InLine(p) /\ hands[p] \notin crew /\ hands[p] \notin off
BY DEF PoolOK, PoolTypes, OnePlaceEach, LineOK, InLine

\* crew.put() of the barista in hand: to the first in line, or into the pool.
LEMMA HandBackKeeps ==
  ASSUME PoolOK, NEW p \in Procs, hands[p] # Nobody, HandBack(p), off' = off
  PROVE  PoolOK' /\ OthersKeep(p) /\ hands'[p] = Nobody /\ ~InLine(p)'
<1> DEFINE b == hands[p]
           h == [hands EXCEPT ![p] = Nobody]
<1>1. b \in Baristas /\ b # Nobody /\ ~InLine(p) /\ b \notin crew /\ b \notin off
  BY HandsAreReal
<1>2. \A q \in Procs : hands[q] = b => q = p
  BY <1>1 DEF PoolOK, OnePlaceEach
<1> USE DEF PoolOK, PoolTypes, OnePlaceEach, LineOK, OthersKeep, InLine
<1>3. CASE crewQ = <<>>
  <2>1. crew' = crew \cup {b} /\ hands' = h /\ crewQ' = crewQ
    BY <1>3 DEF HandBack, Put
  <2> HIDE DEF b
  <2>2. hands'[p] = Nobody /\ \A q \in Procs \ {p} : hands'[q] = hands[q]
    BY <2>1
  <2>3. PoolTypes' /\ LineOK'
    BY <1>1, <1>3, <2>1
  <2>4. OnePlaceEach'
    <3>1. ASSUME NEW c \in Baristas
          PROVE  c \in crew' \/ c \in off' \/ \E q \in Procs : hands'[q] = c
      BY <2>1, <2>2 DEF b
    <3>2. crew' \cap off' = {} /\ \A q \in Procs : hands'[q] \notin crew' \cup off'
      BY <1>1, <1>2, <2>1, <2>2, CafeAssumption
    <3>3. \A q, r \in Procs : hands'[q] = hands'[r] /\ hands'[q] # Nobody => q = r
      BY <2>2
    <3> QED BY <3>1, <3>2, <3>3
  <2>5. OthersKeep(p) /\ ~InLine(p)'
    BY <1>1, <2>1, <2>2
  <2> QED BY <2>2, <2>3, <2>4, <2>5
<1>4. CASE crewQ # <<>>
  <2> DEFINE n == Head(crewQ)
  <2>1. crew' = crew /\ hands' = [h EXCEPT ![n] = b] /\ crewQ' = Tail(crewQ)
    BY <1>4 DEF HandBack, Put
  <2>2. /\ n \in Procs /\ crewQ' \in Seq(Procs) /\ InLine(n)
        /\ \A q \in Procs : InLine(q)' <=> q # n /\ InLine(q)
        /\ \A i, j \in DOMAIN crewQ' : crewQ'[i] = crewQ'[j] => i = j
    BY <1>4, <2>1, Serving
  <2> HIDE DEF b, n
  <2>3. n # p /\ hands[n] = Nobody /\ crew = {}
    BY <1>1, <1>4, <2>2
  <2>4. /\ hands'[p] = Nobody /\ hands'[n] = b
        /\ \A q \in Procs \ {p, n} : hands'[q] = hands[q]
    BY <2>1, <2>2, <2>3
  <2>5. PoolTypes'
    BY <1>1, <2>1, <2>2
  <2>6. LineOK'
    <3>1. ASSUME NEW i \in DOMAIN crewQ' PROVE hands'[crewQ'[i]] = Nobody
      <4>1. crewQ'[i] \in Procs /\ crewQ'[i] # n /\ InLine(crewQ'[i])
        BY <2>2, <3>1
      <4> QED BY <2>4, <4>1
    <3> QED BY <2>1, <2>2, <2>3, <3>1
  <2>7. OnePlaceEach'
    <3>1. ASSUME NEW c \in Baristas
          PROVE  c \in crew' \/ c \in off' \/ \E q \in Procs : hands'[q] = c
      <4>1. CASE c = b
        BY <2>2, <2>4, <4>1
      <4>2. ASSUME c # b, NEW q \in Procs, hands[q] = c PROVE q # p /\ q # n
        BY <2>3, <4>2, CafeAssumption DEF b
      <4> QED BY <2>1, <2>4, <4>1, <4>2
    <3>2. crew' \cap off' = {} /\ \A q \in Procs : hands'[q] \notin crew' \cup off'
      <4>1. off' = off /\ crew' = {} /\ b \notin off /\ Nobody \notin off
        BY <1>1, <2>1, <2>3, CafeAssumption DEF b
      <4>2. \A q \in Procs : hands'[q] \in {Nobody, b} \/ hands'[q] = hands[q]
        BY <2>4
      <4>3. \A q \in Procs : hands[q] \notin off
        BY <1>1
      <4> QED BY <4>1, <4>2, <4>3
    <3>3. \A q, r \in Procs : hands'[q] = hands'[r] /\ hands'[q] # Nobody => q = r
      BY <1>2, <2>3, <2>4
    <3> QED BY <3>1, <3>2, <3>3
  <2>8. OthersKeep(p) /\ ~InLine(p)'
    BY <1>1, <2>2, <2>3, <2>4
  <2> QED BY <2>4, <2>5, <2>6, <2>7, <2>8
<1> QED BY <1>3, <1>4

\* crew.put() and crew.get() in one activation: behind those already in line.
LEMMA HandBackAndGetKeeps ==
  ASSUME PoolOK, NEW p \in Procs, hands[p] # Nobody, HandBackAndGet(p), off' = off
  PROVE  /\ PoolOK' /\ OthersKeep(p)
         /\ IF hands'[p] # Nobody THEN ~InLine(p)' ELSE InLine(p)'
<1> DEFINE b == hands[p]
<1>1. b \in Baristas /\ b # Nobody /\ ~InLine(p) /\ b \notin crew /\ b \notin off
  BY HandsAreReal
<1>2. \A q \in Procs : hands[q] = b => q = p
  BY <1>1 DEF PoolOK, OnePlaceEach
<1> USE DEF PoolOK, PoolTypes, OnePlaceEach, LineOK, OthersKeep, InLine
<1>3. CASE crewQ = <<>>
  <2>1. PICK c \in crew \cup {b} : /\ crew' = (crew \cup {b}) \ {c}
                                   /\ hands' = [hands EXCEPT ![p] = c] /\ crewQ' = crewQ
    BY <1>3 DEF HandBackAndGet
  <2> HIDE DEF b
  <2>2. /\ hands'[p] = c /\ \A q \in Procs \ {p} : hands'[q] = hands[q]
        /\ c \in Baristas /\ c # Nobody
    BY <1>1, <2>1, CafeAssumption
  <2>3. PoolTypes' /\ LineOK'
    BY <1>1, <1>3, <2>1, <2>2
  <2>4. OnePlaceEach'
    <3>1. ASSUME NEW d \in Baristas
          PROVE  d \in crew' \/ d \in off' \/ \E q \in Procs : hands'[q] = d
      <4>1. CASE d = c
        BY <2>2, <4>1
      <4>2. CASE d # c /\ d \in crew \cup {b}
        BY <2>1, <4>2
      <4>3. ASSUME NEW q \in Procs, hands[q] = d, d # b PROVE hands'[q] = d
        BY <2>2, <4>3 DEF b
      <4> QED BY <4>1, <4>2, <4>3
    <3>2. crew' \cap off' = {} /\ \A q \in Procs : hands'[q] \notin crew' \cup off'
      BY <1>1, <1>2, <2>1, <2>2
    <3>3. \A q, r \in Procs : hands'[q] = hands'[r] /\ hands'[q] # Nobody => q = r
      BY <1>2, <2>1, <2>2
    <3> QED BY <3>1, <3>2, <3>3
  <2>5. OthersKeep(p) /\ ~InLine(p)' /\ hands'[p] # Nobody
    BY <1>1, <2>1, <2>2
  <2> QED BY <2>3, <2>4, <2>5
<1>4. CASE crewQ # <<>>
  <2> DEFINE n == Head(crewQ)
             rest == Tail(crewQ)
  <2>1. /\ crew' = crew /\ hands' = [hands EXCEPT ![p] = Nobody, ![n] = b]
        /\ crewQ' = Append(rest, p)
    BY <1>4 DEF HandBackAndGet
  <2>2. /\ n \in Procs /\ rest \in Seq(Procs) /\ InLine(n)
        /\ \A q \in Procs : (\E i \in DOMAIN rest : rest[i] = q) <=> q # n /\ InLine(q)
        /\ \A i, j \in DOMAIN rest : rest[i] = rest[j] => i = j
    BY <1>4, Serving
  <2> HIDE DEF b, n, rest
  <2>3. n # p /\ hands[n] = Nobody /\ crew = {}
    BY <1>1, <1>4, <2>2
  <2>4. /\ hands'[p] = Nobody /\ hands'[n] = b
        /\ \A q \in Procs \ {p, n} : hands'[q] = hands[q]
    BY <2>1, <2>2, <2>3
  <2>5. \A i \in DOMAIN rest : rest[i] # p
    BY <1>1, <2>2
  <2>6. /\ crewQ' \in Seq(Procs) /\ crewQ' # <<>>
        /\ \A q \in Procs : InLine(q)' <=> q = p \/ (q # n /\ InLine(q))
        /\ \A i, j \in DOMAIN crewQ' : crewQ'[i] = crewQ'[j] => i = j
    <3> HIDE DEF InLine
    <3>1. rest \in Seq(Procs) /\ \A i, j \in DOMAIN rest : rest[i] = rest[j] => i = j
      BY <2>2
    <3>2. /\ crewQ' \in Seq(Procs) /\ crewQ' # <<>>
          /\ \A q \in Procs : (\E i \in DOMAIN crewQ' : crewQ'[i] = q)
                                <=> q = p \/ \E i \in DOMAIN rest : rest[i] = q
          /\ \A i, j \in DOMAIN crewQ' : crewQ'[i] = crewQ'[j] => i = j
      <4> DEFINE longer == Append(rest, p)
      <4>1. /\ longer \in Seq(Procs) /\ longer # <<>>
            /\ \A q \in Procs : (\E i \in DOMAIN longer : longer[i] = q)
                                  <=> q = p \/ \E i \in DOMAIN rest : rest[i] = q
            /\ \A i, j \in DOMAIN longer : longer[i] = longer[j] => i = j
        BY <3>1, <2>5, Joining
      <4> HIDE DEF longer
      <4>2. crewQ' = longer
        BY <2>1 DEF longer
      <4> QED BY <4>1, <4>2
    <3>3. \A q \in Procs : InLine(q)' <=> \E i \in DOMAIN crewQ' : crewQ'[i] = q
      BY DEF InLine
    <3> QED BY <2>2, <3>2, <3>3
  <2>7. PoolTypes'
    BY <1>1, <2>1, <2>2, <2>6
  <2>8. LineOK'
    <3>1. ASSUME NEW i \in DOMAIN crewQ' PROVE hands'[crewQ'[i]] = Nobody
      <4>1. crewQ'[i] \in Procs /\ (crewQ'[i] = p \/ (crewQ'[i] # n /\ InLine(crewQ'[i])))
        BY <2>6, <3>1
      <4> QED BY <2>4, <4>1
    <3> QED BY <2>1, <2>3, <2>6, <3>1
  <2>9. OnePlaceEach'
    <3>1. ASSUME NEW c \in Baristas
          PROVE  c \in crew' \/ c \in off' \/ \E q \in Procs : hands'[q] = c
      <4>1. CASE c = b
        BY <2>2, <2>4, <4>1
      <4>2. ASSUME c # b, NEW q \in Procs, hands[q] = c PROVE q # p /\ q # n
        BY <2>3, <4>2, CafeAssumption DEF b
      <4> QED BY <2>1, <2>4, <4>1, <4>2
    <3>2. crew' \cap off' = {} /\ \A q \in Procs : hands'[q] \notin crew' \cup off'
      <4>1. off' = off /\ crew' = {} /\ b \notin off /\ Nobody \notin off
        BY <1>1, <2>1, <2>3, CafeAssumption DEF b
      <4>2. \A q \in Procs : hands'[q] \in {Nobody, b} \/ hands'[q] = hands[q]
        BY <2>4
      <4>3. \A q \in Procs : hands[q] \notin off
        BY <1>1
      <4> QED BY <4>1, <4>2, <4>3
    <3>3. \A q, r \in Procs : hands'[q] = hands'[r] /\ hands'[q] # Nobody => q = r
      BY <1>2, <2>3, <2>4
    <3> QED BY <3>1, <3>2, <3>3
  <2>10. OthersKeep(p) /\ InLine(p)' /\ hands'[p] = Nobody
    <3> HIDE DEF InLine
    <3>1. ASSUME NEW q \in Procs \ {p}
          PROVE  /\ InLine(q)' => InLine(q)
                 /\ hands[q] # Nobody => hands'[q] # Nobody
                 /\ InLine(q) => InLine(q)' \/ hands'[q] # Nobody
                 /\ hands'[q] # Nobody => hands[q] # Nobody \/ InLine(q)
      <4>1. CASE q = n
        BY <1>1, <2>2, <2>3, <2>4, <2>6, <4>1 DEF b
      <4>2. CASE q # n
        BY <2>4, <2>6, <4>2
      <4> QED BY <4>1, <4>2
    <3> QED BY <2>4, <2>6, <3>1
  <2> QED BY <2>7, <2>8, <2>9, <2>10
<1> QED BY <1>3, <1>4

\* waiting.cancel() by somebody who was not handed a barista: they are out of line.
LEMMA CancelKeeps ==
  ASSUME PoolOK, NEW p \in Procs, Cancel(p), off' = off
  PROVE  PoolOK' /\ OthersKeep(p) /\ hands' = hands /\ ~InLine(p)'
<1> USE DEF PoolOK, PoolTypes, OnePlaceEach, LineOK, OthersKeep, InLine
<1>1. crew' = crew /\ hands' = hands
  BY DEF Cancel
<1>2. CASE InLine(p)
  <2> DEFINE k == CHOOSE i \in DOMAIN crewQ : crewQ[i] = p
  <2>1. k \in DOMAIN crewQ /\ crewQ[k] = p
    BY <1>2
  <2>2. crewQ' = RemoveAt(crewQ, k)
    BY <1>2 DEF Cancel
  <2> HIDE DEF k
  <2>3. /\ crewQ' \in Seq(Procs)
        /\ \A q \in Procs : InLine(q)' <=> q # p /\ InLine(q)
        /\ \A i, j \in DOMAIN crewQ' : crewQ'[i] = crewQ'[j] => i = j
    BY <2>1, <2>2, Leaving
  <2>4. LineOK'
    <3>1. ASSUME NEW i \in DOMAIN crewQ' PROVE hands'[crewQ'[i]] = Nobody
      <4>1. crewQ'[i] \in Procs /\ InLine(crewQ'[i])
        BY <2>3, <3>1
      <4> QED BY <1>1, <4>1
    <3>2. crew = {}
      BY <2>1
    <3> QED BY <1>1, <2>3, <3>1, <3>2
  <2> QED BY <1>1, <2>3, <2>4
<1>3. CASE ~InLine(p)
  <2>1. crewQ' = crewQ
    BY <1>3 DEF Cancel
  <2> QED BY <1>1, <1>3, <2>1
<1> QED BY <1>2, <1>3

\* The planner puts somebody back on the floor.
LEMMA SendBackKeeps ==
  ASSUME PoolOK, hands[Planner] = Nobody, ~InLine(Planner),
         NEW b \in off, off' = off \ {b}, Put(b, hands)
  PROVE  PoolOK' /\ OthersKeep(Planner) /\ hands'[Planner] = Nobody /\ ~InLine(Planner)'
<1>1. b \in Baristas /\ b # Nobody /\ b \notin crew /\ Planner \in Procs
  BY CafeAssumption DEF PoolOK, PoolTypes, OnePlaceEach, Procs
<1>2. \A q \in Procs : hands[q] # b
  BY DEF PoolOK, OnePlaceEach
<1> USE DEF PoolOK, PoolTypes, OnePlaceEach, LineOK, OthersKeep, InLine
<1>3. CASE crewQ = <<>>
  <2>1. crew' = crew \cup {b} /\ hands' = hands /\ crewQ' = crewQ
    BY <1>3 DEF Put
  <2>2. PoolTypes' /\ LineOK'
    BY <1>1, <1>3, <2>1
  <2>3. OnePlaceEach'
    BY <1>1, <1>2, <2>1
  <2> QED BY <2>1, <2>2, <2>3
<1>4. CASE crewQ # <<>>
  <2> DEFINE n == Head(crewQ)
  <2>1. crew' = crew /\ hands' = [hands EXCEPT ![n] = b] /\ crewQ' = Tail(crewQ)
    BY <1>4 DEF Put
  <2>2. /\ n \in Procs /\ crewQ' \in Seq(Procs) /\ InLine(n)
        /\ \A q \in Procs : InLine(q)' <=> q # n /\ InLine(q)
        /\ \A i, j \in DOMAIN crewQ' : crewQ'[i] = crewQ'[j] => i = j
    BY <1>4, <2>1, Serving
  <2> HIDE DEF n
  <2>3. n # Planner /\ hands[n] = Nobody /\ crew = {}
    BY <1>4, <2>2
  <2>4. hands'[n] = b /\ \A q \in Procs \ {n} : hands'[q] = hands[q]
    BY <2>1, <2>2
  <2>5. PoolTypes'
    BY <1>1, <2>1, <2>2
  <2>6. LineOK'
    <3>1. ASSUME NEW i \in DOMAIN crewQ' PROVE hands'[crewQ'[i]] = Nobody
      <4>1. crewQ'[i] \in Procs /\ crewQ'[i] # n /\ InLine(crewQ'[i])
        BY <2>2, <3>1
      <4> QED BY <2>4, <4>1
    <3> QED BY <2>1, <2>2, <2>3, <3>1
  <2>7. OnePlaceEach'
    <3>1. ASSUME NEW c \in Baristas
          PROVE  c \in crew' \/ c \in off' \/ \E q \in Procs : hands'[q] = c
      <4>1. CASE c = b
        BY <2>2, <2>4, <4>1
      <4>2. ASSUME NEW q \in Procs, hands[q] = c PROVE q # n
        BY <2>3, <4>2, CafeAssumption
      <4> QED BY <2>1, <2>4, <4>1, <4>2
    <3>2. crew' \cap off' = {} /\ \A q \in Procs : hands'[q] \notin crew' \cup off'
      BY <1>1, <2>1, <2>3, <2>4
    <3>3. \A q, r \in Procs : hands'[q] = hands'[r] /\ hands'[q] # Nobody => q = r
      BY <1>2, <2>3, <2>4
    <3> QED BY <3>1, <3>2, <3>3
  <2>8. OthersKeep(Planner) /\ ~InLine(Planner)' /\ hands'[Planner] = Nobody
    <3> HIDE DEF InLine
    <3>1. ASSUME NEW q \in Procs \ {Planner}
          PROVE  /\ InLine(q)' => InLine(q)
                 /\ hands[q] # Nobody => hands'[q] # Nobody
                 /\ InLine(q) => InLine(q)' \/ hands'[q] # Nobody
                 /\ hands'[q] # Nobody => hands[q] # Nobody \/ InLine(q)
      <4>1. CASE q = n
        BY <1>1, <2>2, <2>3, <2>4, <4>1
      <4>2. CASE q # n
        BY <2>2, <2>4, <4>2
      <4> QED BY <4>1, <4>2
    <3> QED BY <1>1, <2>2, <2>3, <2>4, <3>1
  <2> QED BY <2>5, <2>6, <2>7, <2>8
<1> QED BY <1>3, <1>4

\* The planner sends whoever it was handed off the floor.
LEMMA TakeOffKeeps ==
  ASSUME PoolOK, hands[Planner] # Nobody, off' = off \cup {hands[Planner]},
         hands' = [hands EXCEPT ![Planner] = Nobody], UNCHANGED <<crew, crewQ>>
  PROVE  PoolOK' /\ OthersKeep(Planner) /\ hands'[Planner] = Nobody /\ ~InLine(Planner)'
<1> DEFINE b == hands[Planner]
<1>1. Planner \in Procs
  BY DEF Procs
<1>2. b \in Baristas /\ ~InLine(Planner) /\ b \notin crew /\ b # Nobody
  BY <1>1, HandsAreReal, CafeAssumption
<1> USE DEF PoolOK, PoolTypes, OnePlaceEach, LineOK, OthersKeep, InLine
<1>3. \A q \in Procs : hands[q] = b => q = Planner
  BY <1>1, <1>2
<1>4. hands'[Planner] = Nobody /\ \A q \in Procs \ {Planner} : hands'[q] = hands[q]
  BY <1>1
<1>5. off' = off \cup {b}
  OBVIOUS
<1> HIDE DEF b
<1>6. PoolTypes'
  BY <1>2, <1>5
<1>7. LineOK'
  BY <1>4
<1>8. OnePlaceEach'
  <2>1. ASSUME NEW c \in Baristas
        PROVE  c \in crew' \/ c \in off' \/ \E q \in Procs : hands'[q] = c
    BY <1>4, <1>5 DEF b
  <2>2. crew' \cap off' = {} /\ \A q \in Procs : hands'[q] \notin crew' \cup off'
    BY <1>2, <1>3, <1>4, <1>5, CafeAssumption
  <2>3. \A q, r \in Procs : hands'[q] = hands'[r] /\ hands'[q] # Nobody => q = r
    BY <1>4
  <2> QED BY <2>1, <2>2, <2>3
<1> QED BY <1>1, <1>2, <1>4, <1>6, <1>7, <1>8
-----------------------------------------------------------------------------
(* Who may wait for a barista, and who has one. *)

\* What a process is doing with respect to the crew.
OrderRole(where) ==
  CASE where \in {"line", "bench", "regain"}           -> "waits"
    [] where \in {"till", "make", "station", "pour"}   -> "works"
    [] where = "gone"                                  -> "gone"
    [] OTHER                                           -> "free"

ServerRole(s) ==
  CASE server[s] = "called"                    -> "waits"
    [] server[s] = "running" /\ s \in Attended -> "works"
    [] OTHER                                   -> "free"

Role(p) == IF p \in Orders THEN OrderRole(at[p])
           ELSE IF p \in Grouping THEN ServerRole(p)
           ELSE IF turn = Planner THEN "free" ELSE "waits"

\* Only who waits is in line, only who waits or works has a barista, and nobody
\* works without one.  A barista handed over at the instant patience ends is the
\* one exception.
RoleOK(p) ==
  /\ InLine(p) => Role(p) = "waits"
  /\ hands[p] # Nobody => Role(p) \in {"waits", "works"} \/ (Ties /\ Role(p) = "gone")
  /\ Role(p) = "works" => hands[p] # Nobody

RoleInv ==
  /\ server \in [Grouping -> {"idle", "called", "running"}]
  /\ turn \in Orders \cup {Planner, Nobody}
  /\ \A p \in Procs : RoleOK(p)

CrewInv == PoolOK /\ RoleInv

\* A process whose part of the pool is left alone keeps its role.
LEMMA RolesKept ==
  ASSUME NEW p, OthersKeep(p), NEW q \in Procs \ {p}, RoleOK(q), Role(q)' = Role(q)
  PROVE  RoleOK(q)'
BY DEF OthersKeep, RoleOK

\* A step that does not touch the pool disturbs nobody.
LEMMA PoolUntouched ==
  ASSUME PoolOK, UNCHANGED <<crew, crewQ, hands, off>>
  PROVE  PoolOK' /\ \A p \in Procs : OthersKeep(p) /\ hands'[p] = hands[p] /\ (InLine(p)' <=> InLine(p))
BY DEF PoolOK, PoolTypes, OnePlaceEach, LineOK, OthersKeep, InLine

\* What a customer's step does to the crew.
LEMMA OrderAndCrew ==
  ASSUME StageInv, CrewInv, NEW o \in Orders, OrderNext(o)
  PROVE  /\ PoolOK' /\ OthersKeep(o) /\ RoleOK(o)'
         /\ UNCHANGED <<server, off, block, seen>>
         /\ turn \in Orders \cup {Nobody} /\ turn' \in Orders \cup {Nobody}
         /\ at' = [at EXCEPT ![o] = at'[o]]
<1> USE DEF CrewInv, IsAt
<1>1. o \in Procs /\ RoleOK(o) /\ PoolOK /\ Role(o) = OrderRole(at[o])
  BY DEF Procs, RoleInv, Role
<1>2. at \in [Orders -> AtCounter] /\ Role(o)' = OrderRole(at'[o])
  BY DEF StageInv, Role
<1>3. /\ UNCHANGED <<server, off, block, seen>>
      /\ turn \in Orders \cup {Nobody} /\ turn' \in Orders \cup {Nobody}
      /\ at' = [at EXCEPT ![o] = at'[o]]
  BY <1>2 DEF OrderNext, ComeLater, PlaceOrder, Balk, GoAhead, JoinLine, GiveUp, StepUp, RingUp,
         Begin, ToStation, ToPour, ToMachines, Comes, LeaveStation, Pour, MachinesDone, Regain, GoesOn,
         Finish, HandOver, plan, machines
<1>4. ASSUME PoolOK', OthersKeep(o),
             IF hands'[o] # Nobody THEN ~InLine(o)' ELSE InLine(o)', OrderRole(at'[o]) = "waits"
      PROVE  PoolOK' /\ OthersKeep(o) /\ RoleOK(o)'
  BY <1>2, <1>4 DEF RoleOK
<1>5. ASSUME PoolOK', OthersKeep(o), hands'[o] = Nobody, ~InLine(o)', OrderRole(at'[o]) # "works"
      PROVE  PoolOK' /\ OthersKeep(o) /\ RoleOK(o)'
  BY <1>2, <1>5 DEF RoleOK
<1>6. ASSUME Role(o) \notin {"waits", "works", "gone"} PROVE hands[o] = Nobody /\ ~InLine(o)
  BY <1>1, <1>6 DEF RoleOK
<1>7. ASSUME Role(o) = "works" PROVE hands[o] # Nobody /\ ~InLine(o)
  BY <1>1, <1>7, HandsAreReal DEF RoleOK
<1>8. ASSUME UNCHANGED pool,
             OrderRole(at'[o]) = Role(o)
               \/ (hands[o] = Nobody /\ ~InLine(o) /\ OrderRole(at'[o]) # "works")
               \/ (hands[o] # Nobody /\ OrderRole(at'[o]) = "works")
      PROVE  PoolOK' /\ OthersKeep(o) /\ RoleOK(o)'
  <2>1. PoolOK' /\ OthersKeep(o) /\ hands'[o] = hands[o] /\ (InLine(o)' <=> InLine(o))
    BY <1>1, <1>3, <1>8, PoolUntouched DEF pool
  <2>2. hands[o] # Nobody => ~InLine(o)
    BY <1>1, HandsAreReal
  <2> QED BY <1>1, <1>2, <1>8, <2>1, <2>2 DEF RoleOK
<1>9. CASE ComeLater(o) \/ PlaceOrder(o) \/ Balk(o)
  <2>1. UNCHANGED pool /\ at[o] \in {"away", "later", "new"} /\ at'[o] \in {"later", "new", "gone"}
    BY <1>2, <1>9 DEF ComeLater, PlaceOrder, Balk
  <2> QED BY <1>1, <1>3, <1>6, <1>8, <2>1 DEF OrderRole
<1>10. CASE GoAhead(o) \/ JoinLine(o)
  <2>1. Get(o) /\ at[o] = "new" /\ at'[o] \in {"line", "bench"}
    BY <1>2, <1>10 DEF GoAhead, JoinLine
  <2>2. hands[o] = Nobody /\ ~InLine(o)
    BY <1>1, <1>6, <2>1 DEF OrderRole
  <2> QED BY <1>1, <1>3, <1>4, <2>1, <2>2, GetKeeps DEF OrderRole
<1>11. CASE GiveUp(o)
  <2>1. Cancel(o) /\ at[o] = "line" /\ at'[o] = "gone" /\ (hands[o] # Nobody => Ties)
    BY <1>2, <1>11 DEF GiveUp
  <2>2. PoolOK' /\ OthersKeep(o) /\ hands' = hands /\ ~InLine(o)'
    BY <1>1, <1>3, <2>1, CancelKeeps
  <2> QED BY <1>2, <1>3, <2>1, <2>2 DEF RoleOK, OrderRole
<1>12. CASE StepUp(o) \/ Begin(o) \/ Regain(o)
  <2>1. UNCHANGED pool /\ hands[o] # Nobody /\ at'[o] \in {"till", "make"}
    BY <1>2, <1>12 DEF StepUp, Begin, Regain, GoesOn
  <2> QED BY <1>3, <1>8, <2>1 DEF OrderRole
<1>13. CASE RingUp(o)
  <2>1. HandBackAndGet(o) /\ at[o] = "till" /\ at'[o] = "bench"
    BY <1>2, <1>13 DEF RingUp
  <2>2. hands[o] # Nobody
    BY <1>1, <1>7, <2>1 DEF OrderRole
  <2> QED BY <1>1, <1>3, <1>4, <2>1, <2>2, HandBackAndGetKeeps DEF OrderRole
<1>14. CASE ToStation(o) \/ ToPour(o) \/ LeaveStation(o) \/ Pour(o)
  <2>1. /\ UNCHANGED pool /\ at[o] \in {"make", "station", "pour"}
        /\ at'[o] \in {"make", "station", "pour"}
    BY <1>2, <1>14 DEF ToStation, ToPour, LeaveStation, Pour, Comes, GoesOn
  <2> QED BY <1>1, <1>3, <1>8, <2>1 DEF OrderRole
<1>15. CASE ToMachines(o) \/ Finish(o)
  <2>1. HandBack(o) /\ at[o] = "make" /\ at'[o] \in {"machines", "shelf"}
    BY <1>2, <1>15 DEF ToMachines, Finish, Comes
  <2>2. hands[o] # Nobody
    BY <1>1, <1>7, <2>1 DEF OrderRole
  <2> QED BY <1>1, <1>3, <1>5, <2>1, <2>2, HandBackKeeps DEF OrderRole
<1>16. CASE MachinesDone(o)
  <2>1. Get(o) /\ at[o] = "machines" /\ at'[o] = "regain"
    BY <1>2, <1>16 DEF MachinesDone
  <2>2. hands[o] = Nobody /\ ~InLine(o)
    BY <1>1, <1>6, <2>1 DEF OrderRole
  <2> QED BY <1>1, <1>3, <1>4, <2>1, <2>2, GetKeeps DEF OrderRole
<1>17. CASE HandOver(o)
  <2>1. UNCHANGED pool /\ at[o] = "shelf" /\ at'[o] = "gone"
    BY <1>2, <1>17 DEF HandOver
  <2> QED BY <1>1, <1>3, <1>6, <1>8, <2>1 DEF OrderRole
<1> QED BY <1>3, <1>9, <1>10, <1>11, <1>12, <1>13, <1>14, <1>15, <1>16, <1>17 DEF OrderNext

\* What a grouping station's server does to the crew.
LEMMA ServerAndCrew ==
  ASSUME CrewInv, NEW s \in Grouping, ServerNext(s)
  PROVE  /\ PoolOK' /\ OthersKeep(s) /\ RoleOK(s)'
         /\ UNCHANGED <<at, off, block, seen, turn>> /\ turn = Nobody
         /\ server' = [server EXCEPT ![s] = server'[s]]
         /\ server'[s] \in {"idle", "called", "running"}
<1> USE DEF CrewInv
<1>1. s \in Procs /\ s \notin Orders /\ RoleOK(s) /\ PoolOK /\ Role(s) = ServerRole(s)
  BY CafeAssumption DEF Procs, RoleInv, Role
<1>2. server \in [Grouping -> {"idle", "called", "running"}] /\ Role(s)' = ServerRole(s)'
  BY CafeAssumption DEF RoleInv, Role
<1>3. /\ UNCHANGED <<at, off, block, seen, turn>> /\ turn = Nobody
      /\ server' = [server EXCEPT ![s] = server'[s]]
      /\ server'[s] \in {"idle", "called", "running"}
  BY <1>2 DEF ServerNext, CallBarista, StartBatch, EndBatch, customer, plan
<1>4. CASE CallBarista(s)
  <2>1. Get(s) /\ server[s] = "idle" /\ server'[s] = "called"
    BY <1>2, <1>4 DEF CallBarista
  <2>2. hands[s] = Nobody /\ ~InLine(s)
    BY <1>1, <2>1 DEF RoleOK, ServerRole
  <2> QED BY <1>1, <1>2, <1>3, <2>1, <2>2, GetKeeps DEF RoleOK, ServerRole
<1>5. CASE StartBatch(s)
  <2>1. /\ UNCHANGED pool /\ server'[s] = "running"
        /\ IF s \in Attended THEN server[s] = "called" /\ hands[s] # Nobody ELSE server[s] = "idle"
    BY <1>2, <1>5 DEF StartBatch
  <2>2. PoolOK' /\ OthersKeep(s) /\ hands'[s] = hands[s] /\ (InLine(s)' <=> InLine(s))
    BY <1>1, <1>3, <2>1, PoolUntouched DEF pool
  <2>3. hands[s] # Nobody => ~InLine(s)
    BY <1>1, HandsAreReal
  <2> QED BY <1>1, <1>2, <1>3, <2>1, <2>2, <2>3 DEF RoleOK, ServerRole
<1>6. CASE EndBatch(s)
  <2>1. CASE s \notin Attended
    <3>1. UNCHANGED pool /\ server[s] = "running" /\ server'[s] = "idle"
      BY <1>2, <1>6, <2>1 DEF EndBatch
    <3>2. PoolOK' /\ OthersKeep(s) /\ hands'[s] = hands[s] /\ (InLine(s)' <=> InLine(s))
      BY <1>1, <1>3, <3>1, PoolUntouched DEF pool
    <3> QED BY <1>1, <1>2, <1>3, <2>1, <3>1, <3>2 DEF RoleOK, ServerRole
  <2>2. CASE s \in Attended /\ pending[s] = {}
    <3>1. HandBack(s) /\ server[s] = "running" /\ server'[s] = "idle"
      BY <1>2, <1>6, <2>2 DEF EndBatch
    <3>2. hands[s] # Nobody
      BY <1>1, <2>2, <3>1 DEF RoleOK, ServerRole
    <3> QED BY <1>1, <1>2, <1>3, <3>1, <3>2, HandBackKeeps DEF RoleOK, ServerRole
  <2>3. CASE s \in Attended /\ pending[s] # {}
    <3>1. HandBackAndGet(s) /\ server[s] = "running" /\ server'[s] = "called"
      BY <1>2, <1>6, <2>3 DEF EndBatch
    <3>2. hands[s] # Nobody
      BY <1>1, <2>3, <3>1 DEF RoleOK, ServerRole
    <3> QED BY <1>1, <1>2, <1>3, <3>1, <3>2, HandBackAndGetKeeps DEF RoleOK, ServerRole
  <2> QED BY <2>1, <2>2, <2>3
<1> QED BY <1>3, <1>4, <1>5, <1>6 DEF ServerNext

\* What the staffing process does to the crew.
LEMMA PlannerAndCrew ==
  ASSUME CrewInv, PlannerNext
  PROVE  /\ PoolOK' /\ OthersKeep(Planner) /\ RoleOK(Planner)'
         /\ UNCHANGED <<at, server>> /\ turn' \in {Planner, Nobody}
<1> USE DEF CrewInv
<1>1. Planner \in Procs /\ RoleOK(Planner) /\ PoolOK
  BY DEF Procs, RoleInv
<1>2. /\ Role(Planner) = IF turn = Planner THEN "free" ELSE "waits"
      /\ Role(Planner)' = IF turn' = Planner THEN "free" ELSE "waits"
      /\ Planner # Nobody
  BY CafeAssumption DEF Role, Procs
<1>3. UNCHANGED <<at, server>> /\ turn' \in {Planner, Nobody}
  BY DEF PlannerNext, BlockStarts, NextBlock, SendBack, CallOff, TakeOff, Staffed, customer, machines
<1>4. PlannerWaits <=> InLine(Planner) \/ hands[Planner] # Nobody
  BY DEF PlannerWaits, InLine
<1>5. turn = Planner => ~InLine(Planner) /\ hands[Planner] = Nobody
  BY <1>1, <1>2 DEF RoleOK
<1>6. CASE BlockStarts \/ NextBlock \/ Staffed
  <2>1. /\ UNCHANGED pool /\ off' = off
        /\ (turn' = Nobody \/ (~InLine(Planner) /\ hands[Planner] = Nobody))
    BY <1>4, <1>6 DEF BlockStarts, NextBlock, Staffed, plan
  <2>2. /\ PoolOK' /\ OthersKeep(Planner) /\ hands'[Planner] = hands[Planner]
        /\ (InLine(Planner)' <=> InLine(Planner))
    BY <1>1, <2>1, PoolUntouched DEF pool
  <2> QED BY <1>2, <1>3, <2>1, <2>2 DEF RoleOK
<1>7. CASE SendBack
  <2>1. PICK b \in off : off' = off \ {b} /\ Put(b, hands)
    BY <1>7 DEF SendBack
  <2>2. PoolOK' /\ OthersKeep(Planner) /\ hands'[Planner] = Nobody /\ ~InLine(Planner)'
    BY <1>1, <1>5, <1>7, <2>1, SendBackKeeps DEF SendBack
  <2> QED BY <1>2, <1>3, <2>2 DEF RoleOK
<1>8. CASE CallOff
  <2>1. /\ PoolOK' /\ OthersKeep(Planner)
        /\ IF hands'[Planner] # Nobody THEN ~InLine(Planner)' ELSE InLine(Planner)'
    BY <1>1, <1>5, <1>8, GetKeeps DEF CallOff, plan
  <2> QED BY <1>2, <1>3, <1>8, <2>1 DEF RoleOK, CallOff
<1>9. CASE TakeOff
  <2>1. PoolOK' /\ OthersKeep(Planner) /\ hands'[Planner] = Nobody /\ ~InLine(Planner)'
    BY <1>1, <1>9, TakeOffKeeps DEF TakeOff
  <2> QED BY <1>2, <1>3, <2>1 DEF RoleOK
<1> QED BY <1>3, <1>6, <1>7, <1>8, <1>9 DEF PlannerNext

\* Every step leaves the crew where it can be found.
LEMMA CrewStep == StageInv /\ CrewInv /\ [Next]_vars => CrewInv'
<1> SUFFICES ASSUME StageInv, CrewInv, [Next]_vars PROVE CrewInv'
  OBVIOUS
<1> USE DEF CrewInv
<1>0. Planner \notin Orders /\ Planner \notin Grouping /\ Planner # Nobody
  BY CafeAssumption DEF Procs
<1>1. ASSUME NEW o \in Orders, OrderNext(o) PROVE CrewInv'
  <2>1. /\ PoolOK' /\ OthersKeep(o) /\ RoleOK(o)' /\ server' = server
        /\ turn \in Orders \cup {Nobody} /\ turn' \in Orders \cup {Nobody}
        /\ at' = [at EXCEPT ![o] = at'[o]]
    BY <1>1, OrderAndCrew
  <2>2. ASSUME NEW q \in Procs \ {o} PROVE RoleOK(q)'
    <3>1. Role(q)' = Role(q)
      BY <1>0, <2>1 DEF Role, OrderRole, ServerRole, StageInv
    <3> QED BY <2>1, <3>1, RolesKept DEF RoleInv
  <2> QED BY <2>1, <2>2 DEF RoleInv
<1>2. ASSUME NEW s \in Stations, EndCycle(s) PROVE CrewInv'
  <2>1. UNCHANGED <<crew, crewQ, hands, off, at, server, turn>>
    BY <1>2 DEF EndCycle, customer, pool, plan
  <2>2. PoolOK' /\ \A p \in Procs : hands'[p] = hands[p] /\ (InLine(p)' <=> InLine(p))
    BY <2>1, PoolUntouched
  <2>3. ASSUME NEW p \in Procs PROVE Role(p)' = Role(p)
    BY <2>1 DEF Role, OrderRole, ServerRole
  <2> QED BY <2>1, <2>2, <2>3 DEF RoleInv, RoleOK
<1>3. ASSUME NEW s \in Grouping, ServerNext(s) PROVE CrewInv'
  <2>1. /\ PoolOK' /\ OthersKeep(s) /\ RoleOK(s)' /\ UNCHANGED <<at, turn>>
        /\ server' = [server EXCEPT ![s] = server'[s]]
        /\ server'[s] \in {"idle", "called", "running"}
    BY <1>3, ServerAndCrew
  <2>2. ASSUME NEW q \in Procs \ {s} PROVE RoleOK(q)'
    <3>1. Role(q)' = Role(q)
      BY <2>1 DEF Role, OrderRole, ServerRole, RoleInv
    <3> QED BY <2>1, <3>1, RolesKept DEF RoleInv
  <2> QED BY <2>1, <2>2 DEF RoleInv
<1>4. ASSUME PlannerNext PROVE CrewInv'
  <2>1. /\ PoolOK' /\ OthersKeep(Planner) /\ RoleOK(Planner)'
        /\ UNCHANGED <<at, server>> /\ turn' \in {Planner, Nobody}
    BY <1>4, PlannerAndCrew
  <2>2. ASSUME NEW q \in Procs \ {Planner} PROVE RoleOK(q)'
    <3>1. Role(q)' = Role(q)
      BY <2>1 DEF Role, OrderRole, ServerRole, Procs
    <3> QED BY <2>1, <3>1, RolesKept DEF RoleInv
  <2> QED BY <2>1, <2>2 DEF RoleInv
<1>5. ASSUME UNCHANGED vars PROVE CrewInv'
  <2>1. UNCHANGED <<crew, crewQ, hands, off, at, server, turn>>
    BY <1>5 DEF vars
  <2>2. PoolOK' /\ \A p \in Procs : hands'[p] = hands[p] /\ (InLine(p)' <=> InLine(p))
    BY <2>1, PoolUntouched
  <2>3. ASSUME NEW p \in Procs PROVE Role(p)' = Role(p)
    BY <2>1 DEF Role, OrderRole, ServerRole
  <2> QED BY <2>1, <2>2, <2>3 DEF RoleInv, RoleOK
<1> QED BY <1>1, <1>2, <1>3, <1>4, <1>5 DEF Next

\* The pool is in order from the first to the last step of the day.
THEOREM CrewIsInOrder == Spec => [](StageInv /\ CrewInv)
<1>1. Init => StageInv /\ CrewInv
  <2> SUFFICES ASSUME Init PROVE StageInv /\ CrewInv
    OBVIOUS
  <2>1. StageInv
    BY DEF Init, StageInv, StagesAt, AtCounter
  <2>2. PoolOK /\ \A p \in Procs : ~InLine(p) /\ hands[p] = Nobody
    BY CafeAssumption DEF Init, PoolOK, PoolTypes, OnePlaceEach, LineOK, InLine
  <2>3. \A p \in Procs : Role(p) # "works"
    BY DEF Init, Role, OrderRole, ServerRole
  <2>4. RoleInv
    BY <2>2, <2>3 DEF Init, RoleInv, RoleOK
  <2> QED BY <2>1, <2>2, <2>4 DEF CrewInv
<1>2. StageInv /\ CrewInv /\ [Next]_vars => (StageInv /\ CrewInv)'
  BY StageStep, CrewStep
<1> QED BY <1>1, <1>2, PTL DEF Spec

\* No barista is lost or in two places, unless one is handed over at the very
\* instant patience ends.
THEOREM CrewIsConserved ==
  ASSUME ~Ties
  PROVE  Spec => []CrewConserved
<1>1. CrewInv => CrewConserved
  <2> SUFFICES ASSUME CrewInv PROVE CrewConserved
    OBVIOUS
  <2>1. ASSUME NEW p \in Procs, NEW b \in Baristas, hands[p] = b PROVE InHand(p, b)
    <3>1. hands[p] # Nobody /\ RoleOK(p)
      BY <2>1, CafeAssumption DEF CrewInv, RoleInv
    <3> QED BY <2>1, <3>1 DEF RoleOK, Role, OrderRole, InHand
  <2> QED BY <2>1 DEF CrewInv, PoolOK, OnePlaceEach, CrewConserved
<1> QED BY <1>1, CrewIsInOrder, PTL
-----------------------------------------------------------------------------
(* The floor and the plan *)

BlockTypes == block \in DOMAIN Staffing /\ seen \in 0..block

\* The planner never runs ahead of the clock, nor the clock of the plan.
LEMMA BlocksStep == BlockTypes /\ [Next]_vars => BlockTypes'
<1> SUFFICES ASSUME BlockTypes, [Next]_vars PROVE BlockTypes'
  OBVIOUS
<1>1. block \in 1..Len(Staffing) /\ Len(Staffing) \in Nat /\ DOMAIN Staffing = 1..Len(Staffing)
  BY CafeAssumption DEF BlockTypes
<1> USE DEF BlockTypes
<1>2. CASE BlockStarts
  BY <1>1, <1>2 DEF BlockStarts
<1>3. CASE NextBlock
  BY <1>1, <1>3 DEF NextBlock
<1>4. CASE UNCHANGED <<block, seen>>
  BY <1>4
<1>5. ASSUME Next, ~BlockStarts, ~NextBlock PROVE UNCHANGED <<block, seen>>
  <2>1. ASSUME NEW o \in Orders, OrderNext(o) PROVE UNCHANGED <<block, seen>>
    BY <2>1 DEF OrderNext, ComeLater, PlaceOrder, Balk, GoAhead, JoinLine, GiveUp, StepUp, RingUp,
         Begin, ToStation, ToPour, ToMachines, LeaveStation, Pour, MachinesDone, Regain,
         Finish, HandOver, plan
  <2>2. ASSUME NEW s \in Stations, EndCycle(s) PROVE UNCHANGED <<block, seen>>
    BY <2>2 DEF EndCycle, plan
  <2>3. ASSUME NEW s \in Grouping, ServerNext(s) PROVE UNCHANGED <<block, seen>>
    BY <2>3 DEF ServerNext, CallBarista, StartBatch, EndBatch, plan
  <2> QED BY <1>5, <2>1, <2>2, <2>3 DEF Next, PlannerNext, SendBack, CallOff, TakeOff, Staffed, plan
<1> QED BY <1>2, <1>3, <1>4, <1>5 DEF vars

\* A step of anybody else leaves the planner where it is.
LEMMA FloorUntouched ==
  ASSUME NEW p \in Procs \ {Planner}, OthersKeep(p), UNCHANGED <<off, seen>>,
         turn # Planner, FloorFollowsPlan
  PROVE  FloorFollowsPlan'
<1>1. Planner \in Procs \ {p}
  BY DEF Procs
<1>2. PlannerWaits => PlannerWaits'
  BY <1>1 DEF OthersKeep, PlannerWaits, InLine
<1> QED BY <1>2 DEF FloorFollowsPlan, Spare

\* The floor is never short of the plan the planner has got to, and meets it
\* whenever the planner is not waiting for somebody to come free.
THEOREM FloorIsStaffed == Spec => []FloorFollowsPlan
<1>1. Init => BlockTypes /\ FloorFollowsPlan
  <2> SUFFICES ASSUME Init PROVE BlockTypes /\ FloorFollowsPlan
    OBVIOUS
  <2>1. Staffing \in Seq(Nat) /\ Staffing # <<>>
    BY CafeAssumption
  <2>2. 1 \in DOMAIN Staffing
    BY <2>1
  <2> QED BY <2>2 DEF Init, BlockTypes, FloorFollowsPlan
<1>2. StageInv /\ CrewInv /\ BlockTypes /\ FloorFollowsPlan /\ [Next]_vars => FloorFollowsPlan'
  <2> SUFFICES ASSUME StageInv, CrewInv, BlockTypes, FloorFollowsPlan, [Next]_vars
               PROVE  FloorFollowsPlan'
    OBVIOUS
  <2>0. Planner \notin Orders /\ Planner \notin Grouping /\ Planner # Nobody /\ Planner \in Procs
    BY CafeAssumption DEF Procs
  <2>1. ASSUME NEW o \in Orders, OrderNext(o) PROVE FloorFollowsPlan'
    <3>1. OthersKeep(o) /\ UNCHANGED <<off, seen>> /\ turn # Planner /\ o \in Procs \ {Planner}
      BY <2>0, <2>1, OrderAndCrew DEF Procs
    <3> QED BY <3>1, FloorUntouched
  <2>2. ASSUME UNCHANGED <<hands, crewQ, off, seen, turn>> PROVE FloorFollowsPlan'
    BY <2>2 DEF FloorFollowsPlan, PlannerWaits, Spare
  <2>3. ASSUME NEW s \in Stations, EndCycle(s) PROVE FloorFollowsPlan'
    BY <2>2, <2>3 DEF EndCycle, pool, plan
  <2>4. ASSUME NEW s \in Grouping, ServerNext(s) PROVE FloorFollowsPlan'
    <3>1. OthersKeep(s) /\ UNCHANGED <<off, seen>> /\ turn # Planner /\ s \in Procs \ {Planner}
      BY <2>0, <2>4, ServerAndCrew DEF Procs
    <3> QED BY <3>1, FloorUntouched
  <2>5. ASSUME PlannerNext PROVE FloorFollowsPlan'
    <3>1. Cardinality(off) \in Nat /\ Cardinality(Baristas) \in Nat
      BY CafeAssumption, FS_Subset, FS_CardinalityType DEF CrewInv, PoolOK, PoolTypes
    <3>2. seen > 0 => Spare(seen) \in Int
      <4>1. Staffing \in Seq(Nat) /\ DOMAIN Staffing = 1..Len(Staffing) /\ Len(Staffing) \in Nat
        BY CafeAssumption
      <4>2. seen > 0 => seen \in DOMAIN Staffing
        BY <4>1 DEF BlockTypes
      <4> QED BY <3>1, <4>1, <4>2 DEF Spare
    <3>3. CASE BlockStarts
      BY <2>2, <3>3 DEF BlockStarts, pool
    <3>4. CASE NextBlock \/ SendBack \/ TakeOff
      BY <3>4 DEF NextBlock, SendBack, TakeOff, FloorFollowsPlan
    <3>5. CASE CallOff
      <4>1. InLine(Planner)' \/ hands'[Planner] # Nobody
        <5>1. PoolOK /\ hands[Planner] = Nobody /\ ~InLine(Planner)
          BY <2>0, <3>5 DEF CallOff, CrewInv, RoleInv, RoleOK, Role
        <5> QED BY <2>0, <3>5, <5>1, GetKeeps DEF CallOff, plan
      <4>2. PlannerWaits'
        BY <4>1 DEF PlannerWaits, InLine
      <4> QED BY <3>1, <3>2, <3>5, <4>2 DEF CallOff, FloorFollowsPlan, Spare, plan
    <3>6. CASE Staffed
      BY <3>1, <3>2, <3>6 DEF Staffed, FloorFollowsPlan, Spare, plan
    <3> QED BY <2>5, <3>3, <3>4, <3>5, <3>6 DEF PlannerNext
  <2>6. ASSUME UNCHANGED vars PROVE FloorFollowsPlan'
    BY <2>2, <2>6 DEF vars
  <2> QED BY <2>1, <2>3, <2>4, <2>5, <2>6 DEF Next
<1> QED BY <1>1, <1>2, BlocksStep, CrewIsInOrder, PTL DEF Spec
=============================================================================
