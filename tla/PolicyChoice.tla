---------------------------- MODULE PolicyChoice ----------------------------
(***************************************************************************)
(* Which scheduler a cafe should run: decide of sim/select.py, over what     *)
(* run_arm of sim/experiments.py measured of each.                           *)
(***************************************************************************)
EXTENDS Integers, Sequences, FiniteSets

\* POLICIES, simplest first.
Simplest == <<"fifo", "batch_milk", "bounded_reorder">>
Rank(policy) == CHOOSE i \in DOMAIN Simplest : Simplest[i] = policy

\* A showing is the mean and the half width of a policy's interval; a candidate may
\* be left out of a comparison.
CONSTANT Showings   \* what the days measured may have shown, of each candidate
ASSUME ShowingAssumption ==
  \A shown \in Showings : \A p \in DOMAIN shown :
    p \in {Simplest[i] : i \in DOMAIN Simplest} /\ shown[p].value \in Int /\ shown[p].half \in Nat

Low(showing)  == showing.value - showing.half
High(showing) == showing.value + showing.half

ToldApart(a, b) == Low(a) > High(b) \/ High(a) < Low(b)

\* Clears the interval of the other, in the direction of the objective.
Clears(a, b, bigger) == IF bigger THEN Low(a) > High(b) ELSE High(a) < Low(b)

\* The first of the best means; showings are tried in the order of POLICIES.
Leader(shown, bigger) ==
  LET better(p, q) == IF bigger THEN shown[p].value > shown[q].value
                                ELSE shown[p].value < shown[q].value
      best == {p \in DOMAIN shown : \A q \in DOMAIN shown : ~better(q, p)}
  IN CHOOSE p \in best : \A q \in best : Rank(p) <= Rank(q)

\* A tie goes to the simpler policy: the simplest not told apart from the leader.
Pick(shown, bigger) ==
  LET tied == {p \in DOMAIN shown : ~ToldApart(shown[p], shown[Leader(shown, bigger)])}
  IN CHOOSE p \in tied : \A q \in tied : Rank(p) <= Rank(q)

\* Slip: the means are compared and not the intervals.
DecideOnMeans(shown, incumbent, bigger) ==
  LET lead == Leader(shown, bigger)
  IN IF shown[lead].value # shown[incumbent].value THEN lead ELSE incumbent

\* decide: the policy to run from now on.
Decide(shown, incumbent, bigger) ==
  LET lead == Pick(shown, bigger)
  IN IF lead # incumbent /\ Clears(shown[lead], shown[incumbent], bigger)
     THEN lead ELSE incumbent

---------------------------------------------------------------------------
(* Properties.                                                               *)

\* A switch is never acted out on noise and never for the worse, never goes to a
\* scheduler that is harder to explain for a difference the evidence cannot see,
\* and is never told apart from the best.
SwitchesAreReal(showings, incumbent, bigger) ==
  \A shown \in {s \in showings : incumbent \in DOMAIN s} :
    LET to == Decide(shown, incumbent, bigger)
        best == shown[Leader(shown, bigger)]
    IN to # incumbent =>
         /\ to \in DOMAIN shown /\ ToldApart(shown[to], shown[incumbent])
         /\ IF bigger THEN shown[to].value > shown[incumbent].value
                      ELSE shown[to].value < shown[incumbent].value
         /\ ~ToldApart(shown[to], best)
         /\ \A p \in DOMAIN shown : Rank(p) < Rank(to) => ToldApart(shown[p], best)
=============================================================================
