-------------------------- MODULE SimStationProofs --------------------------
(***************************************************************************)
(* What is proved of the stations of SimCafe for any day: who holds a slot    *)
(* or stands in line for one, and when an item's machines are done.          *)
(***************************************************************************)
EXTENDS SimCafeProofs, Folding

-----------------------------------------------------------------------------
(* The plan of make() *)

\* The three parts of Steps, item by item.
ByHand(o) ==
  [i \in DOMAIN Basket[o] |->
     [k \in DOMAIN Basket[o][i].hand |->
        [do |-> "station", item |-> i, station |-> Basket[o][i].hand[k]]]]

Wait(o, i) == IF Basket[o][i].alone = {} THEN <<>> ELSE <<[do |-> "machines", item |-> i]>>

Assembly(o) ==
  [i \in DOMAIN Basket[o] |->
     IF Basket[o][i].pour THEN Append(Wait(o, i), [do |-> "pour", item |-> i]) ELSE <<>>]

LastMachines(o) ==
  [i \in DOMAIN Basket[o] |-> IF Basket[o][i].pour THEN <<>> ELSE Wait(o, i)]

OneStep == [do : {"station"}, item : Nat, station : Attended \ Grouping]
             \cup [do : {"pour", "machines"}, item : Nat]

\* A step of o's plan is one of its items'.
StepOf(o, e) ==
  /\ e.do \in {"station", "pour", "machines"} /\ e.item \in DOMAIN Basket[o]
  /\ (e.do = "station" => e.station \in Attended \ Grouping)

MachinesOf(e, i) == e.do = "machines" /\ e.item = i

\* In a plan an item is assembled after its machines, and no machine is forgotten.
PlanOK(o, plan0) ==
  /\ \A k \in 1..Len(plan0) : StepOf(o, plan0[k])
  /\ \A k \in 1..Len(plan0) :
       plan0[k].do = "pour" /\ Basket[o][plan0[k].item].alone # {}
         => \E m \in 1..(k - 1) : MachinesOf(plan0[m], plan0[k].item)
  /\ \A i \in DOMAIN Basket[o] :
       Basket[o][i].alone # {} => \E k \in 1..Len(plan0) : MachinesOf(plan0[k], i)

\* The items of a basket use stations of the kinds they may.
LEMMA BasketFacts ==
  ASSUME NEW o \in Orders
  PROVE  /\ Basket[o] \in Seq(Item) /\ DOMAIN Basket[o] = 1..Len(Basket[o])
         /\ Len(Basket[o]) \in Nat
         /\ \A i \in DOMAIN Basket[o] :
              /\ i \in Nat \ {0} /\ Basket[o][i].hand \in Seq(Attended \ Grouping)
              /\ Basket[o][i].alone \in SUBSET (Grouping \cup (Stations \ Attended))
<1>1. Basket[o] \in Seq(Item)
  BY CafeAssumption
<1>2. \A i \in DOMAIN Basket[o] : Basket[o][i] \in Item /\ i \in Nat \ {0}
  BY <1>1
<1> QED BY <1>1, <1>2 DEF Item

\* The parts are sequences of steps.
LEMMA PartTypes ==
  ASSUME NEW o \in Orders
  PROVE  /\ ByHand(o) \in Seq(Seq(OneStep)) /\ Len(ByHand(o)) = Len(Basket[o])
         /\ Assembly(o) \in Seq(Seq(OneStep)) /\ Len(Assembly(o)) = Len(Basket[o])
         /\ LastMachines(o) \in Seq(Seq(OneStep)) /\ Len(LastMachines(o)) = Len(Basket[o])
<1> DEFINE n == Len(Basket[o])
<1>0. n \in Nat /\ DOMAIN Basket[o] = 1..n /\ 1..n \subseteq Nat
  BY BasketFacts
<1>1. ASSUME NEW i \in 1..n PROVE ByHand(o)[i] \in Seq(OneStep)
  <2> DEFINE h == Basket[o][i].hand
  <2>1. h \in Seq(Attended \ Grouping)
    BY <1>0, BasketFacts
  <2>2. ByHand(o)[i] = [k \in DOMAIN h |-> [do |-> "station", item |-> i, station |-> h[k]]]
    BY <1>0 DEF ByHand
  <2> HIDE DEF h
  <2>3. \A k \in 1..Len(h) : [do |-> "station", item |-> i, station |-> h[k]] \in OneStep
    BY <1>0, <2>1 DEF OneStep
  <2> QED BY <2>1, <2>2, <2>3
<1>2. ASSUME NEW i \in 1..n PROVE Wait(o, i) \in Seq(OneStep)
  <2>1. [do |-> "machines", item |-> i] \in OneStep
    BY <1>0 DEF OneStep
  <2> QED BY <2>1 DEF Wait
<1>3. ASSUME NEW i \in 1..n PROVE Assembly(o)[i] \in Seq(OneStep)
  <2>1. [do |-> "pour", item |-> i] \in OneStep
    BY <1>0 DEF OneStep
  <2> QED BY <1>0, <1>2, <2>1 DEF Assembly
<1>4. ASSUME NEW i \in 1..n PROVE LastMachines(o)[i] \in Seq(OneStep)
  BY <1>0, <1>2 DEF LastMachines
<1>5. /\ DOMAIN ByHand(o) = 1..n /\ DOMAIN Assembly(o) = 1..n /\ DOMAIN LastMachines(o) = 1..n
  BY <1>0 DEF ByHand, Assembly, LastMachines
<1>6. /\ ByHand(o) = [i \in 1..n |-> ByHand(o)[i]] /\ Assembly(o) = [i \in 1..n |-> Assembly(o)[i]]
      /\ LastMachines(o) = [i \in 1..n |-> LastMachines(o)[i]]
  BY <1>0 DEF ByHand, Assembly, LastMachines
<1>7. /\ \A i \in 1..n : ByHand(o)[i] \in Seq(OneStep) /\ Assembly(o)[i] \in Seq(OneStep)
      /\ \A i \in 1..n : LastMachines(o)[i] \in Seq(OneStep)
  BY <1>1, <1>3, <1>4
<1> HIDE DEF n
<1>8. ByHand(o) \in Seq(Seq(OneStep)) /\ Len(ByHand(o)) = n
  BY <1>0, <1>6, <1>7, SeqOnInterval
<1>9. Assembly(o) \in Seq(Seq(OneStep)) /\ Len(Assembly(o)) = n
  BY <1>0, <1>6, <1>7, SeqOnInterval
<1>10. LastMachines(o) \in Seq(Seq(OneStep)) /\ Len(LastMachines(o)) = n
  BY <1>0, <1>6, <1>7, SeqOnInterval
<1> QED BY <1>8, <1>9, <1>10 DEF n

\* Steps in one part stay steps in the plan, at their place.
LEMMA PlanParts ==
  ASSUME NEW A \in Seq(OneStep), NEW B \in Seq(OneStep), NEW C \in Seq(OneStep)
  PROVE  /\ A \o B \o C \in Seq(OneStep)
         /\ Len(A \o B \o C) = Len(A) + Len(B) + Len(C)
         /\ Len(A) \in Nat /\ Len(B) \in Nat /\ Len(C) \in Nat
         /\ \A k \in 1..Len(A) : (A \o B \o C)[k] = A[k]
         /\ \A k \in 1..Len(B) : (A \o B \o C)[Len(A) + k] = B[k]
         /\ \A k \in 1..Len(C) : (A \o B \o C)[Len(A) + Len(B) + k] = C[k]
OBVIOUS

\* What the parts hold.
LEMMA HandPart ==
  ASSUME NEW o \in Orders
  PROVE  /\ FlattenSeq(ByHand(o)) \in Seq(OneStep)
         /\ \A k \in 1..Len(FlattenSeq(ByHand(o))) :
              /\ FlattenSeq(ByHand(o))[k].do = "station"
              /\ StepOf(o, FlattenSeq(ByHand(o))[k])
<1> DEFINE F == FlattenSeq(ByHand(o))
           n == Len(Basket[o])
<1>1. F \in Seq(OneStep) /\ Joined(F, ByHand(o), n)
  BY PartTypes, FlattenJoins
<1>2. PICK before \in [1..n -> Nat] : Parts(F, ByHand(o), n, before)
  BY <1>1 DEF Joined
<1>3. ASSUME NEW k \in 1..Len(F) PROVE F[k].do = "station" /\ StepOf(o, F[k])
  <2>1. PICK i \in 1..n : k - before[i] \in 1..Len(ByHand(o)[i])
    BY <1>2 DEF Parts
  <2> DEFINE m == k - before[i]
             h == Basket[o][i].hand
  <2>2. F[k] = ByHand(o)[i][m]
    <3>1. F[before[i] + m] = ByHand(o)[i][m] /\ before[i] \in Nat
      BY <1>2, <2>1 DEF Parts
    <3>2. before[i] + m = k
      BY <1>1, <3>1
    <3> QED BY <3>1, <3>2
  <2>3. h \in Seq(Attended \ Grouping) /\ i \in DOMAIN Basket[o]
    BY BasketFacts
  <2>4. ByHand(o)[i] = [j \in DOMAIN h |-> [do |-> "station", item |-> i, station |-> h[j]]]
    BY <2>3 DEF ByHand
  <2> HIDE DEF h, m
  <2>5. m \in 1..Len(h)
    <3>1. DOMAIN ByHand(o)[i] = 1..Len(h)
      BY <2>3, <2>4
    <3>2. ByHand(o)[i] \in Seq(OneStep)
      BY PartTypes
    <3>3. DOMAIN ByHand(o)[i] = 1..Len(ByHand(o)[i])
      BY <3>2
    <3> QED BY <2>1, <3>1, <3>3 DEF m
  <2>6. F[k] = [do |-> "station", item |-> i, station |-> h[m]] /\ h[m] \in Attended \ Grouping
    BY <2>2, <2>3, <2>4, <2>5
  <2> HIDE DEF F
  <2> QED BY <2>3, <2>6 DEF StepOf
<1> QED BY <1>1, <1>3

\* Sequences of none, one and two.
LEMMA ShortSeqs ==
  ASSUME NEW a, NEW b
  PROVE  /\ Len(<<>>) = 0 /\ Len(<<a>>) = 1 /\ <<a>>[1] = a
         /\ Len(Append(<<>>, a)) = 1 /\ Append(<<>>, a)[1] = a
         /\ Len(Append(<<a>>, b)) = 2 /\ Append(<<a>>, b)[1] = a /\ Append(<<a>>, b)[2] = b
<1>1. <<>> \in Seq({a, b}) /\ <<a>> \in Seq({a, b})
  OBVIOUS
<1> QED BY <1>1

\* What an item adds to the end of the plan.
LEMMA AssemblyOf ==
  ASSUME NEW o \in Orders, NEW i \in DOMAIN Basket[o]
  PROVE  /\ ~Basket[o][i].pour => Len(Assembly(o)[i]) = 0
         /\ Basket[o][i].pour /\ Basket[o][i].alone = {}
              => Len(Assembly(o)[i]) = 1 /\ Assembly(o)[i][1] = [do |-> "pour", item |-> i]
         /\ Basket[o][i].pour /\ Basket[o][i].alone # {}
              => /\ Len(Assembly(o)[i]) = 2 /\ Assembly(o)[i][1] = [do |-> "machines", item |-> i]
                 /\ Assembly(o)[i][2] = [do |-> "pour", item |-> i]
         /\ Basket[o][i].pour \/ Basket[o][i].alone = {} => Len(LastMachines(o)[i]) = 0
         /\ ~Basket[o][i].pour /\ Basket[o][i].alone # {}
              => Len(LastMachines(o)[i]) = 1 /\ LastMachines(o)[i][1] = [do |-> "machines", item |-> i]
<1>1. ~Basket[o][i].pour => Assembly(o)[i] = <<>>
  BY DEF Assembly
<1>2. Basket[o][i].pour => Assembly(o)[i] = Append(Wait(o, i), [do |-> "pour", item |-> i])
  BY DEF Assembly
<1>3. Basket[o][i].pour => LastMachines(o)[i] = <<>>
  BY DEF LastMachines
<1>4. ~Basket[o][i].pour => LastMachines(o)[i] = Wait(o, i)
  BY DEF LastMachines
<1>5. Basket[o][i].alone = {} => Wait(o, i) = <<>>
  BY DEF Wait
<1>6. Basket[o][i].alone # {} => Wait(o, i) = <<[do |-> "machines", item |-> i]>>
  BY DEF Wait
<1> DEFINE M == [do |-> "machines", item |-> i]
           P == [do |-> "pour", item |-> i]
<1>7. CASE ~Basket[o][i].pour /\ Basket[o][i].alone = {}
  <2>1. Assembly(o)[i] = <<>> /\ LastMachines(o)[i] = <<>>
    BY <1>1, <1>4, <1>5, <1>7
  <2> QED BY <1>7, <2>1, ShortSeqs
<1>8. CASE ~Basket[o][i].pour /\ Basket[o][i].alone # {}
  <2>1. Assembly(o)[i] = <<>> /\ LastMachines(o)[i] = <<M>>
    BY <1>1, <1>4, <1>6, <1>8
  <2>2. Len(Assembly(o)[i]) = 0 /\ Len(LastMachines(o)[i]) = 1 /\ LastMachines(o)[i][1] = M
    BY <2>1, ShortSeqs
  <2> QED BY <1>8, <2>2
<1>9. CASE Basket[o][i].pour /\ Basket[o][i].alone = {}
  <2>1. Assembly(o)[i] = Append(<<>>, P) /\ LastMachines(o)[i] = <<>>
    BY <1>2, <1>3, <1>5, <1>9
  <2>2. Len(Assembly(o)[i]) = 1 /\ Len(LastMachines(o)[i]) = 0 /\ Assembly(o)[i][1] = P
    BY <2>1, ShortSeqs
  <2> QED BY <1>9, <2>2
<1>10. CASE Basket[o][i].pour /\ Basket[o][i].alone # {}
  <2>1. Assembly(o)[i] = Append(<<M>>, P) /\ LastMachines(o)[i] = <<>>
    BY <1>2, <1>3, <1>6, <1>10
  <2>2. /\ Len(Assembly(o)[i]) = 2 /\ Len(LastMachines(o)[i]) = 0
        /\ Assembly(o)[i][1] = M /\ Assembly(o)[i][2] = P
    BY <2>1, ShortSeqs
  <2> QED BY <1>10, <2>2
<1> QED BY <1>7, <1>8, <1>9, <1>10

\* The assembly of an order: every pour comes after the machines of its item.
LEMMA AssemblyPart ==
  ASSUME NEW o \in Orders
  PROVE  /\ FlattenSeq(Assembly(o)) \in Seq(OneStep)
         /\ \A k \in 1..Len(FlattenSeq(Assembly(o))) :
              /\ StepOf(o, FlattenSeq(Assembly(o))[k])
              /\ FlattenSeq(Assembly(o))[k].do = "pour"
                   /\ Basket[o][FlattenSeq(Assembly(o))[k].item].alone # {}
                   => \E m \in 1..(k - 1) :
                        MachinesOf(FlattenSeq(Assembly(o))[m], FlattenSeq(Assembly(o))[k].item)
         /\ \A i \in DOMAIN Basket[o] :
              Basket[o][i].alone # {} /\ Basket[o][i].pour
                => \E k \in 1..Len(FlattenSeq(Assembly(o))) :
                     MachinesOf(FlattenSeq(Assembly(o))[k], i)
<1> DEFINE F == FlattenSeq(Assembly(o))
           n == Len(Basket[o])
<1>1. F \in Seq(OneStep) /\ Joined(F, Assembly(o), n)
  BY PartTypes, FlattenJoins
<1>2. PICK before \in [1..n -> Nat] : Parts(F, Assembly(o), n, before)
  BY <1>1 DEF Joined
<1>3. ASSUME NEW i \in 1..n
      PROVE  /\ i \in DOMAIN Basket[o]
             /\ \A m \in 1..Len(Assembly(o)[i]) :
                  /\ before[i] + m \in 1..Len(F) /\ F[before[i] + m] = Assembly(o)[i][m]
                  /\ before[i] \in Nat
  <2>1. i \in DOMAIN Basket[o]
    BY BasketFacts
  <2> QED BY <1>2, <2>1 DEF Parts
<1> HIDE DEF F
<1>4. ASSUME NEW k \in 1..Len(F)
      PROVE  /\ StepOf(o, F[k])
             /\ F[k].do = "pour" /\ Basket[o][F[k].item].alone # {}
                  => \E m \in 1..(k - 1) : MachinesOf(F[m], F[k].item)
  <2>1. PICK i \in 1..n : k - before[i] \in 1..Len(Assembly(o)[i])
    BY <1>2 DEF Parts
  <2>2. F[k] = Assembly(o)[i][k - before[i]] /\ before[i] \in Nat
    <3>1. F[before[i] + (k - before[i])] = Assembly(o)[i][k - before[i]] /\ before[i] \in Nat
      BY <1>3, <2>1
    <3>2. before[i] + (k - before[i]) = k
      BY <1>1, <3>1
    <3> QED BY <3>1, <3>2
  <2>3. Basket[o][i].pour
    <3>1. ~Basket[o][i].pour => Len(Assembly(o)[i]) = 0
      BY <1>3, AssemblyOf
    <3> QED BY <2>1, <3>1
  <2>4. CASE Basket[o][i].alone = {}
    <3>1. F[k] = [do |-> "pour", item |-> i]
      <4>1. Len(Assembly(o)[i]) = 1 /\ Assembly(o)[i][1] = [do |-> "pour", item |-> i]
        BY <1>3, <2>3, <2>4, AssemblyOf
      <4>2. k - before[i] = 1
        BY <1>1, <2>1, <2>2, <4>1
      <4> QED BY <2>2, <4>1, <4>2
    <3> QED BY <1>3, <2>4, <3>1 DEF StepOf
  <2>5. CASE Basket[o][i].alone # {}
    <3>1. /\ Len(Assembly(o)[i]) = 2 /\ Assembly(o)[i][1] = [do |-> "machines", item |-> i]
          /\ Assembly(o)[i][2] = [do |-> "pour", item |-> i]
      BY <1>3, <2>3, <2>5, AssemblyOf
    <3>2. k = before[i] + 1 \/ k = before[i] + 2
      BY <1>1, <2>1, <2>2, <3>1
    <3>3. CASE k = before[i] + 1
      <4>1. F[k] = [do |-> "machines", item |-> i]
        <5>1. k - before[i] = 1
          BY <2>2, <3>3
        <5> QED BY <2>2, <3>1, <5>1
      <4> QED BY <1>3, <4>1 DEF StepOf
    <3>4. CASE k = before[i] + 2
      <4>1. F[k] = [do |-> "pour", item |-> i]
        <5>1. k - before[i] = 2
          BY <2>2, <3>4
        <5> QED BY <2>2, <3>1, <5>1
      <4>2. before[i] + 1 \in 1..(k - 1) /\ F[before[i] + 1] = [do |-> "machines", item |-> i]
        <5>1. 1 \in 1..Len(Assembly(o)[i]) /\ Assembly(o)[i][1] = [do |-> "machines", item |-> i]
          BY <3>1
        <5>2. before[i] + 1 \in 1..(k - 1)
          BY <2>2, <3>4
        <5> QED BY <1>3, <5>1, <5>2
      <4> QED BY <1>3, <4>1, <4>2 DEF StepOf, MachinesOf
    <3> QED BY <3>2, <3>3, <3>4
  <2> QED BY <2>4, <2>5
<1>5. ASSUME NEW i \in DOMAIN Basket[o], Basket[o][i].alone # {}, Basket[o][i].pour
      PROVE  \E k \in 1..Len(F) : MachinesOf(F[k], i)
  <2>1. i \in 1..n
    BY BasketFacts
  <2>3. Len(Assembly(o)[i]) = 2 /\ Assembly(o)[i][1] = [do |-> "machines", item |-> i]
    BY <1>5, AssemblyOf
  <2>4. before[i] + 1 \in 1..Len(F) /\ F[before[i] + 1] = [do |-> "machines", item |-> i]
    BY <1>3, <2>1, <2>3
  <2> QED BY <2>4 DEF MachinesOf
<1> QED BY <1>1, <1>4, <1>5 DEF F

\* The last machines of an order: those of the items nobody pours.
LEMMA LastPart ==
  ASSUME NEW o \in Orders
  PROVE  /\ FlattenSeq(LastMachines(o)) \in Seq(OneStep)
         /\ \A k \in 1..Len(FlattenSeq(LastMachines(o))) :
              /\ FlattenSeq(LastMachines(o))[k].do = "machines"
              /\ StepOf(o, FlattenSeq(LastMachines(o))[k])
         /\ \A i \in DOMAIN Basket[o] :
              Basket[o][i].alone # {} /\ ~Basket[o][i].pour
                => \E k \in 1..Len(FlattenSeq(LastMachines(o))) :
                     MachinesOf(FlattenSeq(LastMachines(o))[k], i)
<1> DEFINE F == FlattenSeq(LastMachines(o))
           n == Len(Basket[o])
<1>1. F \in Seq(OneStep) /\ Joined(F, LastMachines(o), n)
  BY PartTypes, FlattenJoins
<1>2. PICK before \in [1..n -> Nat] : Parts(F, LastMachines(o), n, before)
  BY <1>1 DEF Joined
<1>3. ASSUME NEW i \in 1..n
      PROVE  /\ i \in DOMAIN Basket[o]
             /\ \A m \in 1..Len(LastMachines(o)[i]) :
                  /\ before[i] + m \in 1..Len(F) /\ F[before[i] + m] = LastMachines(o)[i][m]
                  /\ before[i] \in Nat
  <2>1. i \in DOMAIN Basket[o]
    BY BasketFacts
  <2> QED BY <1>2, <2>1 DEF Parts
<1> HIDE DEF F
<1>4. ASSUME NEW k \in 1..Len(F) PROVE F[k].do = "machines" /\ StepOf(o, F[k])
  <2>1. PICK i \in 1..n : k - before[i] \in 1..Len(LastMachines(o)[i])
    BY <1>2 DEF Parts
  <2>2. F[k] = LastMachines(o)[i][k - before[i]] /\ before[i] \in Nat
    <3>1. F[before[i] + (k - before[i])] = LastMachines(o)[i][k - before[i]] /\ before[i] \in Nat
      BY <1>3, <2>1
    <3>2. before[i] + (k - before[i]) = k
      BY <1>1, <3>1
    <3> QED BY <3>1, <3>2
  <2>3. Len(LastMachines(o)[i]) = 1 /\ LastMachines(o)[i][1] = [do |-> "machines", item |-> i]
    <3>1. \/ Len(LastMachines(o)[i]) = 0
          \/ Len(LastMachines(o)[i]) = 1 /\ LastMachines(o)[i][1] = [do |-> "machines", item |-> i]
      BY <1>3, AssemblyOf
    <3> QED BY <2>1, <3>1
  <2>4. F[k] = [do |-> "machines", item |-> i]
    <3>1. k - before[i] = 1
      BY <1>1, <2>1, <2>2, <2>3
    <3> QED BY <2>2, <2>3, <3>1
  <2> QED BY <1>3, <2>4 DEF StepOf
<1>5. ASSUME NEW i \in DOMAIN Basket[o], Basket[o][i].alone # {}, ~Basket[o][i].pour
      PROVE  \E k \in 1..Len(F) : MachinesOf(F[k], i)
  <2>1. i \in 1..n
    BY BasketFacts
  <2>3. Len(LastMachines(o)[i]) = 1 /\ LastMachines(o)[i][1] = [do |-> "machines", item |-> i]
    BY <1>5, AssemblyOf
  <2>4. before[i] + 1 \in 1..Len(F) /\ F[before[i] + 1] = [do |-> "machines", item |-> i]
    BY <1>3, <2>1, <2>3
  <2> QED BY <2>4 DEF MachinesOf
<1> QED BY <1>1, <1>4, <1>5 DEF F

\* The plan of every customer is in order.
LEMMA StepsArePlan ==
  ASSUME NEW o \in Orders
  PROVE  /\ Steps(o) \in Seq(OneStep) /\ DOMAIN Steps(o) = 1..Len(Steps(o))
         /\ Len(Steps(o)) \in Nat /\ PlanOK(o, Steps(o))
<1> DEFINE A == FlattenSeq(ByHand(o))
           B == FlattenSeq(Assembly(o))
           C == FlattenSeq(LastMachines(o))
           S == A \o B \o C
<1>1. Steps(o) = S
  BY DEF Steps, ByHand, Assembly, LastMachines, Wait
<1>2. A \in Seq(OneStep) /\ \A k \in 1..Len(A) : A[k].do = "station" /\ StepOf(o, A[k])
  BY HandPart
<1>3. /\ B \in Seq(OneStep)
      /\ \A k \in 1..Len(B) :
           /\ StepOf(o, B[k])
           /\ B[k].do = "pour" /\ Basket[o][B[k].item].alone # {}
                => \E m \in 1..(k - 1) : MachinesOf(B[m], B[k].item)
      /\ \A i \in DOMAIN Basket[o] :
           Basket[o][i].alone # {} /\ Basket[o][i].pour
             => \E k \in 1..Len(B) : MachinesOf(B[k], i)
  BY AssemblyPart
<1>4. /\ C \in Seq(OneStep)
      /\ \A k \in 1..Len(C) : C[k].do = "machines" /\ StepOf(o, C[k])
      /\ \A i \in DOMAIN Basket[o] :
           Basket[o][i].alone # {} /\ ~Basket[o][i].pour
             => \E k \in 1..Len(C) : MachinesOf(C[k], i)
  BY LastPart
<1> HIDE DEF A, B, C
<1>5. /\ S \in Seq(OneStep) /\ Len(S) = Len(A) + Len(B) + Len(C)
      /\ Len(A) \in Nat /\ Len(B) \in Nat /\ Len(C) \in Nat
      /\ \A k \in 1..Len(A) : S[k] = A[k]
      /\ \A k \in 1..Len(B) : S[Len(A) + k] = B[k]
      /\ \A k \in 1..Len(C) : S[Len(A) + Len(B) + k] = C[k]
  BY <1>2, <1>3, <1>4, PlanParts
<1> HIDE DEF S
<1>6. ASSUME NEW k \in 1..Len(S)
      PROVE  \/ k \in 1..Len(A) /\ S[k] = A[k]
             \/ \E m \in 1..Len(B) : k = Len(A) + m /\ S[k] = B[m]
             \/ \E m \in 1..Len(C) : k = Len(A) + Len(B) + m /\ S[k] = C[m]
  <2>1. CASE k <= Len(A)
    BY <1>5, <2>1
  <2>2. CASE k > Len(A) /\ k <= Len(A) + Len(B)
    <3>1. k - Len(A) \in 1..Len(B) /\ k = Len(A) + (k - Len(A))
      BY <1>5, <2>2
    <3> QED BY <1>5, <3>1
  <2>3. CASE k > Len(A) + Len(B)
    <3>1. k - Len(A) - Len(B) \in 1..Len(C) /\ k = Len(A) + Len(B) + (k - Len(A) - Len(B))
      BY <1>5, <2>3
    <3> QED BY <1>5, <3>1
  <2> QED BY <1>5, <2>1, <2>2, <2>3
<1>7. ASSUME NEW k \in 1..Len(S)
      PROVE  /\ StepOf(o, S[k])
             /\ S[k].do = "pour" /\ Basket[o][S[k].item].alone # {}
                  => \E m \in 1..(k - 1) : MachinesOf(S[m], S[k].item)
  <2>1. CASE k \in 1..Len(A) /\ S[k] = A[k]
    BY <1>2, <2>1
  <2>2. ASSUME NEW m \in 1..Len(B), k = Len(A) + m, S[k] = B[m]
        PROVE  /\ StepOf(o, S[k])
               /\ S[k].do = "pour" /\ Basket[o][S[k].item].alone # {}
                    => \E q \in 1..(k - 1) : MachinesOf(S[q], S[k].item)
    <3>1. StepOf(o, S[k])
      BY <1>3, <2>2
    <3>2. ASSUME S[k].do = "pour", Basket[o][S[k].item].alone # {}
          PROVE  \E q \in 1..(k - 1) : MachinesOf(S[q], S[k].item)
      <4>1. PICK q \in 1..(m - 1) : MachinesOf(B[q], S[k].item)
        BY <1>3, <2>2, <3>2
      <4>2. q \in 1..Len(B) /\ Len(A) + q \in 1..(k - 1)
        BY <1>5, <2>2
      <4>3. S[Len(A) + q] = B[q]
        BY <1>5, <4>2
      <4> QED BY <4>1, <4>2, <4>3
    <3> QED BY <3>1, <3>2
  <2>3. ASSUME NEW m \in 1..Len(C), k = Len(A) + Len(B) + m, S[k] = C[m]
        PROVE  StepOf(o, S[k]) /\ S[k].do = "machines"
    BY <1>4, <2>3
  <2> QED BY <1>6, <2>1, <2>2, <2>3
<1>8. ASSUME NEW i \in DOMAIN Basket[o], Basket[o][i].alone # {}
      PROVE  \E k \in 1..Len(S) : MachinesOf(S[k], i)
  <2>1. CASE Basket[o][i].pour
    <3>1. PICK k \in 1..Len(B) : MachinesOf(B[k], i)
      BY <1>3, <1>8, <2>1
    <3>2. Len(A) + k \in 1..Len(S) /\ S[Len(A) + k] = B[k]
      BY <1>5
    <3> QED BY <3>1, <3>2
  <2>2. CASE ~Basket[o][i].pour
    <3>1. PICK k \in 1..Len(C) : MachinesOf(C[k], i)
      BY <1>4, <1>8, <2>2
    <3>2. Len(A) + Len(B) + k \in 1..Len(S) /\ S[Len(A) + Len(B) + k] = C[k]
      BY <1>5
    <3> QED BY <3>1, <3>2
  <2> QED BY <2>1, <2>2
<1>9. PlanOK(o, S)
  BY <1>7, <1>8 DEF PlanOK
<1> QED BY <1>1, <1>5, <1>9
-----------------------------------------------------------------------------
(* Work.  The places of a plan at which its order is being made. *)

Making == {"make", "station", "pour", "machines", "regain"}

\* A piece of work is at a station: running, in line, or to be picked.
Standing(s, j) == j \in using[s] \/ \E k \in 1..Len(waiting[s]) : waiting[s][k] = j

Works(s, j) == Standing(s, j) \/ (s \in Grouping /\ j \in pending[s])

\* The machines' part of an item.
Own(j, s) == j[2] \in DOMAIN Basket[j[1]] /\ s \in Basket[j[1]][j[2]].alone

\* Work is there for an order that still waits for it: for its machines while it is
\* made, for the ringing up at the till, for its barista at a station.
Belongs(j, s) ==
  \/ at[j[1]] \in Making /\ Own(j, s)
  \/ at[j[1]] = "till" /\ j[2] = 0 /\ s = Register
  \/ /\ at[j[1]] = "station" /\ s = Steps(j[1])[step[j[1]]].station
     /\ j[2] = Steps(j[1])[step[j[1]]].item

Busy(o, i) == \E s \in Stations : s \in Basket[o][i].alone /\ Works(s, <<o, i>>)

\* c slots running u, with w in line: nobody twice, and a line only before full slots.
Fits(u, w, c) ==
  /\ IsFiniteSet(u) /\ Cardinality(u) <= c
  /\ w # <<>> => Cardinality(u) = c
  /\ \A k \in 1..Len(w) : w[k] \notin u
  /\ \A k, m \in 1..Len(w) : w[k] = w[m] => k = m

\* How far an order is in its plan, and what that says of its machines.
ProgressOK(o) ==
  /\ at[o] \in Making => step[o] \in Nat \ {0}
  /\ at[o] \in Making \ {"make"}
       => /\ step[o] \in DOMAIN Steps(o)
          /\ Steps(o)[step[o]].do = IF at[o] = "regain" THEN "machines" ELSE at[o]
  /\ at[o] = "regain" => ~Busy(o, Steps(o)[step[o]].item)
  /\ at[o] \in Making
       => \A k \in 1..Len(Steps(o)) :
            k < step[o] /\ Steps(o)[k].do = "machines" => ~Busy(o, Steps(o)[k].item)

MachineTypes ==
  /\ using \in [Stations -> SUBSET Job]
  /\ waiting \in [Stations -> Seq(Job)]
  /\ pending \in [Grouping -> SUBSET Job]

SlotsOK == \A s \in Stations \ Grouping : Fits(using[s], waiting[s], Capacity[s])
JobsOK == \A s \in Stations, j \in Job : Works(s, j) => Belongs(j, s)
BatchesOK == \A s \in Grouping : using[s] # {} => server[s] = "running"

WorkInv ==
  /\ MachineTypes /\ SlotsOK /\ JobsOK /\ BatchesOK
  /\ \A o \in Orders : ProgressOK(o)

\* A request takes a free slot, and joins the line when there is none.
LEMMA FitsRequest ==
  ASSUME NEW E, NEW u, NEW w \in Seq(E), NEW c \in Nat, NEW j \in E, Fits(u, w, c),
         j \notin u, \A k \in 1..Len(w) : w[k] # j
  PROVE  IF Cardinality(u) < c THEN Fits(u \cup {j}, w, c) ELSE Fits(u, Append(w, j), c)
<1>1. IsFiniteSet(u) /\ Cardinality(u) \in Nat /\ Cardinality(u) <= c
  BY FS_CardinalityType DEF Fits
<1>2. CASE Cardinality(u) < c
  <2>1. w = <<>> /\ Len(w) = 0
    BY <1>1, <1>2 DEF Fits
  <2>2. IsFiniteSet(u \cup {j}) /\ Cardinality(u \cup {j}) = Cardinality(u) + 1
    BY <1>1, FS_AddElement
  <2>3. Fits(u \cup {j}, w, c)
    BY <1>1, <1>2, <2>1, <2>2 DEF Fits
  <2> QED BY <1>2, <2>3
<1>3. CASE ~(Cardinality(u) < c)
  <2>1. /\ Len(Append(w, j)) = Len(w) + 1 /\ Append(w, j)[Len(w) + 1] = j /\ Len(w) \in Nat
        /\ \A k \in 1..Len(w) : Append(w, j)[k] = w[k]
    OBVIOUS
  <2>2. ASSUME NEW k \in 1..Len(Append(w, j)) PROVE k = Len(w) + 1 \/ k \in 1..Len(w)
    BY <2>1
  <2>3. Cardinality(u) = c
    BY <1>1, <1>3
  <2>4. \A k \in 1..Len(Append(w, j)) : Append(w, j)[k] \notin u
    BY <2>1, <2>2 DEF Fits
  <2>5. \A k, m \in 1..Len(Append(w, j)) : Append(w, j)[k] = Append(w, j)[m] => k = m
    BY <2>1, <2>2 DEF Fits
  <2>6. Fits(u, Append(w, j), c)
    BY <1>1, <2>3, <2>4, <2>5 DEF Fits
  <2> QED BY <1>3, <2>6
<1> QED BY <1>2, <1>3

\* A slot given back goes to the first in line.
LEMMA FitsRelease ==
  ASSUME NEW E, NEW u, NEW w \in Seq(E), NEW c \in Nat, NEW j \in u, Fits(u, w, c)
  PROVE  /\ w = <<>> => Fits(u \ {j}, w, c)
         /\ w # <<>> => Fits((u \ {j}) \cup {Head(w)}, Tail(w), c)
<1>1. IsFiniteSet(u) /\ Cardinality(u) \in Nat /\ Cardinality(u) <= c
  BY FS_CardinalityType DEF Fits
<1>2. IsFiniteSet(u \ {j}) /\ Cardinality(u \ {j}) = Cardinality(u) - 1
  BY <1>1, FS_RemoveElement
<1>3. ASSUME w = <<>> PROVE Fits(u \ {j}, w, c)
  BY <1>1, <1>2, <1>3 DEF Fits
<1>4. ASSUME w # <<>> PROVE Fits((u \ {j}) \cup {Head(w)}, Tail(w), c)
  <2>1. /\ Len(w) \in Nat \ {0} /\ Head(w) = w[1] /\ Len(Tail(w)) = Len(w) - 1
        /\ \A k \in 1..Len(Tail(w)) : Tail(w)[k] = w[k + 1] /\ k + 1 \in 1..Len(w)
    BY <1>4
  <2>2. Head(w) \notin u /\ Cardinality(u) = c
    BY <1>4, <2>1 DEF Fits
  <2>3. /\ IsFiniteSet((u \ {j}) \cup {Head(w)})
        /\ Cardinality((u \ {j}) \cup {Head(w)}) = Cardinality(u \ {j}) + 1
    BY <1>2, <2>2, FS_AddElement
  <2>4. Cardinality((u \ {j}) \cup {Head(w)}) = c
    BY <1>1, <1>2, <2>2, <2>3
  <2>5. \A k \in 1..Len(Tail(w)) : Tail(w)[k] \notin (u \ {j}) \cup {Head(w)}
    <3>1. 1 \in 1..Len(w)
      BY <2>1
    <3>2. \A k \in 1..Len(Tail(w)) : k + 1 # 1
      OBVIOUS
    <3> QED BY <2>1, <3>1, <3>2 DEF Fits
  <2>6. \A k, m \in 1..Len(Tail(w)) : Tail(w)[k] = Tail(w)[m] => k = m
    BY <2>1 DEF Fits
  <2> QED BY <1>1, <2>3, <2>4, <2>5, <2>6 DEF Fits
<1> QED BY <1>3, <1>4

\* The first n of ss.
Firsts(ss, n) == { ss[k] : k \in 1..n }

\* n different pieces of work are n.
LEMMA AsManyAsTheyAre ==
  ASSUME NEW ss, NEW n \in Nat, \A k, m \in 1..n : ss[k] = ss[m] => k = m
  PROVE  IsFiniteSet(Firsts(ss, n)) /\ Cardinality(Firsts(ss, n)) = n
<1> DEFINE T == Firsts(ss, n)
           f == [k \in 1..n |-> ss[k]]
<1>1. f \in Bijection(1..n, T)
  <2>1. f \in [1..n -> T]
    BY DEF Firsts
  <2>2. \A t \in T : \E k \in 1..n : f[k] = t
    BY DEF Firsts
  <2>3. IsInjective(f)
    BY DEF IsInjective
  <2> HIDE DEF f, T
  <2> QED BY <2>1, <2>2, <2>3 DEF Bijection, Injection, Surjection
<1>2. ExistsBijection(1..n, T)
  BY <1>1 DEF ExistsBijection
<1>3. IsFiniteSet(1..n) /\ Cardinality(1..n) = n
  BY FS_Interval
<1> QED BY <1>2, <1>3, FS_Bijection

\* Two sequences put together.
LEMMA OneAfterTheOther ==
  ASSUME NEW E, NEW a \in Seq(E), NEW b \in Seq(E)
  PROVE  /\ a \o b \in Seq(E) /\ Len(a \o b) = Len(a) + Len(b) /\ Len(a) \in Nat
         /\ \A k \in 1..Len(a) : (a \o b)[k] = a[k]
         /\ \A k \in 1..Len(b) : (a \o b)[Len(a) + k] = b[k]
OBVIOUS

\* Several requests at once fill the free slots in turn, and the rest wait.
LEMMA FitsStart ==
  ASSUME NEW E, NEW u, NEW w \in Seq(E), NEW c \in Nat, NEW ss \in Seq(E), Fits(u, w, c),
         \A k, m \in 1..Len(ss) : ss[k] = ss[m] => k = m,
         \A k \in 1..Len(ss) : ss[k] \notin u /\ \A m \in 1..Len(w) : w[m] # ss[k],
         NEW n \in 0..Len(ss),
         n = IF c - Cardinality(u) < Len(ss) THEN c - Cardinality(u) ELSE Len(ss)
  PROVE  Fits(u \cup ToSet(SubSeq(ss, 1, n)), w \o SubSeq(ss, n + 1, Len(ss)), c)
<1> DEFINE T == Firsts(ss, n)
           rest == SubSeq(ss, n + 1, Len(ss))
           line == w \o rest
<1>1. IsFiniteSet(u) /\ Cardinality(u) \in Nat /\ Cardinality(u) <= c
  BY FS_CardinalityType DEF Fits
<1>2. n \in Nat /\ Len(ss) \in Nat /\ n <= Len(ss) /\ 1..n \subseteq 1..Len(ss)
  OBVIOUS
<1>3. ToSet(SubSeq(ss, 1, n)) = T
  <2>1. Len(SubSeq(ss, 1, n)) = n /\ \A k \in 1..n : SubSeq(ss, 1, n)[k] = ss[k]
    BY <1>2
  <2>2. DOMAIN SubSeq(ss, 1, n) = 1..n
    BY <1>2, <2>1
  <2> DEFINE f == SubSeq(ss, 1, n)
  <2> HIDE DEF f
  <2>3. ASSUME NEW x \in ToSet(f) PROVE x \in T
    BY <2>1, <2>2 DEF ToSet, Firsts, f
  <2>4. ASSUME NEW x \in T PROVE x \in ToSet(f)
    BY <2>1, <2>2 DEF ToSet, Firsts, f
  <2> QED BY <2>3, <2>4 DEF f
<1>4. IsFiniteSet(T) /\ Cardinality(T) = n
  <2>1. \A k, m \in 1..n : ss[k] = ss[m] => k = m
    BY <1>2
  <2> QED BY <1>2, <2>1, AsManyAsTheyAre
<1>5. u \cap T = {}
  BY <1>2 DEF Firsts
<1>6. IsFiniteSet(u \cup T) /\ Cardinality(u \cup T) = Cardinality(u) + n
  <2>1. Cardinality(u \cap T) = 0
    BY <1>5, FS_EmptySet
  <2> HIDE DEF T
  <2>2. IsFiniteSet(u \cup T) /\ Cardinality(u \cup T) = Cardinality(u) + Cardinality(T) - Cardinality(u \cap T)
    BY <1>1, <1>4, FS_Union
  <2> QED BY <1>1, <1>2, <1>4, <2>1, <2>2
<1>7. /\ rest \in Seq(E) /\ Len(rest) = Len(ss) - n
      /\ \A k \in 1..Len(rest) : rest[k] = ss[n + k] /\ n + k \in 1..Len(ss)
  BY <1>2
<1>8. /\ Len(line) = Len(w) + Len(rest) /\ Len(w) \in Nat
      /\ \A k \in 1..Len(w) : line[k] = w[k]
      /\ \A k \in 1..Len(rest) : line[Len(w) + k] = rest[k]
  <2> HIDE DEF rest
  <2>1. rest \in Seq(E) /\ w \in Seq(E)
    BY <1>7
  <2>2. /\ Len(w \o rest) = Len(w) + Len(rest) /\ Len(w) \in Nat
        /\ \A k \in 1..Len(w) : (w \o rest)[k] = w[k]
        /\ \A k \in 1..Len(rest) : (w \o rest)[Len(w) + k] = rest[k]
    BY <2>1, OneAfterTheOther
  <2> QED BY <2>2
<1> HIDE DEF line, rest
<1>9. ASSUME NEW k \in 1..Len(line)
      PROVE  k \in 1..Len(w) \/ (k - Len(w) \in 1..Len(rest) /\ line[k] = ss[n + (k - Len(w))])
  <2>1. CASE k > Len(w)
    <3>1. k - Len(w) \in 1..Len(rest) /\ k = Len(w) + (k - Len(w))
      BY <1>2, <1>7, <1>8, <2>1
    <3> QED BY <1>7, <1>8, <3>1
  <2> QED BY <1>8, <2>1
<1>10. line # <<>> => Cardinality(u \cup T) = c
  <2>1. CASE Len(w) = 0
    <3>1. Len(rest) # 0 => Cardinality(u) + n = c
      BY <1>1, <1>2, <1>7
    <3>2. line # <<>> => Len(rest) # 0
      BY <1>7, <2>1 DEF line
    <3> QED BY <1>6, <3>1, <3>2
  <2>2. CASE Len(w) # 0
    <3>1. Cardinality(u) = c
      BY <2>2 DEF Fits
    <3>2. n = 0
      BY <1>2, <3>1
    <3> QED BY <1>1, <1>6, <3>1, <3>2
  <2> QED BY <2>1, <2>2
<1>11. Cardinality(u \cup T) <= c
  BY <1>1, <1>2, <1>6
<1>12. \A k \in 1..Len(line) : line[k] \notin u \cup T
  <2> SUFFICES ASSUME NEW k \in 1..Len(line) PROVE line[k] \notin u \cup T
    OBVIOUS
  <2>1. CASE k \in 1..Len(w)
    BY <1>2, <1>8, <2>1 DEF Fits, Firsts
  <2>2. CASE k - Len(w) \in 1..Len(rest) /\ line[k] = ss[n + (k - Len(w))]
    <3>1. n + (k - Len(w)) \in 1..Len(ss) /\ n + (k - Len(w)) > n
      BY <1>2, <1>7, <2>2
    <3>2. \A m \in 1..n : ss[m] # ss[n + (k - Len(w))]
      BY <1>2, <3>1
    <3> QED BY <2>2, <3>1, <3>2 DEF Firsts
  <2> QED BY <1>9, <2>1, <2>2
<1>13. \A k, m \in 1..Len(line) : line[k] = line[m] => k = m
  <2> SUFFICES ASSUME NEW k \in 1..Len(line), NEW m \in 1..Len(line), line[k] = line[m] PROVE k = m
    OBVIOUS
  <2>1. CASE k \in 1..Len(w) /\ m \in 1..Len(w)
    BY <1>8, <2>1 DEF Fits
  <2>2. ASSUME k - Len(w) \in 1..Len(rest), line[k] = ss[n + (k - Len(w))],
               m - Len(w) \in 1..Len(rest), line[m] = ss[n + (m - Len(w))]
        PROVE  k = m
    <3>1. n + (k - Len(w)) \in 1..Len(ss) /\ n + (m - Len(w)) \in 1..Len(ss)
      BY <1>7, <2>2
    <3>2. n + (k - Len(w)) = n + (m - Len(w))
      BY <2>2, <3>1
    <3> QED BY <1>2, <1>8, <3>2
  <2>3. ASSUME NEW a \in 1..Len(line), NEW b \in 1..Len(line), a \in 1..Len(w),
               b - Len(w) \in 1..Len(rest), line[b] = ss[n + (b - Len(w))]
        PROVE  line[a] # line[b]
    <3>1. n + (b - Len(w)) \in 1..Len(ss)
      BY <1>7, <2>3
    <3> QED BY <1>8, <2>3, <3>1
  <2> QED BY <1>9, <2>1, <2>2, <2>3
<1> HIDE DEF T
<1>14. Fits(u \cup T, line, c)
  BY <1>6, <1>10, <1>11, <1>12, <1>13 DEF Fits
<1> QED BY <1>3, <1>14 DEF line, rest
-----------------------------------------------------------------------------
(* What the stations do with work. *)

\* The jobs an order has for a machine are those of its items, each once.
LEMMA AloneJobs ==
  ASSUME NEW o \in Orders, NEW s
  PROVE  /\ Alone(o, s) \in Seq(Job)
         /\ \A k \in 1..Len(Alone(o, s)) : Alone(o, s)[k][1] = o /\ Own(Alone(o, s)[k], s)
         /\ \A k, m \in 1..Len(Alone(o, s)) : Alone(o, s)[k] = Alone(o, s)[m] => k = m
<1> DEFINE n == Len(Basket[o])
           ss == [i \in DOMAIN Basket[o] |->
                    IF s \in Basket[o][i].alone THEN << <<o, i>> >> ELSE <<>>]
           F == FlattenSeq(ss)
<1>0. n \in Nat /\ DOMAIN Basket[o] = 1..n /\ 1..n \subseteq Nat
  BY BasketFacts
<1>1. \A i \in 1..n : ss[i] = IF s \in Basket[o][i].alone THEN << <<o, i>> >> ELSE <<>>
  BY <1>0
<1>2. \A i \in 1..n : /\ ss[i] \in Seq(Job) /\ Len(ss[i]) \in {0, 1}
                      /\ Len(ss[i]) = 1 => ss[i][1] = <<o, i>> /\ s \in Basket[o][i].alone
  <2> SUFFICES ASSUME NEW i \in 1..n
               PROVE  /\ ss[i] \in Seq(Job) /\ Len(ss[i]) \in {0, 1}
                      /\ Len(ss[i]) = 1 => ss[i][1] = <<o, i>> /\ s \in Basket[o][i].alone
    OBVIOUS
  <2>1. <<o, i>> \in Job
    BY <1>0 DEF Job
  <2>2. CASE s \in Basket[o][i].alone
    BY <1>1, <2>1, <2>2
  <2>3. CASE s \notin Basket[o][i].alone
    BY <1>1, <2>3
  <2> QED BY <2>2, <2>3
<1>3. ss = [i \in 1..n |-> ss[i]]
  BY <1>0
<1>4. Alone(o, s) = F
  BY DEF Alone
<1> HIDE DEF n, ss
<1>5. ss \in Seq(Seq(Job)) /\ Len(ss) = n
  BY <1>0, <1>2, <1>3, SeqOnInterval
<1>6. F \in Seq(Job) /\ Joined(F, ss, n)
  BY <1>5, FlattenJoins
<1> HIDE DEF F
<1>7. PICK before \in [1..n -> Nat] : Parts(F, ss, n, before)
  BY <1>6 DEF Joined
<1>8. ASSUME NEW k \in 1..Len(F)
      PROVE  \E i \in 1..n : /\ k = before[i] + 1 /\ F[k] = <<o, i>>
                             /\ s \in Basket[o][i].alone
  <2>1. PICK i \in 1..n : k - before[i] \in 1..Len(ss[i])
    BY <1>7 DEF Parts
  <2>2. Len(ss[i]) = 1 /\ ss[i][1] = <<o, i>> /\ s \in Basket[o][i].alone
    BY <1>2, <2>1
  <2>3. before[i] \in Nat /\ k \in Nat
    BY <1>6
  <2>4. k = before[i] + 1
    BY <2>1, <2>2, <2>3
  <2>5. F[before[i] + 1] = ss[i][1]
    <3>1. 1 \in 1..Len(ss[i])
      BY <2>2
    <3> QED BY <1>7, <3>1 DEF Parts
  <2> QED BY <2>2, <2>4, <2>5
<1>9. ASSUME NEW k \in 1..Len(F) PROVE F[k][1] = o /\ Own(F[k], s)
  <2>1. PICK i \in 1..n : F[k] = <<o, i>> /\ s \in Basket[o][i].alone
    BY <1>8
  <2> QED BY <1>0, <2>1 DEF Own
<1>10. ASSUME NEW k \in 1..Len(F), NEW m \in 1..Len(F), F[k] = F[m] PROVE k = m
  <2>1. PICK i \in 1..n : k = before[i] + 1 /\ F[k] = <<o, i>>
    BY <1>8
  <2>2. PICK q \in 1..n : m = before[q] + 1 /\ F[m] = <<o, q>>
    BY <1>8
  <2>3. i = q
    BY <1>10, <2>1, <2>2
  <2> QED BY <2>1, <2>2, <2>3
<1> QED BY <1>4, <1>6, <1>9, <1>10

\* A request for a slot keeps slots and line consistent and adds one piece of work.
LEMMA RequestKeeps ==
  ASSUME MachineTypes, SlotsOK, NEW s \in Stations \ Grouping, NEW j \in Job,
         Request(s, j), UNCHANGED pending, ~Standing(s, j)
  PROVE  /\ MachineTypes' /\ SlotsOK'
         /\ \A t \in Stations, x \in Job : Works(t, x)' => Works(t, x) \/ (t = s /\ x = j)
         /\ \A t \in Grouping : using'[t] = using[t]
<1>1. /\ using[s] \in SUBSET Job /\ waiting[s] \in Seq(Job) /\ Capacity[s] \in Nat
      /\ s \in Stations /\ Fits(using[s], waiting[s], Capacity[s])
  BY CafeAssumption DEF MachineTypes, SlotsOK
<1>2. /\ using'[s] = IF HasRoom(s) THEN using[s] \cup {j} ELSE using[s]
      /\ waiting'[s] = IF HasRoom(s) THEN waiting[s] ELSE Append(waiting[s], j)
      /\ using' \in [Stations -> SUBSET Job] /\ waiting' \in [Stations -> Seq(Job)]
      /\ \A t \in Stations \ {s} : using'[t] = using[t] /\ waiting'[t] = waiting[t]
  <2>1. CASE HasRoom(s)
    <3>1. using' = [using EXCEPT ![s] = using[s] \cup {j}] /\ waiting' = waiting
      BY <2>1 DEF Request
    <3> QED BY <1>1, <2>1, <3>1 DEF MachineTypes
  <2>2. CASE ~HasRoom(s)
    <3>1. using' = using /\ waiting' = [waiting EXCEPT ![s] = Append(waiting[s], j)]
      BY <2>2 DEF Request
    <3>2. Append(waiting[s], j) \in Seq(Job)
      BY <1>1
    <3> QED BY <1>1, <2>2, <3>1, <3>2 DEF MachineTypes
  <2> QED BY <2>1, <2>2
<1>3. MachineTypes'
  BY <1>2 DEF MachineTypes
<1>4. Fits(using'[s], waiting'[s], Capacity[s])
  <2>1. j \notin using[s] /\ \A k \in 1..Len(waiting[s]) : waiting[s][k] # j
    BY DEF Standing
  <2>2. IF HasRoom(s) THEN Fits(using[s] \cup {j}, waiting[s], Capacity[s])
                      ELSE Fits(using[s], Append(waiting[s], j), Capacity[s])
    BY <1>1, <2>1, FitsRequest DEF HasRoom
  <2> QED BY <1>2, <2>2
<1>5. SlotsOK'
  BY <1>2, <1>4 DEF SlotsOK
<1>6. ASSUME NEW t \in Stations, NEW x \in Job, Works(t, x)', ~(t = s /\ x = j)
      PROVE  Works(t, x)
  <2>1. CASE t # s
    BY <1>2, <1>6, <2>1 DEF Works, Standing
  <2>2. CASE t = s
    <3>1. Standing(s, x)'
      BY <1>6, <2>2 DEF Works
    <3>2. x # j
      BY <1>6, <2>2
    <3>3. CASE HasRoom(s)
      BY <1>2, <2>2, <3>1, <3>2, <3>3 DEF Works, Standing
    <3>4. CASE ~HasRoom(s)
      <4>1. /\ Len(Append(waiting[s], j)) = Len(waiting[s]) + 1
            /\ Append(waiting[s], j)[Len(waiting[s]) + 1] = j /\ Len(waiting[s]) \in Nat
            /\ \A k \in 1..Len(waiting[s]) : Append(waiting[s], j)[k] = waiting[s][k]
        BY <1>1
      <4> QED BY <1>2, <2>2, <3>1, <3>2, <3>4, <4>1 DEF Works, Standing
    <3> QED BY <3>3, <3>4
  <2> QED BY <2>1, <2>2
<1>7. \A t \in Grouping : using'[t] = using[t]
  BY <1>2, CafeAssumption
<1> QED BY <1>3, <1>5, <1>6, <1>7

\* Giving a slot back keeps them consistent and ends one piece of work.
LEMMA ReleaseKeeps ==
  ASSUME MachineTypes, SlotsOK, NEW s \in Stations \ Grouping, NEW j \in using[s],
         Release(s, j), UNCHANGED pending
  PROVE  /\ MachineTypes' /\ SlotsOK'
         /\ \A t \in Stations, x \in Job : Works(t, x)' => Works(t, x) /\ ~(t = s /\ x = j)
         /\ \A t \in Grouping : using'[t] = using[t]
<1> DEFINE w == waiting[s]
<1>1. /\ using[s] \in SUBSET Job /\ w \in Seq(Job) /\ Capacity[s] \in Nat
      /\ s \in Stations /\ Fits(using[s], w, Capacity[s])
  BY CafeAssumption DEF MachineTypes, SlotsOK
<1>2. w # <<>> =>
        /\ Len(w) \in Nat \ {0} /\ Head(w) = w[1] /\ Head(w) \in Job /\ Tail(w) \in Seq(Job)
        /\ Len(Tail(w)) = Len(w) - 1
        /\ \A k \in 1..Len(Tail(w)) : Tail(w)[k] = w[k + 1] /\ k + 1 \in 1..Len(w)
  <2> HIDE DEF w
  <2> QED BY <1>1
<1>3. /\ using'[s] = IF w = <<>> THEN using[s] \ {j} ELSE (using[s] \ {j}) \cup {Head(w)}
      /\ waiting'[s] = IF w = <<>> THEN w ELSE Tail(w)
      /\ using' \in [Stations -> SUBSET Job] /\ waiting' \in [Stations -> Seq(Job)]
      /\ \A t \in Stations \ {s} : using'[t] = using[t] /\ waiting'[t] = waiting[t]
  <2>1. CASE w = <<>>
    BY <1>1, <2>1 DEF Release, MachineTypes
  <2>2. CASE w # <<>>
    <3>1. Head(w) \in Job /\ Tail(w) \in Seq(Job)
      BY <1>2, <2>2
    <3>2. /\ using' = [using EXCEPT ![s] = (using[s] \ {j}) \cup {Head(w)}]
          /\ waiting' = [waiting EXCEPT ![s] = Tail(w)]
      BY <2>2 DEF Release
    <3> HIDE DEF w
    <3> QED BY <1>1, <2>2, <3>1, <3>2 DEF MachineTypes
  <2> QED BY <2>1, <2>2
<1>4. MachineTypes'
  BY <1>3 DEF MachineTypes
<1> HIDE DEF w
<1>5. Fits(using'[s], waiting'[s], Capacity[s])
  <2>1. /\ w = <<>> => Fits(using[s] \ {j}, w, Capacity[s])
        /\ w # <<>> => Fits((using[s] \ {j}) \cup {Head(w)}, Tail(w), Capacity[s])
    BY <1>1, FitsRelease
  <2> QED BY <1>3, <2>1
<1>6. SlotsOK'
  BY <1>3, <1>5 DEF SlotsOK
<1>7. ASSUME NEW t \in Stations, NEW x \in Job, Works(t, x)'
      PROVE  Works(t, x) /\ ~(t = s /\ x = j)
  <2>1. CASE t # s
    BY <1>3, <1>7, <2>1 DEF Works, Standing
  <2>2. CASE t = s
    <3>1. Standing(s, x)'
      BY <1>7, <2>2 DEF Works
    <3>2. j \in using[s] /\ \A k \in 1..Len(w) : w[k] # j
      BY <1>1 DEF Fits
    <3>3. CASE w = <<>>
      <4>1. using'[s] = using[s] \ {j} /\ waiting'[s] = w
        BY <1>3, <3>3
      <4> QED BY <2>2, <3>1, <3>2, <4>1 DEF Works, Standing, w
    <3>4. CASE w # <<>>
      <4>1. using'[s] = (using[s] \ {j}) \cup {Head(w)} /\ waiting'[s] = Tail(w)
        BY <1>3, <3>4
      <4>2. CASE x \in using'[s]
        <5>1. (x \in using[s] /\ x # j) \/ x = w[1]
          BY <1>2, <3>4, <4>1, <4>2
        <5>2. 1 \in 1..Len(w)
          BY <1>2, <3>4
        <5> QED BY <2>2, <3>2, <5>1, <5>2 DEF Works, Standing, w
      <4>3. ASSUME NEW k \in 1..Len(Tail(w)), Tail(w)[k] = x
            PROVE  Works(t, x) /\ ~(t = s /\ x = j)
        <5>1. x = w[k + 1] /\ k + 1 \in 1..Len(w)
          BY <1>2, <3>4, <4>3
        <5> QED BY <2>2, <3>2, <5>1 DEF Works, Standing, w
      <4> QED BY <3>1, <4>1, <4>2, <4>3 DEF Standing
    <3> QED BY <3>3, <3>4
  <2> QED BY <2>1, <2>2
<1>8. \A t \in Grouping : using'[t] = using[t]
  BY <1>3, CafeAssumption
<1> QED BY <1>4, <1>6, <1>7, <1>8

\* What an order hands in at once is work of its own at every station.
LEMMA StartKeeps ==
  ASSUME MachineTypes, SlotsOK, NEW o \in Orders, StartMachines(o),
         \A t \in Stations, x \in Job : Works(t, x) => x[1] # o
  PROVE  /\ MachineTypes' /\ SlotsOK'
         /\ \A t \in Stations, x \in Job :
              Works(t, x)' => Works(t, x) \/ (x[1] = o /\ Own(x, t))
         /\ \A t \in Grouping : using'[t] = using[t]
<1> DEFINE lone(s) == IF s \in Grouping THEN <<>> ELSE Alone(o, s)
           slots(s) == Capacity[s] - Cardinality(using[s])
           starts(s) == IF lone(s) = <<>> THEN 0
                        ELSE IF slots(s) < Len(lone(s)) THEN slots(s) ELSE Len(lone(s))
           now(s) == SubSeq(lone(s), 1, starts(s))
           then(s) == SubSeq(lone(s), starts(s) + 1, Len(lone(s)))
<1>1. /\ using' = [s \in Stations |-> using[s] \cup ToSet(now(s))]
      /\ waiting' = [s \in Stations |-> waiting[s] \o then(s)]
      /\ pending' = [s \in Grouping |-> pending[s] \cup ToSet(Alone(o, s))]
  BY DEF StartMachines
<1>2. ASSUME NEW s \in Stations
      PROVE  /\ lone(s) \in Seq(Job) /\ Len(lone(s)) \in Nat
             /\ \A k \in 1..Len(lone(s)) : lone(s)[k][1] = o /\ Own(lone(s)[k], s)
             /\ \A k, m \in 1..Len(lone(s)) : lone(s)[k] = lone(s)[m] => k = m
  <2>1. CASE s \in Grouping
    BY <2>1
  <2>2. CASE s \notin Grouping
    <3>1. lone(s) = Alone(o, s)
      BY <2>2
    <3> HIDE DEF lone
    <3> QED BY <3>1, AloneJobs
  <2> QED BY <2>1, <2>2
<1>3. ASSUME NEW s \in Stations
      PROVE  starts(s) \in 0..Len(lone(s)) /\ (s \in Grouping => starts(s) = 0)
  <2>1. CASE lone(s) = <<>>
    BY <1>2, <2>1
  <2>2. CASE lone(s) # <<>>
    <3>1. s \notin Grouping
      BY <2>2
    <3>2. Fits(using[s], waiting[s], Capacity[s]) /\ Capacity[s] \in Nat
      BY <3>1, CafeAssumption DEF SlotsOK
    <3>3. Cardinality(using[s]) \in Nat /\ Cardinality(using[s]) <= Capacity[s]
      BY <3>2, FS_CardinalityType DEF Fits
    <3> HIDE DEF lone
    <3> QED BY <1>2, <2>2, <3>1, <3>2, <3>3
  <2> QED BY <2>1, <2>2
<1>4. \A s \in Grouping : lone(s) = <<>>
  OBVIOUS
<1>5. \A s \in Stations \ Grouping : lone(s) = Alone(o, s)
  OBVIOUS
<1>6. ASSUME NEW s \in Stations
      PROVE  /\ now(s) \in Seq(Job) /\ then(s) \in Seq(Job)
             /\ \A k \in 1..Len(now(s)) : now(s)[k][1] = o /\ Own(now(s)[k], s)
             /\ \A k \in 1..Len(then(s)) : then(s)[k][1] = o /\ Own(then(s)[k], s)
             /\ s \in Grouping => now(s) = <<>>
  <2> DEFINE L == lone(s)
             n == starts(s)
  <2>1. /\ L \in Seq(Job) /\ Len(L) \in Nat /\ n \in 0..Len(L)
        /\ \A k \in 1..Len(L) : L[k][1] = o /\ Own(L[k], s)
        /\ s \in Grouping => L = <<>>
    BY <1>2, <1>3, <1>4
  <2> HIDE DEF L, n
  <2>2. /\ SubSeq(L, 1, n) \in Seq(Job) /\ Len(SubSeq(L, 1, n)) = n
        /\ \A k \in 1..n : SubSeq(L, 1, n)[k] = L[k]
        /\ SubSeq(L, n + 1, Len(L)) \in Seq(Job) /\ Len(SubSeq(L, n + 1, Len(L))) = Len(L) - n
        /\ \A k \in 1..(Len(L) - n) : SubSeq(L, n + 1, Len(L))[k] = L[n + k]
    BY <2>1
  <2>3. s \in Grouping => SubSeq(L, 1, n) = <<>>
    <3>1. s \in Grouping => n = 0
      BY <2>1
    <3> QED BY <2>2, <3>1
  <2>4. \A k \in 1..(Len(L) - n) : n + k \in 1..Len(L)
    BY <2>1
  <2>5. now(s) = SubSeq(L, 1, n) /\ then(s) = SubSeq(L, n + 1, Len(L))
    BY DEF L, n
  <2>6. \A k \in 1..n : k \in 1..Len(L)
    BY <2>1
  <2> HIDE DEF lone, starts, now, then
  <2>7. \A k \in 1..Len(now(s)) : now(s)[k][1] = o /\ Own(now(s)[k], s)
    BY <2>1, <2>2, <2>5, <2>6
  <2>8. \A k \in 1..Len(then(s)) : then(s)[k][1] = o /\ Own(then(s)[k], s)
    BY <2>1, <2>2, <2>4, <2>5
  <2> QED BY <2>2, <2>3, <2>5, <2>7, <2>8
<1>7. ASSUME NEW s \in Stations \ Grouping PROVE Fits(using'[s], waiting'[s], Capacity[s])
  <2> DEFINE L == Alone(o, s)
             u == using[s]
             w == waiting[s]
             c == Capacity[s]
             n == IF c - Cardinality(u) < Len(L) THEN c - Cardinality(u) ELSE Len(L)
  <2>1. /\ Fits(u, w, c) /\ c \in Nat /\ w \in Seq(Job) /\ L \in Seq(Job) /\ Len(L) \in Nat
        /\ \A k \in 1..Len(L) : L[k] \in Job /\ L[k][1] = o
        /\ \A k, m \in 1..Len(L) : L[k] = L[m] => k = m
    BY CafeAssumption, AloneJobs DEF SlotsOK, MachineTypes
  <2>2. Cardinality(u) \in Nat /\ Cardinality(u) <= c
    BY <2>1, FS_CardinalityType DEF Fits
  <2>3. n \in 0..Len(L)
    BY <2>1, <2>2
  <2>4. starts(s) = n
    <3>1. L = <<>> => n = 0
      BY <2>3
    <3> QED BY <3>1
  <2>5. using'[s] = u \cup ToSet(SubSeq(L, 1, n)) /\ waiting'[s] = w \o SubSeq(L, n + 1, Len(L))
    <3>1. using'[s] = using[s] \cup ToSet(now(s)) /\ waiting'[s] = waiting[s] \o then(s)
      BY <1>1
    <3>2. lone(s) = L
      OBVIOUS
    <3> HIDE DEF n, L, lone, starts
    <3> QED BY <2>4, <3>1, <3>2
  <2> HIDE DEF L
  <2>6. \A k \in 1..Len(L) : L[k] \notin u /\ \A m \in 1..Len(w) : w[m] # L[k]
    BY <2>1 DEF Works, Standing
  <2> HIDE DEF u, w, c, n
  <2>7. n = IF c - Cardinality(u) < Len(L) THEN c - Cardinality(u) ELSE Len(L)
    BY DEF n
  <2>8. Fits(u \cup ToSet(SubSeq(L, 1, n)), w \o SubSeq(L, n + 1, Len(L)), c)
    BY <2>1, <2>3, <2>6, <2>7, FitsStart
  <2> QED BY <2>5, <2>8 DEF c
<1> HIDE DEF lone, slots, starts, now, then
<1>8. MachineTypes'
  <2>1. \A s \in Stations : ToSet(now(s)) \subseteq Job /\ waiting[s] \o then(s) \in Seq(Job)
    BY <1>6 DEF ToSet, MachineTypes
  <2>2. \A s \in Grouping : ToSet(Alone(o, s)) \subseteq Job
    BY AloneJobs DEF ToSet
  <2> QED BY <1>1, <2>1, <2>2 DEF MachineTypes
<1>9. SlotsOK'
  BY <1>7 DEF SlotsOK
<1>10. ASSUME NEW t \in Stations, NEW x \in Job, Works(t, x)'
       PROVE  Works(t, x) \/ (x[1] = o /\ Own(x, t))
  <2>1. CASE x \in using'[t]
    <3>1. x \in using[t] \/ x \in ToSet(now(t))
      BY <1>1, <2>1
    <3>2. x \in ToSet(now(t)) => x[1] = o /\ Own(x, t)
      BY <1>6 DEF ToSet
    <3> QED BY <3>1, <3>2 DEF Works, Standing
  <2>2. ASSUME NEW k \in 1..Len(waiting'[t]), waiting'[t][k] = x
        PROVE  Works(t, x) \/ (x[1] = o /\ Own(x, t))
    <3> DEFINE w == waiting[t]
               b == then(t)
    <3>1. w \in Seq(Job) /\ b \in Seq(Job) /\ waiting'[t] = w \o b
      BY <1>1, <1>6 DEF MachineTypes
    <3> HIDE DEF w, b
    <3>2. k \in 1..Len(w \o b) /\ (w \o b)[k] = x
      BY <2>2, <3>1
    <3>3. \/ k \in 1..Len(w) /\ w[k] = x
          \/ k - Len(w) \in 1..Len(b) /\ b[k - Len(w)] = x
      <4>1. /\ Len(w \o b) = Len(w) + Len(b) /\ Len(w) \in Nat /\ Len(b) \in Nat
            /\ \A m \in 1..Len(w) : (w \o b)[m] = w[m]
            /\ \A m \in 1..Len(b) : (w \o b)[Len(w) + m] = b[m]
        BY <3>1
      <4>2. CASE k <= Len(w)
        BY <3>2, <4>1, <4>2
      <4>3. CASE k > Len(w)
        <5>1. k - Len(w) \in 1..Len(b) /\ k = Len(w) + (k - Len(w))
          BY <3>2, <4>1, <4>3
        <5> QED BY <3>2, <4>1, <5>1
      <4> QED BY <3>2, <4>1, <4>2, <4>3
    <3>4. \A m \in 1..Len(b) : b[m][1] = o /\ Own(b[m], t)
      BY <1>6 DEF b
    <3>5. k \in 1..Len(w) /\ w[k] = x => Works(t, x)
      BY DEF Works, Standing, w
    <3> QED BY <3>3, <3>4, <3>5
  <2>3. CASE t \in Grouping /\ x \in pending'[t]
    <3>1. x \in pending[t] \/ x \in ToSet(Alone(o, t))
      BY <1>1, <2>3
    <3>2. x \in ToSet(Alone(o, t)) => x[1] = o /\ Own(x, t)
      BY AloneJobs DEF ToSet
    <3> QED BY <2>3, <3>1, <3>2 DEF Works
  <2> QED BY <1>10, <2>1, <2>2, <2>3 DEF Works, Standing
<1>11. \A t \in Grouping : using'[t] = using[t]
  <2> SUFFICES ASSUME NEW t \in Grouping PROVE using'[t] = using[t]
    OBVIOUS
  <2>1. t \in Stations
    BY CafeAssumption
  <2>2. ToSet(now(t)) = {}
    BY <1>6, <2>1 DEF ToSet
  <2> QED BY <1>1, <2>1, <2>2
<1> QED BY <1>8, <1>9, <1>10, <1>11
-----------------------------------------------------------------------------
(* Steps. *)

OnlyOne(o) == \A x \in Orders \ {o} : at'[x] = at[x] /\ step'[x] = step[x]

\* Nothing new is handed in for anybody but o.
NewOnlyFor(o) == \A t \in Stations, x \in Job : Works(t, x)' => Works(t, x) \/ x[1] = o

\* The machines of o get nothing to do.
NoMachineOf(o) ==
  \A t \in Stations, x \in Job : Works(t, x)' /\ x[1] = o /\ Own(x, t) => Works(t, x)

\* An item whose machines get no new work is not busier than it was.
LEMMA BusyShrinks ==
  ASSUME NEW o \in Orders, NoMachineOf(o)
  PROVE  \A i \in DOMAIN Basket[o] : Busy(o, i)' => Busy(o, i)
<1> SUFFICES ASSUME NEW i \in DOMAIN Basket[o], Busy(o, i)' PROVE Busy(o, i)
  OBVIOUS
<1>1. PICK t \in Stations : t \in Basket[o][i].alone /\ Works(t, <<o, i>>)'
  BY DEF Busy
<1>2. <<o, i>> \in Job /\ <<o, i>>[1] = o /\ <<o, i>>[2] = i
  BY BasketFacts DEF Job
<1>3. Works(t, <<o, i>>)
  BY <1>1, <1>2 DEF NoMachineOf, Own
<1> QED BY <1>1, <1>3 DEF Busy

\* An order that stays where it is, and whose machines get nothing to do, stays in order.
LEMMA ProgressKept ==
  ASSUME NEW o \in Orders, at'[o] = at[o], step'[o] = step[o], NoMachineOf(o), ProgressOK(o)
  PROVE  ProgressOK(o)'
<1>1. \A i \in DOMAIN Basket[o] : Busy(o, i)' => Busy(o, i)
  BY BusyShrinks
<1>2. \A k \in DOMAIN Steps(o) : k \in 1..Len(Steps(o)) /\ Steps(o)[k].item \in DOMAIN Basket[o]
  BY StepsArePlan DEF PlanOK, StepOf
<1>3. DOMAIN Steps(o) = 1..Len(Steps(o))
  BY StepsArePlan
<1>4. at[o] = "regain" => at[o] \in Making \ {"make"}
  BY DEF Making
<1> QED BY <1>1, <1>2, <1>3, <1>4 DEF ProgressOK

\* A step of o is checked by what it does to o.
LEMMA WorkStep ==
  ASSUME WorkInv, NEW o \in Orders, OnlyOne(o), NewOnlyFor(o),
         MachineTypes', SlotsOK', \A t \in Grouping : using'[t] = using[t], server' = server,
         \A t \in Stations, x \in Job : Works(t, x)' /\ x[1] = o => Belongs(x, t)',
         ProgressOK(o)'
  PROVE  WorkInv'
<1>1. JobsOK'
  <2> SUFFICES ASSUME NEW t \in Stations, NEW x \in Job, Works(t, x)' PROVE Belongs(x, t)'
    BY DEF JobsOK
  <2>1. CASE x[1] = o
    BY <2>1
  <2>2. CASE x[1] # o
    <3>1. x[1] \in Orders \ {o}
      BY <2>2 DEF Job
    <3>2. Belongs(x, t)
      BY <2>2 DEF NewOnlyFor, WorkInv, JobsOK
    <3> QED BY <3>1, <3>2 DEF OnlyOne, Belongs
  <2> QED BY <2>1, <2>2
<1>2. ASSUME NEW x \in Orders \ {o} PROVE ProgressOK(x)'
  <2>1. NoMachineOf(x)
    BY DEF NewOnlyFor, NoMachineOf
  <2> QED BY <2>1, ProgressKept DEF OnlyOne, WorkInv
<1>3. BatchesOK'
  BY DEF WorkInv, BatchesOK
<1> QED BY <1>1, <1>2, <1>3 DEF WorkInv

\* The same for a step that leaves the machines alone.
LEMMA QuietStep ==
  ASSUME WorkInv, NEW o \in Orders, OnlyOne(o), UNCHANGED machines,
         \A t \in Stations, x \in Job : Works(t, x) /\ x[1] = o => Belongs(x, t)',
         ProgressOK(o)'
  PROVE  WorkInv'
<1>1. UNCHANGED <<using, waiting, pending, server>>
  BY DEF machines
<1>2. MachineTypes' /\ SlotsOK'
  BY <1>1 DEF WorkInv, MachineTypes, SlotsOK
<1>3. \A t, x : Works(t, x)' <=> Works(t, x)
  BY <1>1 DEF Works, Standing
<1>4. NewOnlyFor(o)
  BY <1>3 DEF NewOnlyFor
<1> QED BY <1>1, <1>2, <1>3, <1>4, WorkStep

\* What is at the machines for an order, seen from where it is.
LEMMA WorkOf ==
  ASSUME WorkInv, NEW o \in Orders
  PROVE  /\ at[o] \notin Making \cup {"till"} => \A t \in Stations, x \in Job : Works(t, x) => x[1] # o
         /\ at[o] \in Making \ {"station"}
              => \A t \in Stations, x \in Job : Works(t, x) /\ x[1] = o => Own(x, t)
BY DEF WorkInv, JobsOK, Belongs, Making

\* Outstanding is the work at the machines of the item.
LEMMA OutstandingIsBusy ==
  ASSUME WorkInv, NEW o \in Orders, NEW i \in DOMAIN Basket[o]
  PROVE  Outstanding(o, i) <=> Busy(o, i)
<1>0. <<o, i>> \in Job /\ <<o, i>>[1] = o /\ <<o, i>>[2] = i /\ i # 0
  BY BasketFacts DEF Job
<1>1. ASSUME NEW s \in Stations
      PROVE  <<o, i>> \in using[s] \cup ToSet(waiting[s]) <=> Standing(s, <<o, i>>)
  <2>1. DOMAIN waiting[s] = 1..Len(waiting[s])
    BY DEF WorkInv, MachineTypes
  <2> QED BY <2>1 DEF ToSet, Standing
<1>2. ASSUME NEW s \in Grouping, <<o, i>> \in pending[s] PROVE s \in Basket[o][i].alone /\ s \in Stations
  <2>1. s \in Stations
    BY CafeAssumption
  <2>2. Belongs(<<o, i>>, s)
    BY <1>0, <1>2, <2>1 DEF WorkInv, JobsOK, Works
  <2>3. s # Register
    BY CafeAssumption
  <2>4. at[o] = "station" => s # Steps(o)[step[o]].station
    <3>1. at[o] = "station" => step[o] \in DOMAIN Steps(o) /\ Steps(o)[step[o]].do = "station"
      BY DEF WorkInv, ProgressOK, Making
    <3>2. \A k \in DOMAIN Steps(o) : Steps(o)[k].do = "station" => Steps(o)[k].station \notin Grouping
      BY StepsArePlan DEF PlanOK, StepOf
    <3> QED BY <3>1, <3>2
  <2> QED BY <1>0, <2>1, <2>2, <2>3, <2>4 DEF Belongs, Own
<1>3. ASSUME Outstanding(o, i) PROVE Busy(o, i)
  <2>1. CASE \E s \in Stations : s \in Basket[o][i].alone /\ <<o, i>> \in using[s] \cup ToSet(waiting[s])
    BY <1>1, <2>1 DEF Busy, Works
  <2>2. CASE \E s \in Grouping : <<o, i>> \in pending[s]
    BY <1>2, <2>2 DEF Busy, Works
  <2> QED BY <1>3, <2>1, <2>2 DEF Outstanding
<1>4. ASSUME Busy(o, i) PROVE Outstanding(o, i)
  BY <1>1, <1>4 DEF Busy, Works, Outstanding
<1> QED BY <1>3, <1>4

\* What a customer's step does at the stations.
LEMMA OrderAndWork ==
  ASSUME StageInv, StepInv, WorkInv, NEW o \in Orders, OrderNext(o)
  PROVE  WorkInv'
<1>0. /\ at \in [Orders -> AtCounter] /\ step \in [Orders -> Nat]
      /\ MachineTypes /\ SlotsOK /\ JobsOK /\ ProgressOK(o)
  BY DEF StageInv, StepInv, WorkInv
<1>1. CASE ComeLater(o) \/ PlaceOrder(o) \/ Balk(o) \/ GoAhead(o) \/ JoinLine(o) \/ GiveUp(o)
           \/ HandOver(o)
  <2>1. /\ at[o] \in {"away", "later", "new", "line", "shelf"} /\ at'[o] \notin Making
        /\ at' = [at EXCEPT ![o] = at'[o]] /\ UNCHANGED machines /\ step' = step
    BY <1>0, <1>1 DEF ComeLater, PlaceOrder, Balk, GoAhead, JoinLine, GiveUp, HandOver, IsAt, Making
  <2>2. \A t \in Stations, x \in Job : Works(t, x) => x[1] # o
    BY <2>1, WorkOf DEF Making
  <2>3. OnlyOne(o)
    BY <1>0, <2>1 DEF OnlyOne
  <2>4. ProgressOK(o)'
    BY <2>1 DEF ProgressOK, Making
  <2> QED BY <2>1, <2>2, <2>3, <2>4, QuietStep
<1>2. CASE StepUp(o)
  <2>1. /\ at[o] = "line" /\ at' = [at EXCEPT ![o] = "till"] /\ step' = step /\ server' = server
        /\ Request(Register, <<o, 0>>) /\ UNCHANGED pending
    BY <1>2 DEF StepUp, IsAt
  <2>2. \A t \in Stations, x \in Job : Works(t, x) => x[1] # o
    BY <2>1, WorkOf DEF Making
  <2>3. Register \in Stations \ Grouping /\ <<o, 0>> \in Job /\ <<o, 0>>[1] = o /\ <<o, 0>>[2] = 0
    BY CafeAssumption DEF Job
  <2>4. ~Standing(Register, <<o, 0>>)
    BY <2>2, <2>3 DEF Works
  <2>5. /\ MachineTypes' /\ SlotsOK' /\ \A t \in Grouping : using'[t] = using[t]
        /\ \A t \in Stations, x \in Job :
             Works(t, x)' => Works(t, x) \/ (t = Register /\ x = <<o, 0>>)
    BY <1>0, <2>1, <2>3, <2>4, RequestKeeps
  <2>6. OnlyOne(o) /\ at'[o] = "till"
    BY <1>0, <2>1 DEF OnlyOne
  <2>7. NewOnlyFor(o)
    BY <2>3, <2>5 DEF NewOnlyFor
  <2>8. \A t \in Stations, x \in Job : Works(t, x)' /\ x[1] = o => Belongs(x, t)'
    BY <2>2, <2>3, <2>5, <2>6 DEF Belongs
  <2>9. ProgressOK(o)'
    BY <2>6 DEF ProgressOK, Making
  <2> QED BY <2>1, <2>5, <2>6, <2>7, <2>8, <2>9, WorkStep
<1>3. CASE RingUp(o)
  <2>1. /\ at[o] = "till" /\ at' = [at EXCEPT ![o] = "bench"] /\ step' = step /\ server' = server
        /\ <<o, 0>> \in using[Register] /\ Release(Register, <<o, 0>>) /\ UNCHANGED pending
    BY <1>3 DEF RingUp, IsAt
  <2>2. Register \in Stations \ Grouping
    BY CafeAssumption
  <2>3. /\ MachineTypes' /\ SlotsOK' /\ \A t \in Grouping : using'[t] = using[t]
        /\ \A t \in Stations, x \in Job :
             Works(t, x)' => Works(t, x) /\ ~(t = Register /\ x = <<o, 0>>)
    BY <1>0, <2>1, <2>2, ReleaseKeeps
  <2>4. OnlyOne(o) /\ at'[o] = "bench"
    BY <1>0, <2>1 DEF OnlyOne
  <2>5. NewOnlyFor(o)
    BY <2>3 DEF NewOnlyFor
  <2>6. \A t \in Stations, x \in Job : Works(t, x)' => x[1] # o
    <3> SUFFICES ASSUME NEW t \in Stations, NEW x \in Job, Works(t, x)', x[1] = o PROVE FALSE
      OBVIOUS
    <3>1. Works(t, x) /\ ~(t = Register /\ x = <<o, 0>>)
      BY <2>3
    <3>2. x[2] = 0 /\ t = Register
      BY <2>1, <3>1 DEF WorkInv, JobsOK, Belongs, Making
    <3>3. x = <<o, 0>>
      BY <3>2 DEF Job
    <3> QED BY <3>1, <3>2, <3>3
  <2>7. ProgressOK(o)'
    BY <2>4 DEF ProgressOK, Making
  <2> QED BY <2>1, <2>3, <2>4, <2>5, <2>6, <2>7, WorkStep
<1>4. CASE Begin(o)
  <2>1. /\ at[o] = "bench" /\ at' = [at EXCEPT ![o] = "make"] /\ server' = server
        /\ step' = [step EXCEPT ![o] = 1] /\ StartMachines(o)
    BY <1>4 DEF Begin, IsAt
  <2>2. \A t \in Stations, x \in Job : Works(t, x) => x[1] # o
    BY <2>1, WorkOf DEF Making
  <2>3. /\ MachineTypes' /\ SlotsOK' /\ \A t \in Grouping : using'[t] = using[t]
        /\ \A t \in Stations, x \in Job :
             Works(t, x)' => Works(t, x) \/ (x[1] = o /\ Own(x, t))
    BY <1>0, <2>1, <2>2, StartKeeps
  <2>4. OnlyOne(o) /\ at'[o] = "make" /\ step'[o] = 1
    BY <1>0, <2>1 DEF OnlyOne
  <2>5. NewOnlyFor(o)
    BY <2>3 DEF NewOnlyFor
  <2>6. \A t \in Stations, x \in Job : Works(t, x)' /\ x[1] = o => Belongs(x, t)'
    BY <2>2, <2>3, <2>4 DEF Belongs, Making
  <2>7. ProgressOK(o)'
    BY <2>4 DEF ProgressOK, Making
  <2> QED BY <2>1, <2>3, <2>4, <2>5, <2>6, <2>7, WorkStep
<1>5. CASE ToStation(o)
  <2> DEFINE e == Steps(o)[step[o]]
             j == <<o, e.item>>
  <2>1. /\ at[o] = "make" /\ at' = [at EXCEPT ![o] = "station"] /\ step' = step /\ server' = server
        /\ step[o] \in DOMAIN Steps(o) /\ e.do = "station"
        /\ Request(e.station, j) /\ UNCHANGED pending
    BY <1>5 DEF ToStation, Comes, IsAt
  <2>2. /\ e.station \in Attended \ Grouping /\ e.item \in DOMAIN Basket[o]
        /\ e.station \in Stations \ Grouping
    BY <2>1, StepsArePlan, CafeAssumption DEF PlanOK, StepOf
  <2>3. j \in Job /\ j[1] = o /\ j[2] = e.item
    BY <2>2, BasketFacts DEF Job
  <2>4. \A x \in Job : x[1] = o => ~Own(x, e.station)
    BY <2>2, BasketFacts DEF Own
  <2>5. \A t \in Stations, x \in Job : Works(t, x) /\ x[1] = o => Own(x, t)
    BY <2>1, WorkOf DEF Making
  <2> HIDE DEF e, j
  <2>6. ~Standing(e.station, j)
    BY <2>2, <2>3, <2>4, <2>5 DEF Works
  <2>7. /\ MachineTypes' /\ SlotsOK' /\ \A t \in Grouping : using'[t] = using[t]
        /\ \A t \in Stations, x \in Job : Works(t, x)' => Works(t, x) \/ (t = e.station /\ x = j)
    BY <1>0, <2>1, <2>2, <2>3, <2>6, RequestKeeps
  <2>8. OnlyOne(o) /\ at'[o] = "station" /\ step'[o] = step[o]
    BY <1>0, <2>1 DEF OnlyOne
  <2>9. NewOnlyFor(o) /\ NoMachineOf(o)
    BY <2>3, <2>4, <2>7 DEF NewOnlyFor, NoMachineOf
  <2>10. \A t \in Stations, x \in Job : Works(t, x)' /\ x[1] = o => Belongs(x, t)'
    BY <2>3, <2>5, <2>7, <2>8 DEF Belongs, Making, e
  <2>11. ProgressOK(o)'
    <3>1. \A i \in DOMAIN Basket[o] : Busy(o, i)' => Busy(o, i)
      BY <2>9, BusyShrinks
    <3>2. \A k \in 1..Len(Steps(o)) : Steps(o)[k].item \in DOMAIN Basket[o]
      BY StepsArePlan DEF PlanOK, StepOf
    <3> QED BY <1>0, <2>1, <2>8, <3>1, <3>2 DEF ProgressOK, Making, e
  <2> QED BY <2>1, <2>7, <2>8, <2>9, <2>10, <2>11, WorkStep
<1>6. CASE ToPour(o) \/ ToMachines(o)
  <2>1. /\ at[o] = "make" /\ at' = [at EXCEPT ![o] = at'[o]] /\ at'[o] \in {"pour", "machines"}
        /\ step' = step /\ UNCHANGED machines
        /\ step[o] \in DOMAIN Steps(o) /\ Steps(o)[step[o]].do = at'[o]
    BY <1>0, <1>6 DEF ToPour, ToMachines, Comes, IsAt
  <2>2. OnlyOne(o)
    BY <1>0, <2>1 DEF OnlyOne
  <2>3. \A t \in Stations, x \in Job : Works(t, x) /\ x[1] = o => Belongs(x, t)'
    BY <2>1, WorkOf DEF Making, Belongs
  <2>4. ProgressOK(o)'
    <3>1. \A i : Busy(o, i)' <=> Busy(o, i)
      BY <2>1 DEF machines, Busy, Works, Standing
    <3> QED BY <1>0, <2>1, <3>1 DEF ProgressOK, Making
  <2> QED BY <2>1, <2>2, <2>3, <2>4, QuietStep
<1>7. CASE LeaveStation(o)
  <2> DEFINE e == Steps(o)[step[o]]
             j == <<o, e.item>>
  <2>1. /\ at[o] = "station" /\ at' = [at EXCEPT ![o] = "make"]
        /\ step' = [step EXCEPT ![o] = step[o] + 1] /\ server' = server
        /\ j \in using[e.station] /\ Release(e.station, j) /\ UNCHANGED pending
    BY <1>7 DEF LeaveStation, GoesOn, IsAt
  <2>2. step[o] \in DOMAIN Steps(o) /\ e.do = "station"
    BY <1>0, <2>1 DEF ProgressOK, Making
  <2>3. e.station \in Stations \ Grouping
    BY <2>2, StepsArePlan, CafeAssumption DEF PlanOK, StepOf
  <2> HIDE DEF e, j
  <2>4. /\ MachineTypes' /\ SlotsOK' /\ \A t \in Grouping : using'[t] = using[t]
        /\ \A t \in Stations, x \in Job : Works(t, x)' => Works(t, x) /\ ~(t = e.station /\ x = j)
    BY <1>0, <2>1, <2>3, ReleaseKeeps
  <2>5. OnlyOne(o) /\ at'[o] = "make" /\ step'[o] = step[o] + 1
    BY <1>0, <2>1 DEF OnlyOne
  <2>6. NewOnlyFor(o) /\ NoMachineOf(o)
    BY <2>4 DEF NewOnlyFor, NoMachineOf
  <2>7. \A t \in Stations, x \in Job : Works(t, x)' /\ x[1] = o => Belongs(x, t)'
    <3> SUFFICES ASSUME NEW t \in Stations, NEW x \in Job, Works(t, x)', x[1] = o
                 PROVE  Own(x, t)
      BY <2>5 DEF Belongs, Making
    <3>1. Works(t, x) /\ ~(t = e.station /\ x = j)
      BY <2>4
    <3>2. Belongs(x, t)
      BY <1>0, <3>1 DEF JobsOK
    <3>3. x = <<x[1], x[2]>>
      BY DEF Job
    <3>4. ~(t = e.station /\ x[2] = e.item)
      BY <3>1, <3>3 DEF j
    <3> QED BY <2>1, <3>2, <3>4 DEF Belongs, e
  <2>8. ProgressOK(o)'
    <3>1. \A i \in DOMAIN Basket[o] : Busy(o, i)' => Busy(o, i)
      BY <2>6, BusyShrinks
    <3>2. \A k \in 1..Len(Steps(o)) : k \in Nat /\ Steps(o)[k].item \in DOMAIN Basket[o]
      BY StepsArePlan DEF PlanOK, StepOf
    <3>3. step[o] \in Nat
      BY <1>0
    <3>4. \A k \in 1..Len(Steps(o)) : k < step[o] + 1 => k < step[o] \/ k = step[o]
      BY <3>2, <3>3
    <3>5. \A k \in 1..Len(Steps(o)) : k < step[o] /\ Steps(o)[k].do = "machines" => ~Busy(o, Steps(o)[k].item)
      BY <1>0, <2>1 DEF ProgressOK, Making
    <3> QED BY <2>2, <2>5, <3>1, <3>2, <3>3, <3>4, <3>5 DEF ProgressOK, Making, e
  <2> QED BY <2>1, <2>4, <2>5, <2>6, <2>7, <2>8, WorkStep
<1>8. CASE Pour(o) \/ Regain(o)
  <2>1. /\ at[o] \in {"pour", "regain"} /\ at' = [at EXCEPT ![o] = "make"]
        /\ step' = [step EXCEPT ![o] = step[o] + 1] /\ UNCHANGED machines
    BY <1>8 DEF Pour, Regain, GoesOn, IsAt
  <2>2. OnlyOne(o) /\ at'[o] = "make" /\ step'[o] = step[o] + 1
    BY <1>0, <2>1 DEF OnlyOne
  <2>3. \A t \in Stations, x \in Job : Works(t, x) /\ x[1] = o => Belongs(x, t)'
    BY <2>1, <2>2, WorkOf DEF Making, Belongs
  <2>4. ProgressOK(o)'
    <3>1. \A i : Busy(o, i)' <=> Busy(o, i)
      BY <2>1 DEF machines, Busy, Works, Standing
    <3>2. \A k \in 1..Len(Steps(o)) : k < step[o] + 1 => k < step[o] \/ k = step[o]
      BY <1>0, StepsArePlan
    <3>3. \A k \in 1..Len(Steps(o)) : k < step[o] /\ Steps(o)[k].do = "machines" => ~Busy(o, Steps(o)[k].item)
      BY <1>0, <2>1 DEF ProgressOK, Making
    <3>4. Steps(o)[step[o]].do = "machines" => ~Busy(o, Steps(o)[step[o]].item)
      BY <1>0, <2>1 DEF ProgressOK, Making
    <3>5. step[o] + 1 \in Nat \ {0}
      BY <1>0
    <3> QED BY <2>2, <3>1, <3>2, <3>3, <3>4, <3>5 DEF ProgressOK, Making
  <2> QED BY <2>1, <2>2, <2>3, <2>4, QuietStep
<1>9. CASE MachinesDone(o)
  <2>1. /\ at[o] = "machines" /\ at' = [at EXCEPT ![o] = "regain"] /\ step' = step
        /\ UNCHANGED machines /\ ~Outstanding(o, Steps(o)[step[o]].item)
    BY <1>9 DEF MachinesDone, IsAt
  <2>2. OnlyOne(o) /\ at'[o] = "regain"
    BY <1>0, <2>1 DEF OnlyOne
  <2>3. \A t \in Stations, x \in Job : Works(t, x) /\ x[1] = o => Belongs(x, t)'
    BY <2>1, <2>2, WorkOf DEF Making, Belongs
  <2>4. step[o] \in DOMAIN Steps(o) /\ Steps(o)[step[o]].do = "machines"
    BY <1>0, <2>1 DEF ProgressOK, Making
  <2>5. ~Busy(o, Steps(o)[step[o]].item)
    <3>1. Steps(o)[step[o]].item \in DOMAIN Basket[o]
      BY <2>4, StepsArePlan DEF PlanOK, StepOf
    <3> QED BY <2>1, <3>1, OutstandingIsBusy
  <2>6. ProgressOK(o)'
    <3>1. \A i : Busy(o, i)' <=> Busy(o, i)
      BY <2>1 DEF machines, Busy, Works, Standing
    <3> QED BY <1>0, <2>1, <2>2, <2>4, <2>5, <3>1 DEF ProgressOK, Making
  <2> QED BY <2>1, <2>2, <2>3, <2>6, QuietStep
<1>10. CASE Finish(o)
  <2>1. /\ at[o] = "make" /\ at' = [at EXCEPT ![o] = "shelf"] /\ step' = step
        /\ UNCHANGED machines /\ step[o] \notin DOMAIN Steps(o)
    BY <1>10 DEF Finish, IsAt
  <2>2. OnlyOne(o) /\ at'[o] = "shelf"
    BY <1>0, <2>1 DEF OnlyOne
  <2>3. \A t \in Stations, x \in Job : Works(t, x) => x[1] # o
    <3> SUFFICES ASSUME NEW t \in Stations, NEW x \in Job, Works(t, x), x[1] = o PROVE FALSE
      OBVIOUS
    <3>1. Own(x, t)
      BY <2>1, WorkOf DEF Making
    <3>2. x[2] \in DOMAIN Basket[o] /\ t \in Basket[o][x[2]].alone
      BY <3>1 DEF Own
    <3>3. Busy(o, x[2])
      <4>1. x = <<o, x[2]>>
        BY DEF Job
      <4> QED BY <3>2, <4>1 DEF Busy
    <3>4. PICK k \in 1..Len(Steps(o)) : MachinesOf(Steps(o)[k], x[2])
      BY <3>2, StepsArePlan DEF PlanOK
    <3>5. k < step[o]
      BY <1>0, <2>1, StepsArePlan DEF ProgressOK, Making
    <3> QED BY <1>0, <2>1, <3>3, <3>4, <3>5 DEF ProgressOK, Making, MachinesOf
  <2>4. ProgressOK(o)'
    BY <2>2 DEF ProgressOK, Making
  <2> QED BY <2>1, <2>2, <2>3, <2>4, QuietStep
<1> QED BY <1>1, <1>2, <1>3, <1>4, <1>5, <1>6, <1>7, <1>8, <1>9, <1>10 DEF OrderNext

\* A step of a machine, a server or the planner only does away with work.
LEMMA MachineStep ==
  ASSUME WorkInv, UNCHANGED <<at, step>>, MachineTypes', SlotsOK', BatchesOK',
         \A t \in Stations, x \in Job : Works(t, x)' => Works(t, x)
  PROVE  WorkInv'
<1>1. JobsOK'
  BY DEF WorkInv, JobsOK, Belongs
<1>2. ASSUME NEW o \in Orders PROVE ProgressOK(o)'
  <2>1. NoMachineOf(o)
    BY DEF NoMachineOf
  <2> QED BY <2>1, ProgressKept DEF WorkInv
<1> QED BY <1>1, <1>2 DEF WorkInv

\* The end of a machine's cycle keeps the invariant of the work.
LEMMA EndCycleAndWork ==
  ASSUME WorkInv, NEW s \in Stations, EndCycle(s)
  PROVE  WorkInv'
<1>1. PICK j \in using[s] : Release(s, j)
  BY DEF EndCycle
<1>2. s \in Stations \ Grouping /\ UNCHANGED <<at, step, pending, server>>
  BY DEF EndCycle, customer
<1>3. /\ MachineTypes' /\ SlotsOK' /\ \A t \in Grouping : using'[t] = using[t]
      /\ \A t \in Stations, x \in Job : Works(t, x)' => Works(t, x)
  BY <1>1, <1>2, ReleaseKeeps DEF WorkInv
<1>4. BatchesOK'
  BY <1>2, <1>3 DEF WorkInv, BatchesOK
<1> QED BY <1>2, <1>3, <1>4, MachineStep

\* A step of a station's server keeps it.
LEMMA ServerAndWork ==
  ASSUME RoleInv, WorkInv, NEW s \in Grouping, ServerNext(s)
  PROVE  WorkInv'
<1>0. /\ s \in Stations /\ MachineTypes /\ SlotsOK /\ BatchesOK
      /\ server \in [Grouping -> {"idle", "called", "running"}]
  BY CafeAssumption DEF WorkInv, RoleInv
<1>1. CASE CallBarista(s)
  <2>1. /\ UNCHANGED <<at, step, using, waiting, pending>> /\ server[s] = "idle"
        /\ server' = [server EXCEPT ![s] = "called"]
    BY <1>1 DEF CallBarista, customer
  <2>2. MachineTypes' /\ SlotsOK' /\ \A t \in Stations, x \in Job : Works(t, x)' => Works(t, x)
    BY <1>0, <2>1 DEF MachineTypes, SlotsOK, Works, Standing
  <2>3. BatchesOK'
    BY <1>0, <2>1 DEF BatchesOK
  <2> QED BY <2>1, <2>2, <2>3, MachineStep
<1>2. CASE StartBatch(s)
  <2>1. PICK batch \in SUBSET pending[s] :
          /\ using' = [using EXCEPT ![s] = batch]
          /\ pending' = [pending EXCEPT ![s] = pending[s] \ batch]
    BY <1>2 DEF StartBatch
  <2>2. UNCHANGED <<at, step, waiting>> /\ server' = [server EXCEPT ![s] = "running"]
    BY <1>2 DEF StartBatch, customer
  <2>3. MachineTypes'
    BY <1>0, <2>1, <2>2 DEF MachineTypes
  <2>4. SlotsOK'
    BY <1>0, <2>1, <2>2 DEF MachineTypes, SlotsOK
  <2>5. BatchesOK'
    BY <1>0, <2>1, <2>2 DEF MachineTypes, BatchesOK
  <2>6. \A t \in Stations, x \in Job : Works(t, x)' => Works(t, x)
    BY <1>0, <2>1, <2>2 DEF MachineTypes, Works, Standing
  <2> QED BY <2>2, <2>3, <2>4, <2>5, <2>6, MachineStep
<1>3. CASE EndBatch(s)
  <2>1. /\ UNCHANGED <<at, step, waiting, pending>> /\ using' = [using EXCEPT ![s] = {}]
        /\ \E to \in {"idle", "called"} : server' = [server EXCEPT ![s] = to]
    BY <1>3 DEF EndBatch, customer
  <2>2. MachineTypes' /\ SlotsOK'
    BY <1>0, <2>1 DEF MachineTypes, SlotsOK
  <2>3. BatchesOK'
    BY <1>0, <2>1 DEF MachineTypes, BatchesOK
  <2>4. \A t \in Stations, x \in Job : Works(t, x)' => Works(t, x)
    BY <1>0, <2>1 DEF MachineTypes, Works, Standing
  <2> QED BY <2>1, <2>2, <2>3, <2>4, MachineStep
<1> QED BY <1>1, <1>2, <1>3 DEF ServerNext

\* So does a step that touches no station.
LEMMA NobodyAndWork ==
  ASSUME WorkInv, UNCHANGED <<at, step, using, waiting, pending, server>>
  PROVE  WorkInv'
<1>1. MachineTypes' /\ SlotsOK' /\ \A t \in Stations, x \in Job : Works(t, x)' => Works(t, x)
  BY DEF WorkInv, MachineTypes, SlotsOK, Works, Standing
<1>2. BatchesOK'
  BY DEF WorkInv, BatchesOK
<1> QED BY <1>1, <1>2, MachineStep

\* Every step keeps it.
LEMMA WorkIsKept == StageInv /\ StepInv /\ CrewInv /\ WorkInv /\ [Next]_vars => WorkInv'
<1> SUFFICES ASSUME StageInv, StepInv, CrewInv, WorkInv, [Next]_vars PROVE WorkInv'
  OBVIOUS
<1>1. ASSUME NEW o \in Orders, OrderNext(o) PROVE WorkInv'
  BY <1>1, OrderAndWork
<1>2. ASSUME NEW s \in Stations, EndCycle(s) PROVE WorkInv'
  BY <1>2, EndCycleAndWork
<1>3. ASSUME NEW s \in Grouping, ServerNext(s) PROVE WorkInv'
  BY <1>3, ServerAndWork DEF CrewInv
<1>4. CASE PlannerNext
  <2>1. UNCHANGED <<at, step, using, waiting, pending, server>>
    BY <1>4 DEF PlannerNext, BlockStarts, NextBlock, SendBack, CallOff, TakeOff, Staffed,
                customer, machines
  <2> QED BY <2>1, NobodyAndWork
<1>5. CASE UNCHANGED vars
  <2>1. UNCHANGED <<at, step, using, waiting, pending, server>>
    BY <1>5 DEF vars
  <2> QED BY <2>1, NobodyAndWork
<1> QED BY <1>1, <1>2, <1>3, <1>4, <1>5 DEF Next

\* From the first to the last step of the day every piece of work at a station is of
\* an order that waits for it, no slot is given twice and no plan is out of order.
THEOREM WorkIsInOrder == Spec => [](StageInv /\ CrewInv /\ WorkInv)
<1>1. Init => WorkInv
  <2> SUFFICES ASSUME Init PROVE WorkInv
    OBVIOUS
  <2>1. MachineTypes
    BY DEF Init, MachineTypes
  <2>2. SlotsOK
    <3> SUFFICES ASSUME NEW s \in Stations \ Grouping
                 PROVE  Fits(using[s], waiting[s], Capacity[s])
      BY DEF SlotsOK
    <3>1. using[s] = {} /\ waiting[s] = <<>> /\ Capacity[s] \in Nat
      BY CafeAssumption DEF Init
    <3> QED BY <3>1, FS_EmptySet DEF Fits
  <2>3. \A s \in Stations, j \in Job : ~Works(s, j)
    BY DEF Init, Works, Standing
  <2>4. JobsOK
    BY <2>3 DEF JobsOK
  <2>5. BatchesOK
    BY CafeAssumption DEF Init, BatchesOK
  <2>6. \A o \in Orders : ProgressOK(o)
    BY DEF Init, ProgressOK, Making
  <2> QED BY <2>1, <2>2, <2>4, <2>5, <2>6 DEF WorkInv
<1> QED BY <1>1, WorkIsKept, CrewIsInOrder, StepsInOrder, PTL DEF Spec

-----------------------------------------------------------------------------
(* The properties of the cafe that rest on it. *)

\* Every variable of the simulator has its type on every day.
THEOREM CafeIsTyped == Spec => []CafeTypeOK
<1>1. StageInv /\ StepInv /\ CrewInv /\ WorkInv /\ BlockTypes => CafeTypeOK
  BY DEF StageInv, StepInv, CrewInv, PoolOK, PoolTypes, RoleInv, WorkInv, MachineTypes,
         BlockTypes, CafeTypeOK
<1>2. Init => BlockTypes
  <2> SUFFICES ASSUME Init PROVE BlockTypes
    OBVIOUS
  <2>1. Staffing \in Seq(Nat) /\ Staffing # <<>>
    BY CafeAssumption
  <2>2. 1 \in DOMAIN Staffing
    BY <2>1
  <2> QED BY <2>2 DEF Init, BlockTypes
<1> QED BY <1>1, <1>2, BlocksStep, WorkIsInOrder, StepsInOrder, PTL DEF Spec

\* A person first and the machine second: whoever holds an attended station or stands
\* in line for one has a barista, so crew and machines never wait for each other.
THEOREM ThePersonComesFirst == Spec => []PersonBeforeMachine
<1>1. StageInv /\ CrewInv /\ WorkInv => PersonBeforeMachine
  <2> SUFFICES ASSUME StageInv, CrewInv, WorkInv PROVE PersonBeforeMachine
    OBVIOUS
  <2>1. ASSUME NEW o \in Orders, NEW s \in Attended \ Grouping,
               NEW j \in using[s] \cup ToSet(waiting[s]), j[1] = o
        PROVE  hands[o] # Nobody
    <3>1. s \in Stations
      BY CafeAssumption
    <3>2. j \in Job /\ Works(s, j)
      <4>1. using[s] \in SUBSET Job /\ waiting[s] \in Seq(Job)
        BY <3>1 DEF WorkInv, MachineTypes
      <4> QED BY <2>1, <4>1 DEF Works, Standing, ToSet
    <3>3. Belongs(j, s)
      BY <3>1, <3>2 DEF WorkInv, JobsOK
    <3>4. ~Own(j, s)
      BY <2>1, <3>1, BasketFacts DEF Own
    <3>5. Role(o) = "works"
      BY <2>1, <3>3, <3>4 DEF Belongs, Role, OrderRole
    <3> QED BY <3>5 DEF CrewInv, RoleInv, RoleOK, Procs
  <2>2. ASSUME NEW s \in Attended \cap Grouping, using[s] # {} PROVE hands[s] # Nobody
    <3>1. server[s] = "running"
      BY <2>2 DEF WorkInv, BatchesOK
    <3>2. s \in Procs /\ s \notin Orders
      BY CafeAssumption DEF Procs
    <3>3. Role(s) = "works"
      BY <3>1, <3>2 DEF Role, ServerRole
    <3> QED BY <3>2, <3>3 DEF CrewInv, RoleInv, RoleOK
  <2> QED BY <2>1, <2>2 DEF PersonBeforeMachine
<1> QED BY <1>1, WorkIsInOrder, PTL

\* No barista stands idle while a process waits for one, and no slot of a station
\* while a request for it is in line.
THEOREM WorkIsPassedOn == Spec => []NothingStandsIdle
<1>1. CrewInv /\ WorkInv => NothingStandsIdle
  <2> SUFFICES ASSUME CrewInv, WorkInv PROVE NothingStandsIdle
    OBVIOUS
  <2>1. crewQ # <<>> => crew = {}
    BY DEF CrewInv, PoolOK, LineOK
  <2>2. ASSUME NEW s \in Stations \ Grouping
        PROVE  Cardinality(using[s]) <= Capacity[s] /\ (waiting[s] # <<>> => ~HasRoom(s))
    <3>1. Fits(using[s], waiting[s], Capacity[s]) /\ Capacity[s] \in Nat
      BY CafeAssumption DEF WorkInv, SlotsOK
    <3> QED BY <3>1 DEF Fits, HasRoom
  <2> QED BY <2>1, <2>2 DEF NothingStandsIdle
<1> QED BY <1>1, WorkIsInOrder, PTL

\* Machines work for an order only while it is being made: nothing is assembled before
\* its machines are done, ready means all of it is, and nobody who left has a cycle running.
THEOREM NothingRunsForNobody == Spec => []NoLooseWork
<1>1. StageInv /\ WorkInv => NoLooseWork
  <2> SUFFICES ASSUME StageInv, WorkInv, NEW o \in Orders
               PROVE  /\ state[o] # "in_progress" => \A i \in DOMAIN Basket[o] : ~Outstanding(o, i)
                      /\ at[o] = "pour" => ~Outstanding(o, Steps(o)[step[o]].item)
    BY DEF NoLooseWork
  <2>1. ASSUME NEW i \in DOMAIN Basket[o], Outstanding(o, i) PROVE state[o] = "in_progress"
    <3>1. PICK s \in Stations : s \in Basket[o][i].alone /\ Works(s, <<o, i>>)
      BY <2>1, OutstandingIsBusy DEF Busy
    <3>2. <<o, i>> \in Job /\ <<o, i>>[1] = o /\ <<o, i>>[2] = i /\ i # 0
      BY BasketFacts DEF Job
    <3>3. at[o] \in Making
      BY <3>1, <3>2 DEF WorkInv, JobsOK, Belongs, Making
    <3> QED BY <3>3 DEF StageInv, StagesAt, Making
  <2>2. ASSUME at[o] = "pour" PROVE ~Outstanding(o, Steps(o)[step[o]].item)
    <3> DEFINE k == step[o]
               i == Steps(o)[k].item
    <3>1. k \in DOMAIN Steps(o) /\ Steps(o)[k].do = "pour"
      BY <2>2 DEF WorkInv, ProgressOK, Making
    <3>2. i \in DOMAIN Basket[o] /\ k \in 1..Len(Steps(o))
      BY <3>1, StepsArePlan DEF PlanOK, StepOf
    <3>3. CASE Basket[o][i].alone = {}
      BY <3>2, <3>3, OutstandingIsBusy DEF Busy
    <3>4. CASE Basket[o][i].alone # {}
      <4>1. PICK m \in 1..(k - 1) : MachinesOf(Steps(o)[m], i)
        BY <3>1, <3>2, <3>4, StepsArePlan DEF PlanOK
      <4>2. m \in 1..Len(Steps(o)) /\ m < k
        BY <3>2, StepsArePlan
      <4>3. ~Busy(o, i)
        BY <2>2, <4>1, <4>2 DEF WorkInv, ProgressOK, Making, MachinesOf
      <4> QED BY <3>2, <4>3, OutstandingIsBusy
    <3> QED BY <3>3, <3>4
  <2> QED BY <2>1, <2>2
<1> QED BY <1>1, WorkIsInOrder, PTL
=============================================================================
