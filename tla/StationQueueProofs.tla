------------------------- MODULE StationQueueProofs -------------------------
(***************************************************************************)
(* What the operators of Policies and StationCapacity return, for any        *)
(* station, queue and policy: who is left when a batch is taken, what a      *)
(* batch is made of, and that the station runs it as one.                    *)
(***************************************************************************)
EXTENDS StationQueue, Folding

-----------------------------------------------------------------------------
(* The elements of a sequence that are in a set *)

\* One step of a fold over a sequence.
LEMMA OneStep ==
  ASSUME NEW s, Len(s) \in Nat, NEW steps, NEW base, NEW op, Stepwise(steps, base, op, s),
         NEW k \in 0..(Len(s) - 1)
  PROVE  steps[k + 1] = op[<<steps[k], s[k + 1]>>]
<1>1. k + 1 \in 1..Len(s) /\ k + 1 - 1 = k
  OBVIOUS
<1> QED BY <1>1 DEF Stepwise

Sieve(E, T) == [p \in Seq(E) \X E |-> IF p[2] \in T THEN Append(p[1], p[2]) ELSE p[1]]

\* What one step of Among does.
LEMMA SieveType ==
  ASSUME NEW E, NEW T
  PROVE  <<>> \in Seq(E) /\ Sieve(E, T) \in [Seq(E) \X E -> Seq(E)]
BY DEF Sieve

\* Among goes through the sequence element by element.
LEMMA AmongFolds ==
  ASSUME NEW E, NEW s \in Seq(E), NEW T
  PROVE  FoldedTo(Among(s, T), <<>>, Sieve(E, T), s, Seq(E))
<1> DEFINE P(h) == h = [I \in SUBSET DOMAIN s |->
                          IF I = {} THEN <<>>
                          ELSE IF s[Max(I)] \in T THEN Append(h[I \ {Max(I)}], s[Max(I)])
                          ELSE h[I \ {Max(I)}]]
           g == CHOOSE h : P(h)
<1>1. /\ DOMAIN s = 1..Len(s) /\ Len(s) \in Nat
      /\ \A i \in 1..Len(s) : s[i] \in E
      /\ \A I \in SUBSET (1..Len(s)) : I # {} => Max(I) \in I
  BY GreatestIndex
<1>2. P(g)
  <2>1. PICK run \in [SUBSET (1..Len(s)) -> Seq(E)] : LeftRun(run, <<>>, Sieve(E, T), s)
    BY SieveType, LeftExists DEF LeftSolvable
  <2>2. ASSUME NEW I \in SUBSET (1..Len(s)), I # {}
        PROVE  run[I] = IF s[Max(I)] \in T THEN Append(run[I \ {Max(I)}], s[Max(I)])
                        ELSE run[I \ {Max(I)}]
    <3>1. run[I] = Sieve(E, T)[<<run[I \ {Max(I)}], s[Max(I)]>>]
      BY <2>1, <2>2 DEF LeftRun
    <3>2. run[I \ {Max(I)}] \in Seq(E) /\ s[Max(I)] \in E
      BY <1>1, <2>2
    <3> QED BY <3>1, <3>2 DEF Sieve
  <2>3. run[{}] = <<>>
    BY <2>1 DEF LeftRun
  <2>4. P(run)
    BY <1>1, <2>2, <2>3
  <2> HIDE DEF P
  <2> QED BY <2>4, Zenon
<1>3. Among(s, T) = g[1..Len(s)]
  BY <1>1 DEF Among, FoldLeft, MapThenFoldSet
<1>4. LeftLike(g, <<>>, Sieve(E, T), s, Seq(E))
  <2> HIDE DEF g
  <2>1. g[{}] = <<>>
    BY <1>2
  <2>2. ASSUME NEW I \in SUBSET (1..Len(s)), I # {}, g[I \ {Max(I)}] \in Seq(E)
        PROVE  g[I] = Sieve(E, T)[<<g[I \ {Max(I)}], s[Max(I)]>>]
    <3>1. g[I] = IF s[Max(I)] \in T THEN Append(g[I \ {Max(I)}], s[Max(I)])
                 ELSE g[I \ {Max(I)}]
      BY <1>1, <1>2, <2>2
    <3>2. s[Max(I)] \in E
      BY <1>1, <2>2
    <3> QED BY <2>2, <3>1, <3>2 DEF Sieve
  <2> QED BY <2>1, <2>2 DEF LeftLike
<1> QED
  <2> HIDE DEF g
  <2>1. FoldedTo(g[1..Len(s)], <<>>, Sieve(E, T), s, Seq(E))
    BY <1>4, SieveType, LeftStepwise, Zenon
  <2> QED BY <1>3, <2>1

\* r is what s has of T among its first k elements, in order: f says where each
\* element comes from, and an element that was left out moves those behind it up.
DrawnBy(f, r, s, T, k) ==
  /\ f \in [1..Len(r) -> 1..k]
  /\ \A j \in 1..Len(r) : r[j] = s[f[j]] /\ r[j] \in T /\ j <= f[j]
  /\ \A i, j \in 1..Len(r) : i < j => f[i] < f[j]
  /\ \A i \in 1..k : s[i] \in T => \E j \in 1..Len(r) : f[j] = i
  /\ Len(r) <= k
  /\ k # 0 /\ s[1] \notin T => Len(r) < k /\ \A j \in 1..Len(r) : j < f[j]

Drawn(r, s, T, k) == \E f : DrawnBy(f, r, s, T, k)

\* One element more is drawn or passed over.
LEMMA DrawOne ==
  ASSUME NEW E, NEW s \in Seq(E), NEW T, NEW k \in Nat, k + 1 <= Len(s),
         NEW r \in Seq(E), Drawn(r, s, T, k),
         NEW q \in Seq(E), q = IF s[k + 1] \in T THEN Append(r, s[k + 1]) ELSE r
  PROVE  Drawn(q, s, T, k + 1)
<1>1. PICK f : DrawnBy(f, r, s, T, k)
  BY DEF Drawn
<1>2. /\ f \in [1..Len(r) -> 1..k] /\ Len(r) \in Nat /\ Len(r) <= k
      /\ \A j \in 1..Len(r) : r[j] = s[f[j]] /\ r[j] \in T /\ j <= f[j]
      /\ \A i, j \in 1..Len(r) : i < j => f[i] < f[j]
      /\ \A i \in 1..k : s[i] \in T => \E j \in 1..Len(r) : f[j] = i
      /\ k # 0 /\ s[1] \notin T => Len(r) < k /\ \A j \in 1..Len(r) : j < f[j]
  BY <1>1 DEF DrawnBy
<1>3. CASE s[k + 1] \in T
  <2> DEFINE g == [j \in 1..(Len(r) + 1) |-> IF j = Len(r) + 1 THEN k + 1 ELSE f[j]]
  <2>1. /\ Len(q) = Len(r) + 1 /\ q[Len(r) + 1] = s[k + 1]
        /\ \A j \in 1..Len(r) : q[j] = r[j]
    <3>1. q = Append(r, s[k + 1]) /\ s[k + 1] \in E
      BY <1>3
    <3> QED BY <3>1
  <2>2. /\ g[Len(r) + 1] = k + 1 /\ \A j \in 1..Len(r) : g[j] = f[j]
        /\ g \in [1..(Len(r) + 1) -> 1..(k + 1)]
    BY <1>2
  <2> HIDE DEF g
  <2>3. \A j \in 1..Len(q) : q[j] = s[g[j]] /\ q[j] \in T /\ j <= g[j]
    BY <1>2, <1>3, <2>1, <2>2
  <2>4. \A i, j \in 1..Len(q) : i < j => g[i] < g[j]
    BY <1>2, <2>1, <2>2, SMTT(30)
  <2>5. ASSUME NEW i \in 1..(k + 1), s[i] \in T PROVE \E j \in 1..Len(q) : g[j] = i
    <3>1. CASE i = k + 1
      BY <1>2, <2>1, <2>2, <3>1
    <3>2. CASE i # k + 1
      <4>1. PICK j \in 1..Len(r) : f[j] = i
        BY <1>2, <2>5, <3>2
      <4> QED BY <1>2, <2>1, <2>2, <4>1
    <3> QED BY <3>1, <3>2
  <2>6. ASSUME s[1] \notin T PROVE Len(q) < k + 1 /\ \A j \in 1..Len(q) : j < g[j]
    <3>1. k # 0
      BY <1>3, <2>6
    <3> QED BY <1>2, <2>1, <2>2, <2>6, <3>1
  <2> QED BY <1>2, <2>1, <2>2, <2>3, <2>4, <2>5, <2>6, SMTT(30) DEF Drawn, DrawnBy
<1>4. CASE s[k + 1] \notin T
  <2>1. q = r /\ f \in [1..Len(r) -> 1..(k + 1)]
    BY <1>2, <1>4
  <2>2. ASSUME NEW i \in 1..(k + 1), s[i] \in T PROVE \E j \in 1..Len(r) : f[j] = i
    BY <1>2, <1>4, <2>2
  <2>3. ASSUME s[1] \notin T PROVE Len(r) < k + 1 /\ \A j \in 1..Len(r) : j < f[j]
    BY <1>2, <2>3
  <2>4. DrawnBy(f, r, s, T, k + 1)
    BY <1>2, <2>1, <2>2, <2>3 DEF DrawnBy
  <2> QED BY <2>1, <2>4 DEF Drawn
<1> QED BY <1>3, <1>4

\* What Among returns.
LEMMA AmongIsDrawn ==
  ASSUME NEW E, NEW s \in Seq(E), NEW T
  PROVE  Among(s, T) \in Seq(E) /\ Drawn(Among(s, T), s, T, Len(s))
<1> DEFINE n == Len(s)
<1>1. PICK steps \in [0..n -> Seq(E)] :
        Stepwise(steps, <<>>, Sieve(E, T), s) /\ Among(s, T) = steps[n]
  BY AmongFolds DEF FoldedTo
<1>2. n \in Nat /\ \A i \in 1..n : s[i] \in E
  OBVIOUS
<1> DEFINE Good == {k \in 0..n : Drawn(steps[k], s, T, k)}
<1>3. 0 \in Good
  <2>1. steps[0] = <<>>
    BY <1>1 DEF Stepwise
  <2>2. DrawnBy([j \in 1..0 |-> 0], <<>>, s, T, 0)
    BY DEF DrawnBy
  <2> QED BY <1>2, <2>1, <2>2 DEF Drawn
<1>4. ASSUME NEW k \in 0..(n - 1), k \in Good PROVE k + 1 \in Good
  <2>1. k + 1 \in 1..n /\ k + 1 - 1 = k /\ k \in Nat /\ k \in 0..n /\ k + 1 \in 0..n
    BY <1>2
  <2>2. steps[k + 1] = Sieve(E, T)[<<steps[k], s[k + 1]>>]
    BY <1>1, <2>1 DEF Stepwise
  <2>3. steps[k] \in Seq(E) /\ steps[k + 1] \in Seq(E) /\ s[k + 1] \in E
    BY <1>1, <1>2, <2>1
  <2>4. steps[k + 1] = IF s[k + 1] \in T THEN Append(steps[k], s[k + 1]) ELSE steps[k]
    BY <2>2, <2>3 DEF Sieve
  <2>5. Drawn(steps[k], s, T, k)
    BY <1>4
  <2>6. Drawn(steps[k + 1], s, T, k + 1)
    BY <2>1, <2>3, <2>4, <2>5, DrawOne, SMTT(30)
  <2> QED BY <2>1, <2>6
<1>5. 0..n \subseteq Good
  <2> HIDE DEF Good
  <2> QED BY <1>2, <1>3, <1>4, AllUpTo
<1>6. Drawn(steps[n], s, T, n)
  BY <1>2, <1>5
<1> QED BY <1>1, <1>2, <1>6

\* If everything is in the set, nothing is left out.
LEMMA AmongAll ==
  ASSUME NEW E, NEW s \in Seq(E), NEW T, \A i \in 1..Len(s) : s[i] \in T
  PROVE  Among(s, T) = s
<1> DEFINE n == Len(s)
<1>1. PICK steps \in [0..n -> Seq(E)] :
        Stepwise(steps, <<>>, Sieve(E, T), s) /\ Among(s, T) = steps[n]
  BY AmongFolds DEF FoldedTo
<1>2. n \in Nat /\ \A i \in 1..n : s[i] \in E
  OBVIOUS
<1> DEFINE Good == {k \in 0..n : steps[k] = SubSeq(s, 1, k)}
<1>3. 0 \in Good
  <2>1. steps[0] = <<>>
    BY <1>1 DEF Stepwise
  <2> QED BY <1>2, <2>1
<1>4. ASSUME NEW k \in 0..(n - 1), k \in Good PROVE k + 1 \in Good
  <2>1. k + 1 \in 1..n /\ k + 1 - 1 = k /\ k \in 0..n /\ k + 1 \in 0..n
    BY <1>2
  <2>2. steps[k + 1] = Sieve(E, T)[<<steps[k], s[k + 1]>>]
    BY <1>1, <2>1 DEF Stepwise
  <2>3. steps[k] \in Seq(E) /\ s[k + 1] \in E
    BY <1>1, <1>2, <2>1
  <2>4. steps[k + 1] = Append(steps[k], s[k + 1])
    BY <2>1, <2>2, <2>3 DEF Sieve
  <2>5. steps[k] = SubSeq(s, 1, k)
    BY <1>4
  <2>6. Append(SubSeq(s, 1, k), s[k + 1]) = SubSeq(s, 1, k + 1)
    BY <2>1
  <2> QED BY <2>1, <2>4, <2>5, <2>6
<1>5. 0..n \subseteq Good
  <2> HIDE DEF Good
  <2> QED BY <1>2, <1>3, <1>4, AllUpTo
<1>6. steps[n] = SubSeq(s, 1, n)
  BY <1>2, <1>5
<1> QED BY <1>1, <1>6
-----------------------------------------------------------------------------
(* What a policy takes out of the queue *)

Joins(st, head, b, e) ==
  /\ e.since - head.since <= Lookahead
  /\ Compatible(st, ItemsOf(b), e.item)

Growing(E, st, head) ==
  [p \in Seq(E) \X E |-> IF Joins(st, head, p[1], p[2]) THEN Append(p[1], p[2]) ELSE p[1]]

\* What one step of Grow does.
LEMMA GrowingType ==
  ASSUME NEW E, NEW st, NEW head \in E
  PROVE  <<head>> \in Seq(E) /\ Growing(E, st, head) \in [Seq(E) \X E -> Seq(E)]
BY DEF Growing

\* Grow goes through those behind its head one by one.
LEMMA GrowFolds ==
  ASSUME NEW E, NEW st, NEW q \in Seq(E), NEW h, q[h] \in E, RemoveAt(q, h) \in Seq(E)
  PROVE  FoldedTo(Grow(st, q, h), <<q[h]>>, Growing(E, st, q[h]), RemoveAt(q, h), Seq(E))
<1> DEFINE s == RemoveAt(q, h)
           head == q[h]
           P(f) == f = [I \in SUBSET DOMAIN s |->
                          IF I = {} THEN <<head>>
                          ELSE IF Joins(st, head, f[I \ {Max(I)}], s[Max(I)])
                               THEN Append(f[I \ {Max(I)}], s[Max(I)])
                               ELSE f[I \ {Max(I)}]]
           g == CHOOSE f : P(f)
<1>1. /\ DOMAIN s = 1..Len(s) /\ Len(s) \in Nat
      /\ \A i \in 1..Len(s) : s[i] \in E
      /\ \A I \in SUBSET (1..Len(s)) : I # {} => Max(I) \in I
  BY GreatestIndex
<1>2. Grow(st, q, h) = g[1..Len(s)]
  BY <1>1 DEF Grow, FoldLeft, MapThenFoldSet, Joins
<1> HIDE DEF s, head
<1>3. head \in E /\ s \in Seq(E)
  BY DEF head, s
<1>4. P(g)
  <2>1. PICK run \in [SUBSET (1..Len(s)) -> Seq(E)] :
          LeftRun(run, <<head>>, Growing(E, st, head), s)
    BY <1>3, GrowingType, LeftExists DEF LeftSolvable
  <2>2. ASSUME NEW I \in SUBSET (1..Len(s)), I # {}
        PROVE  run[I] = IF Joins(st, head, run[I \ {Max(I)}], s[Max(I)])
                        THEN Append(run[I \ {Max(I)}], s[Max(I)])
                        ELSE run[I \ {Max(I)}]
    <3>1. run[I] = Growing(E, st, head)[<<run[I \ {Max(I)}], s[Max(I)]>>]
      BY <2>1, <2>2 DEF LeftRun
    <3>2. run[I \ {Max(I)}] \in Seq(E) /\ s[Max(I)] \in E
      BY <1>1, <2>2
    <3> QED BY <3>1, <3>2 DEF Growing
  <2>3. run[{}] = <<head>>
    BY <2>1 DEF LeftRun
  <2>4. P(run)
    BY <1>1, <2>2, <2>3
  <2> HIDE DEF P
  <2> QED BY <2>4, Zenon
<1>5. LeftLike(g, <<head>>, Growing(E, st, head), s, Seq(E))
  <2> HIDE DEF g
  <2>1. g[{}] = <<head>>
    BY <1>4
  <2>2. ASSUME NEW I \in SUBSET (1..Len(s)), I # {}, g[I \ {Max(I)}] \in Seq(E)
        PROVE  g[I] = Growing(E, st, head)[<<g[I \ {Max(I)}], s[Max(I)]>>]
    <3>1. g[I] = IF Joins(st, head, g[I \ {Max(I)}], s[Max(I)])
                 THEN Append(g[I \ {Max(I)}], s[Max(I)])
                 ELSE g[I \ {Max(I)}]
      BY <1>1, <1>4, <2>2
    <3>2. s[Max(I)] \in E
      BY <1>1, <2>2
    <3> QED BY <2>2, <3>1, <3>2 DEF Growing
  <2> QED BY <2>1, <2>2 DEF LeftLike
<1> QED
  <2> HIDE DEF g
  <2>1. FoldedTo(g[1..Len(s)], <<head>>, Growing(E, st, head), s, Seq(E))
    BY <1>3, <1>5, GrowingType, LeftStepwise, Zenon
  <2> QED BY <1>2, <2>1 DEF s, head

\* The elements of b are some of q's, each taken once.
TakenBy(g, b, q) ==
  /\ g \in [1..Len(b) -> 1..Len(q)]
  /\ \A j \in 1..Len(b) : b[j] = q[g[j]]
  /\ \A i, j \in 1..Len(b) : g[i] = g[j] => i = j

Taken(b, q) == \E g : TakenBy(g, b, q)

\* Each of b's entries could join those before it.
JoinedInTurn(st, b) ==
  \A k \in 2..Len(b) : Compatible(st, ItemsOf(SubSeq(b, 1, k - 1)), b[k].item)

\* Where the k-th of the others stood.
Behind(h, k) == IF k < h THEN k ELSE k + 1

GrownBy(g, st, b, q, h, k) ==
  /\ TakenBy(g, b, q) /\ Len(b) # 0 /\ g[1] = h /\ JoinedInTurn(st, b)
  /\ \A j \in 2..Len(b) : g[j] < Behind(h, k + 1)

Grown(st, b, q, h, k) == \E g : GrownBy(g, st, b, q, h, k)

\* Taking one out leaves the others in their order.
LEMMA TheOthers ==
  ASSUME NEW E, NEW q \in Seq(E), NEW h \in 1..Len(q)
  PROVE  /\ RemoveAt(q, h) \in Seq(E) /\ Len(RemoveAt(q, h)) = Len(q) - 1
         /\ \A k \in 1..(Len(q) - 1) : RemoveAt(q, h)[k] = q[Behind(h, k)]
<1>1. /\ SubSeq(q, 1, h - 1) \in Seq(E) /\ Len(SubSeq(q, 1, h - 1)) = h - 1
      /\ \A k \in 1..(h - 1) : SubSeq(q, 1, h - 1)[k] = q[k]
  OBVIOUS
<1>2. /\ SubSeq(q, h + 1, Len(q)) \in Seq(E) /\ Len(SubSeq(q, h + 1, Len(q))) = Len(q) - h
      /\ \A k \in 1..(Len(q) - h) : SubSeq(q, h + 1, Len(q))[k] = q[h + k]
  OBVIOUS
<1> DEFINE a == SubSeq(q, 1, h - 1)
           b == SubSeq(q, h + 1, Len(q))
<1>3. RemoveAt(q, h) = a \o b
  BY DEF RemoveAt
<1> HIDE DEF a, b
<1>4. a \in Seq(E) /\ b \in Seq(E) /\ Len(a) = h - 1 /\ Len(b) = Len(q) - h
  BY <1>1, <1>2 DEF a, b
<1>5. /\ a \o b \in Seq(E) /\ Len(a \o b) = Len(q) - 1
      /\ \A k \in 1..(Len(q) - 1) : (a \o b)[k] = IF k < h THEN a[k] ELSE b[k - h + 1]
  BY <1>4
<1>6. \A k \in 1..(Len(q) - 1) : (IF k < h THEN a[k] ELSE b[k - h + 1]) = q[Behind(h, k)]
  BY <1>1, <1>2 DEF a, b, Behind
<1> QED BY <1>3, <1>5, <1>6

\* What joins at the end could join what is there.
LEMMA JoinedOneMore ==
  ASSUME NEW st, NEW E, NEW b \in Seq(E), NEW e \in E, Len(b) # 0, JoinedInTurn(st, b),
         Compatible(st, ItemsOf(b), e.item)
  PROVE  JoinedInTurn(st, Append(b, e))
<1> DEFINE c == Append(b, e)
<1>1. /\ Len(c) = Len(b) + 1 /\ c[Len(b) + 1] = e /\ \A i \in 1..Len(b) : c[i] = b[i]
      /\ Len(b) \in Nat
  OBVIOUS
<1>2. ASSUME NEW k \in 2..Len(c) PROVE Compatible(st, ItemsOf(SubSeq(c, 1, k - 1)), c[k].item)
  <2>1. CASE k = Len(b) + 1
    <3>1. SubSeq(c, 1, k - 1) = b
      BY <1>1, <2>1
    <3> QED BY <1>1, <2>1, <3>1
  <2>2. CASE k # Len(b) + 1
    <3>1. k \in 2..Len(b)
      BY <1>1, <2>2
    <3>2. SubSeq(c, 1, k - 1) = SubSeq(b, 1, k - 1) /\ c[k] = b[k]
      BY <1>1, <3>1
    <3>3. Compatible(st, ItemsOf(SubSeq(b, 1, k - 1)), b[k].item)
      BY <3>1 DEF JoinedInTurn
    <3> QED BY <3>2, <3>3
  <2> QED BY <2>1, <2>2
<1> QED BY <1>2 DEF JoinedInTurn

\* One entry more joins or is passed over.
LEMMA GrowOne ==
  ASSUME NEW st, NEW E, NEW q \in Seq(E), NEW h \in 1..Len(q), NEW k \in Nat, k + 1 < Len(q),
         NEW b \in Seq(E), Grown(st, b, q, h, k), NEW c \in Seq(E), NEW e \in E,
         e = q[Behind(h, k + 1)],
         c = IF Joins(st, q[h], b, e) THEN Append(b, e) ELSE b
  PROVE  Grown(st, c, q, h, k + 1)
<1>1. PICK g : GrownBy(g, st, b, q, h, k)
  BY DEF Grown
<1>2. /\ g \in [1..Len(b) -> 1..Len(q)] /\ Len(b) \in Nat /\ Len(b) # 0 /\ g[1] = h
      /\ \A j \in 1..Len(b) : b[j] = q[g[j]]
      /\ \A i, j \in 1..Len(b) : g[i] = g[j] => i = j
      /\ \A j \in 2..Len(b) : g[j] < Behind(h, k + 1)
      /\ JoinedInTurn(st, b)
  BY <1>1 DEF GrownBy, TakenBy
<1>3. /\ Behind(h, k + 1) \in 1..Len(q) /\ Behind(h, k + 1) # h
      /\ Behind(h, k + 1) < Behind(h, k + 1 + 1)
  BY DEF Behind
<1>4. CASE ~Joins(st, q[h], b, e)
  <2>1. ASSUME NEW j \in 2..Len(b) PROVE g[j] < Behind(h, k + 1 + 1)
    <3>1. g[j] \in Int /\ g[j] < Behind(h, k + 1)
      BY <1>2
    <3>2. Behind(h, k + 1) \in Int /\ Behind(h, k + 1 + 1) \in Int
      BY DEF Behind
    <3> QED BY <1>3, <3>1, <3>2
  <2>2. GrownBy(g, st, b, q, h, k + 1)
    BY <1>1, <2>1 DEF GrownBy
  <2> QED BY <1>4, <2>2 DEF Grown
<1>5. CASE Joins(st, q[h], b, e)
  <2> DEFINE p == Behind(h, k + 1)
             f == [j \in 1..(Len(b) + 1) |-> IF j = Len(b) + 1 THEN p ELSE g[j]]
  <2>1. c = Append(b, e) /\ JoinedInTurn(st, c)
    BY <1>2, <1>5, JoinedOneMore DEF Joins
  <2>2. Len(c) = Len(b) + 1 /\ c[Len(b) + 1] = e /\ \A j \in 1..Len(b) : c[j] = b[j]
    BY <2>1
  <2>3. p \in 1..Len(q) /\ p # h /\ p < Behind(h, k + 1 + 1) /\ e = q[p]
    BY <1>3
  <2>4. \A j \in 2..Len(b) : g[j] < p
    BY <1>2
  <2> HIDE DEF p
  <2>5. /\ f[Len(b) + 1] = p /\ \A j \in 1..Len(b) : f[j] = g[j]
        /\ f \in [1..(Len(b) + 1) -> 1..Len(q)]
    BY <1>2, <2>3
  <2> HIDE DEF f
  <2>6. \A j \in 1..Len(b) : g[j] # p
    BY <1>2, <2>3, <2>4
  <2>7. \A i, j \in 1..Len(c) : f[i] = f[j] => i = j
    BY <1>2, <2>2, <2>5, <2>6
  <2>8. \A j \in 1..Len(c) : c[j] = q[f[j]]
    BY <1>2, <2>2, <2>3, <2>5
  <2>9. f[1] = h /\ Len(c) # 0
    BY <1>2, <2>2, <2>5
  <2>10. ASSUME NEW j \in 2..Len(c) PROVE f[j] < Behind(h, k + 1 + 1)
    <3>1. Behind(h, k + 1 + 1) \in Int
      BY DEF Behind
    <3>2. CASE j = Len(b) + 1
      BY <2>3, <2>5, <3>2
    <3>3. CASE j # Len(b) + 1
      <4>1. j \in 2..Len(b) /\ j \in 1..Len(b)
        BY <1>2, <2>2, <3>3
      <4>2. g[j] < p /\ f[j] = g[j] /\ g[j] \in Int
        BY <1>2, <2>4, <2>5, <4>1
      <4> QED BY <2>3, <3>1, <4>2
    <3> QED BY <3>2, <3>3
  <2>11. f \in [1..Len(c) -> 1..Len(q)]
    BY <2>2, <2>5
  <2> QED BY <2>1, <2>7, <2>8, <2>9, <2>10, <2>11 DEF Grown, GrownBy, TakenBy
<1> QED BY <1>4, <1>5

\* What Grow returns.
LEMMA GrowTakes ==
  ASSUME NEW st, NEW E, NEW q \in Seq(E), NEW h \in 1..Len(q)
  PROVE  /\ Grow(st, q, h) \in Seq(E) /\ Grow(st, q, h) # <<>> /\ Taken(Grow(st, q, h), q)
         /\ Grow(st, q, h)[1] = q[h] /\ JoinedInTurn(st, Grow(st, q, h))
<1> DEFINE rest == RemoveAt(q, h)
           n == Len(q) - 1
<1>1. /\ rest \in Seq(E) /\ Len(rest) = n /\ n \in Nat /\ q[h] \in E
      /\ \A k \in 1..n : rest[k] = q[Behind(h, k)]
  <2>1. n \in Nat /\ q[h] \in E
    OBVIOUS
  <2> QED BY <2>1, TheOthers
<1> HIDE DEF rest
<1>2. PICK steps \in [0..n -> Seq(E)] :
        /\ Stepwise(steps, <<q[h]>>, Growing(E, st, q[h]), rest)
        /\ Grow(st, q, h) = steps[n]
  <2>1. FoldedTo(Grow(st, q, h), <<q[h]>>, Growing(E, st, q[h]), rest, Seq(E))
    BY <1>1, GrowFolds DEF rest
  <2> QED BY <1>1, <2>1 DEF FoldedTo
<1> DEFINE Good == {k \in 0..n : Grown(st, steps[k], q, h, k)}
<1>3. 0 \in Good
  <2>1. steps[0] = <<q[h]>>
    BY <1>2 DEF Stepwise
  <2>2. GrownBy([j \in 1..1 |-> h], st, <<q[h]>>, q, h, 0)
    <3>1. Len(<<q[h]>>) = 1 /\ <<q[h]>>[1] = q[h]
      OBVIOUS
    <3>2. JoinedInTurn(st, <<q[h]>>)
      BY <3>1 DEF JoinedInTurn
    <3>3. TakenBy([j \in 1..1 |-> h], <<q[h]>>, q)
      BY <3>1 DEF TakenBy
    <3> QED BY <3>1, <3>2, <3>3 DEF GrownBy
  <2>3. Grown(st, steps[0], q, h, 0)
    BY <2>1, <2>2 DEF Grown
  <2> QED BY <1>1, <2>3
<1>4. ASSUME NEW k \in 0..(n - 1), k \in Good PROVE k + 1 \in Good
  <2>1. /\ k + 1 \in 1..Len(rest) /\ k + 1 - 1 = k /\ k \in Nat /\ k \in 0..n /\ k + 1 \in 0..n
        /\ k + 1 < Len(q) /\ k + 1 \in 1..n
    BY <1>1
  <2>2. steps[k + 1] = Growing(E, st, q[h])[<<steps[k], rest[k + 1]>>]
    BY <1>2, <2>1 DEF Stepwise
  <2>3. /\ steps[k] \in Seq(E) /\ steps[k + 1] \in Seq(E)
        /\ rest[k + 1] \in E /\ rest[k + 1] = q[Behind(h, k + 1)]
    <3>1. steps[k] \in Seq(E) /\ steps[k + 1] \in Seq(E)
      BY <1>2, <2>1
    <3>2. rest[k + 1] \in E
      BY <1>1, <2>1
    <3>3. rest[k + 1] = q[Behind(h, k + 1)]
      BY <1>1, <2>1, Zenon
    <3> QED BY <3>1, <3>2, <3>3
  <2>4. steps[k + 1] = IF Joins(st, q[h], steps[k], rest[k + 1])
                       THEN Append(steps[k], rest[k + 1]) ELSE steps[k]
    BY <2>2, <2>3 DEF Growing
  <2>5. Grown(st, steps[k], q, h, k)
    BY <1>4
  <2>6. Grown(st, steps[k + 1], q, h, k + 1)
    BY <2>1, <2>3, <2>4, <2>5, GrowOne
  <2> QED BY <2>1, <2>6
<1>5. 0..n \subseteq Good
  <2> HIDE DEF Good
  <2> QED BY <1>1, <1>3, <1>4, AllUpTo
<1>6. Grown(st, steps[n], q, h, n) /\ steps[n] \in Seq(E)
  BY <1>1, <1>2, <1>5
<1> DEFINE b == Grow(st, q, h)
<1>7. PICK g : GrownBy(g, st, b, q, h, n)
  BY <1>2, <1>6 DEF Grown
<1>8. b \in Seq(E)
  BY <1>2, <1>6
<1> HIDE DEF b
<1>9. TakenBy(g, b, q) /\ Len(b) # 0 /\ g[1] = h /\ JoinedInTurn(st, b)
  BY <1>7 DEF GrownBy
<1>10. b # <<>> /\ 1 \in 1..Len(b)
  BY <1>8, <1>9
<1>11. b[1] = q[h]
  BY <1>9, <1>10 DEF TakenBy
<1>12. Taken(b, q)
  BY <1>9 DEF Taken
<1> QED BY <1>8, <1>9, <1>10, <1>11, <1>12 DEF b

\* A set of naturals has a smallest element.
LEMMA SmallestIsIn ==
  ASSUME NEW S \in SUBSET Nat, S # {}
  PROVE  Smallest(S) \in S /\ \A i \in S : Smallest(S) <= i
BY LeastOfNaturals DEF Smallest

\* The head is somebody in the queue.
LEMMA HeadIsQueued ==
  ASSUME NEW st, NEW E, NEW q \in Seq(E), q # <<>>, NEW n, NEW last
  PROVE  ChooseHead(st, q, n, last) \in 1..Len(q)
<1>1. DOMAIN q = 1..Len(q) /\ Len(q) \in Nat /\ 1 \in 1..Len(q)
  OBVIOUS
<1>2. Overdue(q, n) \in SUBSET (1..Len(q))
  BY <1>1 DEF Overdue
<1>3. NoChangeover(st, q, last) \in SUBSET (1..Len(q))
  BY <1>1 DEF NoChangeover, InWindow
<1>4. ASSUME NEW S \in SUBSET (1..Len(q)), S # {} PROVE Smallest(S) \in 1..Len(q)
  <2>1. S \in SUBSET Nat
    BY <1>1
  <2> QED BY <1>4, <2>1, SmallestIsIn
<1>5. CASE Overdue(q, n) # {}
  BY <1>2, <1>4, <1>5 DEF ChooseHead
<1>6. CASE Overdue(q, n) = {} /\ last # NoKey /\ NoChangeover(st, q, last) # {}
  BY <1>3, <1>4, <1>6 DEF ChooseHead
<1>7. CASE Overdue(q, n) = {} /\ ~(last # NoKey /\ NoChangeover(st, q, last) # {})
  BY <1>1, <1>7 DEF ChooseHead
<1> QED BY <1>5, <1>6, <1>7

\* Once somebody has waited past the guard, the oldest goes next.
LEMMA OldestIsHead ==
  ASSUME NEW st, NEW E, NEW q \in Seq(E), NEW n \in Int, NEW last,
         \A i \in 1..Len(q) : q[i].since \in Int /\ q[1].since <= q[i].since,
         NEW i \in 1..Len(q), n - q[i].since >= Guard
  PROVE  ChooseHead(st, q, n, last) = 1
<1>1. DOMAIN q = 1..Len(q) /\ Len(q) \in Nat /\ 1 \in 1..Len(q) /\ Guard \in Nat
  BY PolicyAssumption
<1>2. n - q[1].since >= Guard
  BY <1>1
<1>3. 1 \in Overdue(q, n) /\ Overdue(q, n) \in SUBSET (1..Len(q))
  BY <1>1, <1>2 DEF Overdue
<1>4. Smallest(Overdue(q, n)) \in 1..Len(q) /\ Smallest(Overdue(q, n)) <= 1
  <2>1. Overdue(q, n) \in SUBSET Nat /\ Overdue(q, n) # {}
    BY <1>3
  <2> QED BY <1>3, <2>1, SmallestIsIn
<1>5. Smallest(Overdue(q, n)) = 1
  BY <1>4
<1> QED BY <1>3, <1>5 DEF ChooseHead

\* What a policy takes is some of the queue, nobody twice, each able to join those
\* before, and its head is the oldest unless the policy has a memory.
LEMMA NextBatchTakes ==
  ASSUME NEW name \in PolicyName, NEW st, NEW E, NEW q \in Seq(E), q # <<>>, NEW n, NEW last
  PROVE  LET b == NextBatch(name, st, q, n, last)
         IN /\ b \in Seq(E) /\ b # <<>> /\ Taken(b, q) /\ JoinedInTurn(st, b)
            /\ b[1] = q[IF name = "bounded_reorder" THEN ChooseHead(st, q, n, last) ELSE 1]
<1>1. 1 \in 1..Len(q) /\ q[1] \in E
  OBVIOUS
<1>2. CASE name = "fifo"
  <2>1. NextBatch(name, st, q, n, last) = <<q[1]>>
    BY <1>2 DEF NextBatch
  <2>2. Len(<<q[1]>>) = 1 /\ <<q[1]>>[1] = q[1] /\ <<q[1]>> \in Seq(E) /\ <<q[1]>> # <<>>
    BY <1>1
  <2>3. TakenBy([j \in 1..1 |-> 1], <<q[1]>>, q)
    BY <1>1, <2>2 DEF TakenBy
  <2>4. JoinedInTurn(st, <<q[1]>>)
    BY <2>2 DEF JoinedInTurn
  <2>5. Taken(<<q[1]>>, q)
    BY <2>3 DEF Taken
  <2> QED BY <1>2, <2>1, <2>2, <2>4, <2>5
<1>3. CASE name = "batch_milk"
  <2>1. NextBatch(name, st, q, n, last) = Grow(st, q, 1)
    BY <1>3 DEF NextBatch
  <2> QED BY <1>1, <1>3, <2>1, GrowTakes
<1>4. CASE name = "bounded_reorder"
  <2>1. NextBatch(name, st, q, n, last) = Grow(st, q, ChooseHead(st, q, n, last))
    BY <1>4 DEF NextBatch
  <2>2. ChooseHead(st, q, n, last) \in 1..Len(q)
    BY HeadIsQueued
  <2> QED BY <1>4, <2>1, <2>2, GrowTakes
<1> QED BY <1>2, <1>3, <1>4 DEF PolicyName
-----------------------------------------------------------------------------
(* Who is left *)

\* r is q without b: the others in their order, moved up if the oldest was taken.
LeftBy(f, r, q, b) ==
  /\ f \in [1..Len(r) -> 1..Len(q)]
  /\ \A j \in 1..Len(r) : r[j] = q[f[j]] /\ j <= f[j] /\ \A i \in 1..Len(b) : b[i] # r[j]
  /\ \A i, j \in 1..Len(r) : i < j => f[i] < f[j]
  /\ \A i \in 1..Len(q) : (\A j \in 1..Len(b) : b[j] # q[i]) => \E j \in 1..Len(r) : f[j] = i
  /\ b[1] = q[1] => \A j \in 1..Len(r) : j < f[j]

OneToOne(f, k) == \A i, j \in 1..k : f[i] = f[j] => i = j
Disjoint(f, k, g, m) == \A i \in 1..k : \A j \in 1..m : f[i] # g[j]

\* Two parts of a queue that share nobody are no longer than the queue.
LEMMA PartsFit ==
  ASSUME NEW k \in Nat, NEW m \in Nat, NEW n \in Nat,
         NEW f \in [1..k -> 1..n], NEW g \in [1..m -> 1..n],
         OneToOne(f, k), OneToOne(g, m), Disjoint(f, k, g, m)
  PROVE  k + m <= n
<1> DEFINE h == [i \in 1..(k + m) |-> IF i <= k THEN f[i] ELSE g[i - k]]
<1>1. h \in [1..(k + m) -> 1..n]
  OBVIOUS
<1>2. ASSUME NEW i \in 1..(k + m), NEW j \in 1..(k + m), h[i] = h[j] PROVE i = j
  <2> USE DEF OneToOne, Disjoint
  <2>1. CASE i <= k /\ j <= k
    BY <1>2, <2>1
  <2>2. CASE i > k /\ j > k
    <3>1. i - k \in 1..m /\ j - k \in 1..m /\ g[i - k] = g[j - k]
      BY <1>2, <2>2
    <3>2. i - k = j - k
      BY <3>1
    <3> QED BY <3>2
  <2>3. CASE i <= k /\ j > k
    BY <1>2, <2>3
  <2>4. CASE i > k /\ j <= k
    <3>1. j \in 1..k /\ i - k \in 1..m /\ f[j] = g[i - k]
      BY <1>2, <2>4
    <3> QED BY <3>1
  <2> QED BY <2>1, <2>2, <2>3, <2>4
<1>3. h \in Injection(1..(k + m), 1..n)
  <2> HIDE DEF h
  <2> QED BY <1>1, <1>2 DEF Injection, IsInjective
<1>4. /\ IsFiniteSet(1..n) /\ Cardinality(1..n) = n
      /\ Cardinality(1..(k + m)) = k + m
  <2>1. 1 \in Int /\ n \in Int /\ k + m \in Int /\ k + m \in Nat
    OBVIOUS
  <2>2. IsFiniteSet(1..n) /\ Cardinality(1..n) = IF 1 > n THEN 0 ELSE n - 1 + 1
    BY <2>1, FS_Interval
  <2>3. Cardinality(1..(k + m)) = IF 1 > k + m THEN 0 ELSE k + m - 1 + 1
    BY <2>1, FS_Interval
  <2> QED BY <2>1, <2>2, <2>3
<1>5. Cardinality(1..(k + m)) <= Cardinality(1..n)
  <2> HIDE DEF h
  <2> QED BY <1>3, <1>4, FS_Injection
<1> QED BY <1>4, <1>5

\* What Without leaves of a queue when a policy has taken its batch.
LEMMA WithoutLeaves ==
  ASSUME NEW E, NEW q \in Seq(E), NEW b \in Seq(E), b # <<>>, Taken(b, q)
  PROVE  /\ Without(q, b) \in Seq(E) /\ \E f : LeftBy(f, Without(q, b), q, b)
         /\ Len(Without(q, b)) + Len(b) <= Len(q)
<1> DEFINE T == ToSet(q) \ ToSet(b)
           r == Among(q, T)
<1>1. Without(q, b) = r
  BY DEF Without
<1>2. ToSet(q) = {q[i] : i \in 1..Len(q)} /\ ToSet(b) = {b[i] : i \in 1..Len(b)}
  BY DEF ToSet
<1>3. \A i \in 1..Len(q) : q[i] \in T <=> \A j \in 1..Len(b) : b[j] # q[i]
  BY <1>2
<1>4. b[1] = q[1] => q[1] \notin T
  BY <1>2
<1> HIDE DEF T
<1>5. r \in Seq(E) /\ Drawn(r, q, T, Len(q))
  BY AmongIsDrawn
<1> HIDE DEF r
<1>6. PICK f : DrawnBy(f, r, q, T, Len(q))
  BY <1>5 DEF Drawn
<1>7. PICK g : TakenBy(g, b, q)
  BY DEF Taken
<1>8. /\ f \in [1..Len(r) -> 1..Len(q)] /\ Len(r) \in Nat /\ Len(q) \in Nat /\ Len(b) \in Nat
      /\ \A j \in 1..Len(r) : r[j] = q[f[j]] /\ r[j] \in T /\ j <= f[j]
      /\ \A i, j \in 1..Len(r) : i < j => f[i] < f[j]
      /\ \A i \in 1..Len(q) : q[i] \in T => \E j \in 1..Len(r) : f[j] = i
      /\ Len(q) # 0 /\ q[1] \notin T => \A j \in 1..Len(r) : j < f[j]
  BY <1>5, <1>6 DEF DrawnBy
<1>9. /\ g \in [1..Len(b) -> 1..Len(q)] /\ \A j \in 1..Len(b) : b[j] = q[g[j]]
      /\ \A i, j \in 1..Len(b) : g[i] = g[j] => i = j
  BY <1>7 DEF TakenBy
<1>10. LeftBy(f, r, q, b)
  <2>1. \A j \in 1..Len(r) : \A i \in 1..Len(b) : b[i] # r[j]
    BY <1>3, <1>8
  <2>2. \A i \in 1..Len(q) : (\A j \in 1..Len(b) : b[j] # q[i]) => \E j \in 1..Len(r) : f[j] = i
    BY <1>3, <1>8
  <2>3. ASSUME b[1] = q[1] PROVE \A j \in 1..Len(r) : j < f[j]
    <3>1. Len(b) # 0 /\ 1 \in 1..Len(b)
      BY <1>8
    <3>2. g[1] \in 1..Len(q)
      BY <1>9, <3>1
    <3>3. Len(q) # 0
      BY <1>8, <3>2
    <3> QED BY <1>4, <1>8, <2>3, <3>3
  <2> QED BY <1>8, <2>1, <2>2, <2>3 DEF LeftBy
<1>11. Len(r) + Len(b) <= Len(q)
  <2>1. OneToOne(f, Len(r))
    BY <1>8 DEF OneToOne
  <2>2. Disjoint(f, Len(r), g, Len(b))
    BY <1>3, <1>8, <1>9 DEF Disjoint
  <2>3. Len(r) \in Nat /\ Len(b) \in Nat /\ Len(q) \in Nat
    BY <1>8
  <2>4. f \in [1..Len(r) -> 1..Len(q)] /\ g \in [1..Len(b) -> 1..Len(q)]
    BY <1>8, <1>9
  <2>5. OneToOne(g, Len(b))
    BY <1>9 DEF OneToOne
  <2> QED BY <2>1, <2>2, <2>3, <2>4, <2>5, PartsFit
<1> QED BY <1>1, <1>5, <1>10, <1>11
-----------------------------------------------------------------------------
(* What the station makes of a batch *)

Values(E, st) == {BatchValue(st, x) : x \in E}
Valuing(E, st) == [p \in Seq(Values(E, st)) \X E |-> AddValue(st, p[1], p[2])]
Filling(E, st) == [p \in Seq(Seq(E)) \X E |-> FillOne(st, p[1], p[2])]

\* What one step of ValuesIn does.
LEMMA ValuingType ==
  ASSUME NEW E, NEW st
  PROVE  <<>> \in Seq(Values(E, st)) /\ Valuing(E, st) \in [Seq(Values(E, st)) \X E -> Seq(Values(E, st))]
<1>1. ASSUME NEW vs \in Seq(Values(E, st)), NEW x \in E
      PROVE  AddValue(st, vs, x) \in Seq(Values(E, st))
  <2>1. BatchValue(st, x) \in Values(E, st)
    BY DEF Values
  <2> QED BY <2>1 DEF AddValue
<1> QED BY <1>1 DEF Valuing

\* What one step of Filled does.
LEMMA FillingType ==
  ASSUME NEW E, NEW st
  PROVE  <<>> \in Seq(Seq(E)) /\ Filling(E, st) \in [Seq(Seq(E)) \X E -> Seq(Seq(E))]
<1>1. ASSUME NEW bs \in Seq(Seq(E)), NEW x \in E
      PROVE  FillOne(st, bs, x) \in Seq(Seq(E))
  <2>1. Append(bs, <<x>>) \in Seq(Seq(E))
    OBVIOUS
  <2>2. ASSUME bs # <<>> PROVE [bs EXCEPT ![Len(bs)] = Append(@, x)] \in Seq(Seq(E))
    <3>1. Len(bs) \in 1..Len(bs) /\ bs[Len(bs)] \in Seq(E)
      BY <2>2
    <3>2. Append(bs[Len(bs)], x) \in Seq(E)
      BY <3>1
    <3> QED BY <2>2, <3>1, <3>2
  <2> QED BY <2>1, <2>2 DEF FillOne
<1> QED BY <1>1 DEF Filling

\* The values of some items are collected one by one.
LEMMA ValuesFold ==
  ASSUME NEW E, NEW st, NEW s \in Seq(E)
  PROVE  FoldedTo(ValuesIn(st, s),
                  <<>>, Valuing(E, st), s, Seq(Values(E, st)))
<1> DEFINE A == Seq(Values(E, st))
           P(f) == f = [I \in SUBSET DOMAIN s |->
                          IF I = {} THEN <<>> ELSE AddValue(st, f[I \ {Max(I)}], s[Max(I)])]
           g == CHOOSE f : P(f)
<1>1. /\ DOMAIN s = 1..Len(s) /\ Len(s) \in Nat
      /\ \A i \in 1..Len(s) : s[i] \in E
      /\ \A I \in SUBSET (1..Len(s)) : I # {} => Max(I) \in I
  BY GreatestIndex
<1>2. ValuesIn(st, s) = g[1..Len(s)]
  BY <1>1 DEF ValuesIn, FoldLeft, MapThenFoldSet
<1> HIDE DEF A
<1>3. <<>> \in A /\ Valuing(E, st) \in [A \X E -> A]
  BY ValuingType DEF A
<1>4. P(g)
  <2>1. PICK run \in [SUBSET (1..Len(s)) -> A] : LeftRun(run, <<>>, Valuing(E, st), s)
    BY <1>3, LeftExists DEF LeftSolvable
  <2>2. ASSUME NEW I \in SUBSET (1..Len(s)), I # {}
        PROVE  run[I] = AddValue(st, run[I \ {Max(I)}], s[Max(I)])
    <3>1. run[I] = Valuing(E, st)[<<run[I \ {Max(I)}], s[Max(I)]>>]
      BY <2>1, <2>2 DEF LeftRun
    <3>2. run[I \ {Max(I)}] \in A /\ s[Max(I)] \in E
      BY <1>1, <2>2
    <3> QED BY <3>1, <3>2 DEF Valuing, A
  <2>3. run[{}] = <<>>
    BY <2>1 DEF LeftRun
  <2>4. P(run)
    BY <1>1, <2>2, <2>3
  <2> HIDE DEF P
  <2> QED BY <2>4, Zenon
<1>5. LeftLike(g, <<>>, Valuing(E, st), s, A)
  <2> HIDE DEF g
  <2>1. g[{}] = <<>>
    BY <1>4
  <2>2. ASSUME NEW I \in SUBSET (1..Len(s)), I # {}, g[I \ {Max(I)}] \in A
        PROVE  g[I] = Valuing(E, st)[<<g[I \ {Max(I)}], s[Max(I)]>>]
    <3>1. g[I] = AddValue(st, g[I \ {Max(I)}], s[Max(I)])
      BY <1>1, <1>4, <2>2
    <3>2. s[Max(I)] \in E
      BY <1>1, <2>2
    <3> QED BY <2>2, <3>1, <3>2 DEF Valuing, A
  <2> QED BY <2>1, <2>2 DEF LeftLike
<1> QED
  <2> HIDE DEF g
  <2>1. FoldedTo(g[1..Len(s)], <<>>, Valuing(E, st), s, A)
    BY <1>3, <1>5, LeftStepwise, Zenon
  <2> QED BY <1>2, <2>1 DEF A

\* Batches are filled item by item.
LEMMA FillFolds ==
  ASSUME NEW E, NEW st, NEW s \in Seq(E)
  PROVE  FoldedTo(Filled(st, s),
                  <<>>, Filling(E, st), s, Seq(Seq(E)))
<1> DEFINE A == Seq(Seq(E))
           P(f) == f = [I \in SUBSET DOMAIN s |->
                          IF I = {} THEN <<>> ELSE FillOne(st, f[I \ {Max(I)}], s[Max(I)])]
           g == CHOOSE f : P(f)
<1>1. /\ DOMAIN s = 1..Len(s) /\ Len(s) \in Nat
      /\ \A i \in 1..Len(s) : s[i] \in E
      /\ \A I \in SUBSET (1..Len(s)) : I # {} => Max(I) \in I
  BY GreatestIndex
<1>2. Filled(st, s) = g[1..Len(s)]
  BY <1>1 DEF Filled, FoldLeft, MapThenFoldSet
<1> HIDE DEF A
<1>3. <<>> \in A /\ Filling(E, st) \in [A \X E -> A]
  BY FillingType DEF A
<1>4. P(g)
  <2>1. PICK run \in [SUBSET (1..Len(s)) -> A] : LeftRun(run, <<>>, Filling(E, st), s)
    BY <1>3, LeftExists DEF LeftSolvable
  <2>2. ASSUME NEW I \in SUBSET (1..Len(s)), I # {}
        PROVE  run[I] = FillOne(st, run[I \ {Max(I)}], s[Max(I)])
    <3>1. run[I] = Filling(E, st)[<<run[I \ {Max(I)}], s[Max(I)]>>]
      BY <2>1, <2>2 DEF LeftRun
    <3>2. run[I \ {Max(I)}] \in A /\ s[Max(I)] \in E
      BY <1>1, <2>2
    <3> QED BY <3>1, <3>2 DEF Filling, A
  <2>3. run[{}] = <<>>
    BY <2>1 DEF LeftRun
  <2>4. P(run)
    BY <1>1, <2>2, <2>3
  <2> HIDE DEF P
  <2> QED BY <2>4, Zenon
<1>5. LeftLike(g, <<>>, Filling(E, st), s, A)
  <2> HIDE DEF g
  <2>1. g[{}] = <<>>
    BY <1>4
  <2>2. ASSUME NEW I \in SUBSET (1..Len(s)), I # {}, g[I \ {Max(I)}] \in A
        PROVE  g[I] = Filling(E, st)[<<g[I \ {Max(I)}], s[Max(I)]>>]
    <3>1. g[I] = FillOne(st, g[I \ {Max(I)}], s[Max(I)])
      BY <1>1, <1>4, <2>2
    <3>2. s[Max(I)] \in E
      BY <1>1, <2>2
    <3> QED BY <2>2, <3>1, <3>2 DEF Filling, A
  <2> QED BY <2>1, <2>2 DEF LeftLike
<1> QED
  <2> HIDE DEF g
  <2>1. FoldedTo(g[1..Len(s)], <<>>, Filling(E, st), s, A)
    BY <1>3, <1>5, LeftStepwise, Zenon
  <2> QED BY <1>2, <2>1 DEF A

\* Items of one value have one value.
LEMMA OneValue ==
  ASSUME NEW E, NEW st, NEW s \in Seq(E), Len(s) # 0, NEW v,
         \A i \in 1..Len(s) : BatchValue(st, s[i]) = v
  PROVE  ValuesIn(st, s) = <<v>>
<1> DEFINE n == Len(s)
<1>1. PICK steps \in [0..n -> Seq(Values(E, st))] :
        /\ Stepwise(steps, <<>>, Valuing(E, st), s)
        /\ ValuesIn(st, s) = steps[n]
  BY ValuesFold DEF FoldedTo
<1>2. n \in Nat /\ \A i \in 1..n : s[i] \in E
  OBVIOUS
<1> DEFINE Good == {k \in 0..n : steps[k] = IF k = 0 THEN <<>> ELSE <<v>>}
<1>3. 0 \in Good
  BY <1>1, <1>2 DEF Stepwise
<1>4. ASSUME NEW k \in 0..(n - 1), k \in Good PROVE k + 1 \in Good
  <2>1. k + 1 \in 1..n /\ k + 1 - 1 = k /\ k \in 0..n /\ k + 1 \in 0..n
    BY <1>2
  <2>2. steps[k + 1] = Valuing(E, st)[<<steps[k], s[k + 1]>>]
    BY <1>1, <2>1 DEF Stepwise
  <2>3. steps[k] \in Seq(Values(E, st)) /\ s[k + 1] \in E
    BY <1>1, <1>2, <2>1
  <2>4. steps[k + 1] = AddValue(st, steps[k], s[k + 1])
    BY <2>2, <2>3 DEF Valuing
  <2>5. steps[k] = IF k = 0 THEN <<>> ELSE <<v>>
    BY <1>4
  <2>6. AddValue(st, steps[k], s[k + 1]) = <<v>>
    <3>1. BatchValue(st, s[k + 1]) = v
      BY <2>1
    <3>2. ToSet(<<>>) = {} /\ ToSet(<<v>>) = {v} /\ Append(<<>>, v) = <<v>>
      BY DEF ToSet
    <3> QED BY <2>5, <3>1, <3>2 DEF AddValue
  <2> QED BY <2>1, <2>4, <2>6
<1>5. 0..n \subseteq Good
  <2> HIDE DEF Good
  <2> QED BY <1>2, <1>3, <1>4, AllUpTo
<1> QED BY <1>1, <1>2, <1>5

\* The beginnings of a sequence.
LEMMA Beginnings ==
  ASSUME NEW E, NEW s \in Seq(E), Len(s) # 0
  PROVE  /\ SubSeq(s, 1, 1) = <<s[1]>> /\ Append(<<>>, <<s[1]>>) = <<<<s[1]>>>>
         /\ \A k \in 1..(Len(s) - 1) :
              /\ SubSeq(s, 1, k) # <<>> /\ SubSeq(s, 1, k) \in Seq(E)
              /\ Append(SubSeq(s, 1, k), s[k + 1]) = SubSeq(s, 1, k + 1)
<1>1. SubSeq(s, 1, 1) = <<s[1]>>
  <2>1. SubSeq(s, 1, 1) \in Seq(E) /\ Len(SubSeq(s, 1, 1)) = 1 /\ SubSeq(s, 1, 1)[1] = s[1]
    OBVIOUS
  <2>2. \A c \in Seq(E) : Len(c) = 1 => c = <<c[1]>>
    OBVIOUS
  <2> QED BY <2>1, <2>2
<1>2. Append(<<>>, <<s[1]>>) = <<<<s[1]>>>>
  OBVIOUS
<1>3. ASSUME NEW k \in 1..(Len(s) - 1)
      PROVE  /\ SubSeq(s, 1, k) # <<>> /\ SubSeq(s, 1, k) \in Seq(E)
             /\ Append(SubSeq(s, 1, k), s[k + 1]) = SubSeq(s, 1, k + 1)
  <2>1. SubSeq(s, 1, k) # <<>>
    OBVIOUS
  <2>2. SubSeq(s, 1, k) \in Seq(E)
    OBVIOUS
  <2>3. Append(SubSeq(s, 1, k), s[k + 1]) = SubSeq(s, 1, k + 1)
    OBVIOUS
  <2> QED BY <2>1, <2>2, <2>3
<1> QED BY <1>1, <1>2, <1>3

\* Items that run together fill one batch.
LEMMA OneBatch ==
  ASSUME NEW E, NEW st, NEW s \in Seq(E), Len(s) # 0, RunsTogether(st, s)
  PROVE  Filled(st, s) = <<s>>
<1> DEFINE n == Len(s)
<1>1. PICK steps \in [0..n -> Seq(Seq(E))] :
        /\ Stepwise(steps, <<>>, Filling(E, st), s)
        /\ Filled(st, s) = steps[n]
  BY FillFolds DEF FoldedTo
<1>2. n \in Nat /\ \A i \in 1..n : s[i] \in E
  OBVIOUS
<1> DEFINE Good == {k \in 0..n : steps[k] = IF k = 0 THEN <<>> ELSE <<SubSeq(s, 1, k)>>}
<1>3. 0 \in Good
  BY <1>1, <1>2 DEF Stepwise
<1>4. ASSUME NEW k \in 0..(n - 1), k \in Good PROVE k + 1 \in Good
  <2>1. k + 1 \in 1..n /\ k + 1 - 1 = k /\ k \in 0..n /\ k + 1 \in 0..n
    BY <1>2
  <2>2. steps[k + 1] = Filling(E, st)[<<steps[k], s[k + 1]>>]
    <3>1. PICK op : op = Filling(E, st)
      OBVIOUS
    <3>2. Stepwise(steps, <<>>, op, s) /\ k \in 0..(Len(s) - 1) /\ Len(s) \in Nat
      BY <1>1, <1>2, <3>1
    <3>3. PICK j \in 1..Len(s) : j = k + 1 /\ j - 1 = k
      BY <1>2, <3>2
    <3>4. steps[j] = op[<<steps[j - 1], s[j]>>]
      BY <3>2, Zenon DEF Stepwise
    <3> QED BY <3>1, <3>3, <3>4
  <2>3. steps[k] \in Seq(Seq(E)) /\ s[k + 1] \in E
    BY <1>1, <1>2, <2>1
  <2>4. steps[k + 1] = FillOne(st, steps[k], s[k + 1])
    BY <2>2, <2>3 DEF Filling
  <2>5. steps[k] = IF k = 0 THEN <<>> ELSE <<SubSeq(s, 1, k)>>
    BY <1>4
  <2>6. CASE k = 0
    <3>1. SubSeq(s, 1, 1) = <<s[1]>> /\ Append(<<>>, <<s[1]>>) = <<<<s[1]>>>>
      BY <1>2, Beginnings
    <3>2. FillOne(st, steps[k], s[k + 1]) = <<<<s[1]>>>>
      BY <2>5, <2>6, <3>1 DEF FillOne
    <3> QED BY <2>1, <2>4, <2>6, <3>1, <3>2
  <2>7. CASE k # 0
    <3> DEFINE c == SubSeq(s, 1, k)
    <3>1. k + 1 \in 2..Len(s)
      BY <2>1, <2>7
    <3>2. Compatible(st, c, s[k + 1])
      BY <2>1, <3>1 DEF RunsTogether
    <3>3. c # <<>> /\ c \in Seq(E) /\ Append(c, s[k + 1]) = SubSeq(s, 1, k + 1)
      <4>1. k \in 1..(Len(s) - 1)
        BY <1>2, <2>7
      <4> QED BY <4>1, Beginnings
    <3> HIDE DEF c
    <3>4. Batches(st) /\ Fits(st, c, s[k + 1])
      BY <3>2, <3>3 DEF Compatible
    <3>5. steps[k] = <<c>> /\ <<c>> # <<>> /\ Len(<<c>>) = 1 /\ Last(<<c>>) = c
      BY <2>5, <2>7 DEF Last, c
    <3>6. FillOne(st, <<c>>, s[k + 1]) = [<<c>> EXCEPT ![1] = Append(@, s[k + 1])]
      BY <3>4, <3>5 DEF FillOne
    <3>7. [<<c>> EXCEPT ![1] = Append(@, s[k + 1])] = <<Append(c, s[k + 1])>>
      OBVIOUS
    <3>8. steps[k + 1] = <<SubSeq(s, 1, k + 1)>>
      BY <2>4, <3>3, <3>5, <3>6, <3>7
    <3>9. k + 1 # 0
      BY <2>1
    <3> QED BY <2>1, <3>8, <3>9
  <2> QED BY <2>6, <2>7
<1>5. 0..n \subseteq Good
  <2> HIDE DEF Good
  <2> QED BY <1>2, <1>3, <1>4, AllUpTo
<1>6. steps[n] = <<SubSeq(s, 1, n)>> /\ SubSeq(s, 1, n) = s
  BY <1>2, <1>5
<1> QED BY <1>1, <1>6

\* A single sequence, flattened, is itself.
LEMMA FlattenOne == ASSUME NEW E, NEW s \in Seq(E) PROVE FlattenSeq(<<s>>) = s
<1> DEFINE ss == <<s>>
           flat == FlattenSeq(ss)
<1>1. ss \in Seq(Seq(E)) /\ Len(ss) = 1 /\ ss[1] = s
  OBVIOUS
<1> HIDE DEF ss
<1>2. flat \in Seq(E) /\ Joined(flat, ss, 1)
  BY <1>1, FlattenJoins
<1> HIDE DEF flat
<1>3. PICK off \in [1..1 -> Nat] : Parts(flat, ss, 1, off)
  BY <1>2 DEF Joined
<1> DEFINE d == off[1]
<1>4. /\ \A m \in 1..Len(s) : d + m \in 1..Len(flat) /\ flat[d + m] = s[m]
      /\ \A k \in 1..Len(flat) : k - d \in 1..Len(s)
  <2>1. \A i \in 1..1 : i = 1
    OBVIOUS
  <2> QED BY <1>1, <1>3, <2>1 DEF Parts
<1>5. d \in Nat /\ Len(flat) \in Nat /\ Len(s) \in Nat
  BY <1>2
<1> HIDE DEF d
<1>6. Len(flat) = Len(s) /\ (Len(s) # 0 => d = 0)
  <2>1. CASE Len(flat) = 0
    <3>1. Len(s) = 0
      <4>1. ASSUME Len(s) # 0 PROVE FALSE
        BY <1>4, <1>5, <2>1, <4>1
      <4> QED BY <4>1
    <3> QED BY <2>1, <3>1
  <2>2. CASE Len(flat) # 0
    <3>1. 1 - d \in 1..Len(s) /\ Len(flat) - d \in 1..Len(s)
      BY <1>4, <1>5, <2>2
    <3>2. d = 0 /\ Len(s) # 0
      BY <1>5, <3>1
    <3>3. d + Len(s) \in 1..Len(flat)
      BY <1>4, <1>5, <3>2
    <3> QED BY <1>5, <3>1, <3>2, <3>3
  <2> QED BY <2>1, <2>2
<1>7. \A m \in 1..Len(s) : flat[m] = s[m]
  BY <1>4, <1>5, <1>6
<1>8. flat = s
  BY <1>2, <1>6, <1>7
<1> QED BY <1>8 DEF flat, ss

\* Items that run together are one group.
LEMMA OneGroup ==
  ASSUME NEW E, NEW st, NEW s \in Seq(E), Len(s) # 0, RunsTogether(st, s)
  PROVE  Group(st, s) = <<s>>
<1> DEFINE v == BatchValue(st, s[1])
           working == Among(s, {item \in ToSet(s) : Touches(st, item)})
           of(w) == Among(s, {item \in ToSet(s) : BatchValue(st, item) = w})
<1>1. DOMAIN s = 1..Len(s) /\ Len(s) \in Nat /\ ToSet(s) = {s[i] : i \in 1..Len(s)}
  BY DEF ToSet
<1>2. working = s
  <2> DEFINE T == {item \in ToSet(s) : Touches(st, item)}
  <2>1. \A i \in 1..Len(s) : s[i] \in T
    BY <1>1 DEF RunsTogether
  <2> HIDE DEF T
  <2>2. Among(s, T) = s
    BY <2>1, AmongAll
  <2> QED BY <2>2 DEF T
<1>3. ASSUME NEW i \in 1..Len(s) PROVE BatchValue(st, s[i]) = v
  <2>1. CASE i = 1
    BY <2>1
  <2>2. CASE i # 1
    <3>1. i \in 2..Len(s)
      BY <1>1, <2>2
    <3>2. Compatible(st, SubSeq(s, 1, i - 1), s[i])
      BY <3>1 DEF RunsTogether
    <3>3. SubSeq(s, 1, i - 1) # <<>> /\ SubSeq(s, 1, i - 1)[1] = s[1]
      BY <3>1
    <3> QED BY <3>2, <3>3 DEF Compatible
  <2> QED BY <2>1, <2>2
<1>4. ValuesIn(st, s) = <<v>>
  <2> HIDE DEF v
  <2> QED BY <1>3, OneValue
<1>5. of(v) = s
  <2> DEFINE T == {item \in ToSet(s) : BatchValue(st, item) = v}
  <2>1. \A i \in 1..Len(s) : s[i] \in T
    BY <1>1, <1>3
  <2> HIDE DEF T
  <2>2. Among(s, T) = s
    BY <2>1, AmongAll
  <2> QED BY <2>2 DEF T
<1>6. Filled(st, s) = <<s>>
  BY OneBatch
<1>7. Group(st, s) = FlattenSeq([k \in DOMAIN <<v>> |-> Filled(st, of(<<v>>[k]))])
  BY <1>2, <1>4 DEF Group
<1>8. [k \in DOMAIN <<v>> |-> Filled(st, of(<<v>>[k]))] = <<<<s>>>>
  <2> HIDE DEF of, v
  <2>1. DOMAIN <<v>> = 1..1 /\ <<v>>[1] = v
    OBVIOUS
  <2> QED BY <1>5, <1>6, <2>1
<1>9. FlattenSeq(<<<<s>>>>) = <<s>>
  <2>1. <<s>> \in Seq(Seq(E))
    OBVIOUS
  <2> QED BY <2>1, FlattenOne
<1> QED BY <1>7, <1>8, <1>9

\* A batch in which each could join those before is one run of the station.
LEMMA BatchRuns ==
  ASSUME NEW E, NEW st, NEW b \in Seq(E), b # <<>>, JoinedInTurn(st, b),
         \A e \in E : Touches(st, e.item)
  PROVE  /\ RunsTogether(st, ItemsOf(b)) /\ Group(st, ItemsOf(b)) = <<ItemsOf(b)>>
         /\ ItemsOf(b) \in [1..Len(b) -> {e.item : e \in E}]
<1> DEFINE I == {e.item : e \in E}
           s == ItemsOf(b)
<1>1. /\ DOMAIN b = 1..Len(b) /\ Len(b) \in Nat /\ Len(b) # 0 /\ \A i \in 1..Len(b) : b[i] \in E
      /\ s = [i \in 1..Len(b) |-> b[i].item]
  BY DEF ItemsOf
<1> HIDE DEF s
<1>2. s \in Seq(I) /\ Len(s) = Len(b) /\ \A i \in 1..Len(b) : s[i] = b[i].item
  <2>1. s = [i \in 1..Len(b) |-> s[i]] /\ \A i \in 1..Len(b) : s[i] = b[i].item
    BY <1>1
  <2>2. \A i \in 1..Len(b) : s[i] \in I
    BY <1>1, <2>1
  <2> HIDE DEF I
  <2>3. s \in Seq(I) /\ Len(s) = Len(b)
    BY <1>1, <2>1, <2>2, SeqOnInterval
  <2> QED BY <2>1, <2>3
<1>3. \A k \in DOMAIN s : Touches(st, s[k])
  BY <1>1, <1>2
<1>4. ASSUME NEW k \in 2..Len(s) PROVE Compatible(st, SubSeq(s, 1, k - 1), s[k])
  <2>1. SubSeq(s, 1, k - 1) = ItemsOf(SubSeq(b, 1, k - 1))
    <3>1. /\ SubSeq(b, 1, k - 1) \in Seq(E) /\ Len(SubSeq(b, 1, k - 1)) = k - 1
          /\ \A i \in 1..(k - 1) : SubSeq(b, 1, k - 1)[i] = b[i]
      BY <1>1, <1>2
    <3>2. DOMAIN SubSeq(b, 1, k - 1) = 1..(k - 1)
      BY <3>1
    <3>3. ItemsOf(SubSeq(b, 1, k - 1)) = [i \in 1..(k - 1) |-> b[i].item]
      BY <3>1, <3>2 DEF ItemsOf
    <3>4. /\ SubSeq(s, 1, k - 1) \in Seq(I) /\ Len(SubSeq(s, 1, k - 1)) = k - 1
          /\ \A i \in 1..(k - 1) : SubSeq(s, 1, k - 1)[i] = s[i]
      BY <1>1, <1>2
    <3>5. \A i \in 1..(k - 1) : s[i] = b[i].item
      BY <1>1, <1>2
    <3>6. SubSeq(s, 1, k - 1) = [i \in 1..(k - 1) |-> SubSeq(s, 1, k - 1)[i]]
      BY <3>4
    <3> QED BY <3>3, <3>4, <3>5, <3>6
  <2>2. Compatible(st, ItemsOf(SubSeq(b, 1, k - 1)), b[k].item)
    BY <1>2 DEF JoinedInTurn
  <2>3. s[k] = b[k].item
    BY <1>1, <1>2
  <2> QED BY <2>1, <2>2, <2>3
<1>5. RunsTogether(st, s)
  BY <1>3, <1>4 DEF RunsTogether
<1>6. Group(st, s) = <<s>>
  BY <1>1, <1>2, <1>5, OneGroup
<1>7. s \in [1..Len(b) -> I]
  BY <1>1, <1>2
<1> QED BY <1>5, <1>6, <1>7 DEF s
-----------------------------------------------------------------------------
(* The plan on display *)

\* Where a plan stands: what is planned, what is left, what was planned last.
Plans(E, st) ==
  [plan : Seq(Seq(E)), left : Seq(E), last : {BatchValue(st, e.item) : e \in E} \cup {NoKey}]

Planning(E, name, st, n) == [p \in Plans(E, st) \X Nat |-> PlanOne(name, st, n, p[1])]

Unplanned(q) == [plan |-> <<>>, left |-> q, last |-> NoKey]

\* An element appended.
LEMMA AtTheEnd ==
  ASSUME NEW T, NEW s \in Seq(T), NEW x \in T
  PROVE  /\ Append(s, x) \in Seq(T) /\ Append(s, x) # <<>>
         /\ s # <<>> => Append(s, x)[1] = s[1]
         /\ s = <<>> => Append(s, x) = <<x>>
<1>1. Append(s, x) \in Seq(T) /\ Append(s, x) # <<>>
  <2>1. Append(s, x) \in Seq(T) /\ Len(Append(s, x)) = Len(s) + 1 /\ Len(s) \in Nat
    OBVIOUS
  <2>2. Len(<<>>) = 0
    OBVIOUS
  <2> QED BY <2>1, <2>2
<1>2. s # <<>> => Append(s, x)[1] = s[1]
  OBVIOUS
<1>3. s = <<>> => Append(s, x) = <<x>>
  OBVIOUS
<1> QED BY <1>1, <1>2, <1>3

\* One more batch is planned while there is anything left.
LEMMA PlanGrows ==
  ASSUME NEW E, NEW name \in PolicyName, NEW st, NEW n, NEW acc \in Plans(E, st)
  PROVE  /\ PlanOne(name, st, n, acc) \in Plans(E, st)
         /\ acc.plan # <<>> => /\ PlanOne(name, st, n, acc).plan # <<>>
                               /\ PlanOne(name, st, n, acc).plan[1] = acc.plan[1]
         /\ acc.plan = <<>> /\ acc.left # <<>> =>
              PlanOne(name, st, n, acc).plan = <<NextBatch(name, st, acc.left, n, acc.last)>>
<1>1. /\ acc.plan \in Seq(Seq(E)) /\ acc.left \in Seq(E)
      /\ acc.last \in {BatchValue(st, e.item) : e \in E} \cup {NoKey}
  BY DEF Plans
<1>2. CASE acc.left = <<>>
  BY <1>1, <1>2 DEF PlanOne
<1>3. CASE acc.left # <<>>
  <2> DEFINE b == NextBatch(name, st, acc.left, n, acc.last)
  <2>1. b \in Seq(E) /\ b # <<>> /\ Taken(b, acc.left)
    BY <1>1, <1>3, NextBatchTakes
  <2>2. PlanOne(name, st, n, acc)
          = [plan |-> Append(acc.plan, b), left |-> Without(acc.left, b), last |-> KeyOf(st, b)]
    BY <1>3 DEF PlanOne
  <2> HIDE DEF b
  <2>3. Without(acc.left, b) \in Seq(E)
    BY <1>1, <2>1, WithoutLeaves
  <2>4. KeyOf(st, b) \in {BatchValue(st, e.item) : e \in E}
    <3>1. b[1] \in E
      BY <2>1
    <3> QED BY <3>1 DEF KeyOf
  <2>5. /\ Append(acc.plan, b) \in Seq(Seq(E)) /\ Append(acc.plan, b) # <<>>
        /\ acc.plan # <<>> => Append(acc.plan, b)[1] = acc.plan[1]
        /\ acc.plan = <<>> => Append(acc.plan, b) = <<b>>
    BY <1>1, <2>1, AtTheEnd
  <2>6. PlanOne(name, st, n, acc) \in Plans(E, st)
    BY <2>2, <2>3, <2>4, <2>5 DEF Plans
  <2> QED BY <2>2, <2>5, <2>6 DEF b
<1> QED BY <1>2, <1>3

\* plan_batches goes on batch by batch.
LEMMA PlanFolds ==
  ASSUME NEW E, NEW name \in PolicyName, NEW st, NEW q \in Seq(E), NEW n
  PROVE  LET s == [i \in DOMAIN q |-> i]
         IN /\ s \in Seq(Nat) /\ Len(s) = Len(q)
            /\ \E acc : /\ FoldedTo(acc, Unplanned(q), Planning(E, name, st, n), s, Plans(E, st))
                        /\ PlanBatches(name, st, q, n) = acc.plan
<1> DEFINE s == [i \in DOMAIN q |-> i]
           A == Plans(E, st)
           base == Unplanned(q)
           op == Planning(E, name, st, n)
           P(f) == f = [I \in SUBSET DOMAIN s |->
                          IF I = {} THEN base ELSE PlanOne(name, st, n, f[I \ {Max(I)}])]
           g == CHOOSE f : P(f)
<1>0. s \in Seq(Nat) /\ Len(s) = Len(q)
  OBVIOUS
<1>1. /\ DOMAIN s = 1..Len(s) /\ Len(s) \in Nat
      /\ \A i \in 1..Len(s) : s[i] \in Nat
      /\ \A I \in SUBSET (1..Len(s)) : I # {} => Max(I) \in I
  BY <1>0, GreatestIndex
<1>2. PlanBatches(name, st, q, n) = g[1..Len(s)].plan
  BY <1>1 DEF PlanBatches, FoldLeft, MapThenFoldSet, Unplanned
<1>3. base \in A /\ op \in [A \X Nat -> A]
  <2>1. base \in A
    BY DEF Unplanned, Plans
  <2>2. ASSUME NEW acc \in A PROVE PlanOne(name, st, n, acc) \in A
    BY <2>2, PlanGrows
  <2> QED BY <2>1, <2>2 DEF Planning
<1> HIDE DEF s, A, base, op
<1>4. P(g)
  <2>1. PICK run \in [SUBSET (1..Len(s)) -> A] : LeftRun(run, base, op, s)
    BY <1>0, <1>3, LeftExists DEF LeftSolvable
  <2>2. ASSUME NEW I \in SUBSET (1..Len(s)), I # {}
        PROVE  run[I] = PlanOne(name, st, n, run[I \ {Max(I)}])
    <3>1. run[I] = op[<<run[I \ {Max(I)}], s[Max(I)]>>]
      BY <2>1, <2>2 DEF LeftRun
    <3>2. run[I \ {Max(I)}] \in A /\ s[Max(I)] \in Nat
      BY <1>1, <2>2
    <3> QED BY <3>1, <3>2 DEF op, A, Planning
  <2>3. run[{}] = base
    BY <2>1 DEF LeftRun
  <2>4. P(run)
    BY <1>1, <2>2, <2>3
  <2> HIDE DEF P
  <2> QED BY <2>4, Zenon
<1>5. LeftLike(g, base, op, s, A)
  <2> HIDE DEF g
  <2>1. g[{}] = base
    BY <1>4
  <2>2. ASSUME NEW I \in SUBSET (1..Len(s)), I # {}, g[I \ {Max(I)}] \in A
        PROVE  g[I] = op[<<g[I \ {Max(I)}], s[Max(I)]>>]
    <3>1. g[I] = PlanOne(name, st, n, g[I \ {Max(I)}])
      BY <1>1, <1>4, <2>2
    <3>2. s[Max(I)] \in Nat
      BY <1>1, <2>2
    <3> QED BY <2>2, <3>1, <3>2 DEF op, A, Planning
  <2> QED BY <2>1, <2>2 DEF LeftLike
<1> QED
  <2> HIDE DEF g
  <2>1. FoldedTo(g[1..Len(s)], base, op, s, A)
    BY <1>0, <1>3, <1>5, LeftStepwise, Zenon
  <2> QED BY <1>0, <1>2, <2>1 DEF s, A, base, op

\* The plan begins with the batch a policy that remembers nothing would make.
LEMMA PlanBegins ==
  ASSUME NEW E, NEW name \in PolicyName, NEW st, NEW q \in Seq(E), q # <<>>, NEW n
  PROVE  /\ 1 \in DOMAIN PlanBatches(name, st, q, n)
         /\ PlanBatches(name, st, q, n)[1] = NextBatch(name, st, q, n, NoKey)
<1> DEFINE s == [i \in DOMAIN q |-> i]
           b == NextBatch(name, st, q, n, NoKey)
<1>1. /\ s \in Seq(Nat) /\ Len(s) = Len(q)
      /\ \E acc : /\ FoldedTo(acc, Unplanned(q), Planning(E, name, st, n), s, Plans(E, st))
                  /\ PlanBatches(name, st, q, n) = acc.plan
  BY PlanFolds
<1> HIDE DEF s
<1>2. PICK steps \in [0..Len(s) -> Plans(E, st)] :
        /\ Stepwise(steps, Unplanned(q), Planning(E, name, st, n), s)
        /\ PlanBatches(name, st, q, n) = steps[Len(s)].plan
  BY <1>1 DEF FoldedTo
<1>3. Len(s) \in Nat /\ Len(s) # 0
  BY <1>1
<1> DEFINE Good == {k \in 0..Len(s) : k # 0 => steps[k].plan # <<>> /\ steps[k].plan[1] = b}
<1>4. 0 \in Good
  BY <1>3
<1>5. ASSUME NEW k \in 0..(Len(s) - 1), k \in Good PROVE k + 1 \in Good
  <2>1. k + 1 \in 1..Len(s) /\ k \in 0..Len(s) /\ k + 1 \in 0..Len(s)
    BY <1>3
  <2>2. steps[k + 1] = Planning(E, name, st, n)[<<steps[k], s[k + 1]>>]
    BY <1>2, <1>3, OneStep
  <2>3. steps[k] \in Plans(E, st) /\ s[k + 1] \in Nat
    BY <1>1, <1>2, <2>1
  <2>4. steps[k + 1] = PlanOne(name, st, n, steps[k])
    BY <2>2, <2>3 DEF Planning
  <2>5. CASE k = 0
    <3>1. steps[k] = Unplanned(q)
      BY <1>2, <2>5 DEF Stepwise
    <3>2. steps[k].plan = <<>> /\ steps[k].left = q /\ steps[k].last = NoKey
      BY <3>1 DEF Unplanned
    <3>3. steps[k + 1].plan = <<b>>
      BY <2>3, <2>4, <3>2, PlanGrows
    <3> HIDE DEF b
    <3>4. steps[k + 1].plan # <<>> /\ steps[k + 1].plan[1] = b
      BY <3>3
    <3> QED BY <2>1, <3>4
  <2>6. CASE k # 0
    <3>1. steps[k].plan # <<>> /\ steps[k].plan[1] = b
      BY <1>5, <2>6
    <3>2. steps[k + 1].plan # <<>> /\ steps[k + 1].plan[1] = b
      BY <2>3, <2>4, <3>1, PlanGrows
    <3> QED BY <2>1, <3>2
  <2> QED BY <2>5, <2>6
<1>6. 0..Len(s) \subseteq Good
  <2> HIDE DEF Good
  <2> QED BY <1>3, <1>4, <1>5, AllUpTo
<1>7. steps[Len(s)].plan # <<>> /\ steps[Len(s)].plan[1] = b
  BY <1>3, <1>6
<1>8. 1 \in DOMAIN steps[Len(s)].plan
  <2>1. steps[Len(s)].plan \in Seq(Seq(E))
    BY <1>2, <1>3 DEF Plans
  <2> QED BY <1>7, <2>1
<1> QED BY <1>2, <1>7, <1>8

\* A policy without a memory makes the same whatever was made before.
LEMMA NothingRemembered ==
  ASSUME NEW name \in PolicyName, name # "bounded_reorder",
         NEW st, NEW q, NEW n, NEW last, NEW other
  PROVE  NextBatch(name, st, q, n, last) = NextBatch(name, st, q, n, other)
<1>1. CASE name = "fifo"
  BY <1>1 DEF NextBatch
<1>2. CASE name = "batch_milk"
  BY <1>2 DEF NextBatch
<1> QED BY <1>1, <1>2 DEF PolicyName
-----------------------------------------------------------------------------
(* Sums of sequences *)

Adding == [p \in Int \X Int |-> p[1] + p[2]]

\* SumSeq adds from the first to the last.
LEMMA SumFolds ==
  ASSUME NEW ns \in Seq(Int)
  PROVE  FoldedTo(SumSeq(ns), 0, Adding, ns, Int)
<1> DEFINE P(f) == f = [I \in SUBSET DOMAIN ns |->
                          IF I = {} THEN 0 ELSE f[I \ {Max(I)}] + ns[Max(I)]]
           g == CHOOSE f : P(f)
<1>1. /\ DOMAIN ns = 1..Len(ns) /\ Len(ns) \in Nat
      /\ \A i \in 1..Len(ns) : ns[i] \in Int
      /\ \A I \in SUBSET (1..Len(ns)) : I # {} => Max(I) \in I
  BY GreatestIndex
<1>2. SumSeq(ns) = g[1..Len(ns)]
  BY <1>1 DEF SumSeq, FoldLeft, MapThenFoldSet
<1>3. 0 \in Int /\ Adding \in [Int \X Int -> Int]
  BY DEF Adding
<1>4. P(g)
  <2>1. PICK run \in [SUBSET (1..Len(ns)) -> Int] : LeftRun(run, 0, Adding, ns)
    BY <1>3, LeftExists DEF LeftSolvable
  <2>2. ASSUME NEW I \in SUBSET (1..Len(ns)), I # {}
        PROVE  run[I] = run[I \ {Max(I)}] + ns[Max(I)]
    <3>1. run[I] = Adding[<<run[I \ {Max(I)}], ns[Max(I)]>>]
      BY <2>1, <2>2 DEF LeftRun
    <3>2. run[I \ {Max(I)}] \in Int /\ ns[Max(I)] \in Int
      BY <1>1, <2>2
    <3> QED BY <3>1, <3>2 DEF Adding
  <2>3. run[{}] = 0
    BY <2>1 DEF LeftRun
  <2>4. P(run)
    BY <1>1, <2>2, <2>3
  <2> HIDE DEF P
  <2> QED BY <2>4, Zenon
<1>5. LeftLike(g, 0, Adding, ns, Int)
  <2> HIDE DEF g
  <2>1. g[{}] = 0
    BY <1>4
  <2>2. ASSUME NEW I \in SUBSET (1..Len(ns)), I # {}, g[I \ {Max(I)}] \in Int
        PROVE  g[I] = Adding[<<g[I \ {Max(I)}], ns[Max(I)]>>]
    <3>1. g[I] = g[I \ {Max(I)}] + ns[Max(I)]
      BY <1>1, <1>4, <2>2
    <3>2. ns[Max(I)] \in Int
      BY <1>1, <2>2
    <3> QED BY <2>2, <3>1, <3>2 DEF Adding
  <2> QED BY <2>1, <2>2 DEF LeftLike
<1> QED
  <2> HIDE DEF g
  <2>1. FoldedTo(g[1..Len(ns)], 0, Adding, ns, Int)
    BY <1>3, <1>5, LeftStepwise, Zenon
  <2> QED BY <1>2, <2>1

\* A sum is a number, and one more number adds to it.
LEMMA SumAppend ==
  ASSUME NEW ns \in Seq(Int), NEW x \in Int
  PROVE  SumSeq(ns) \in Int /\ SumSeq(Append(ns, x)) = SumSeq(ns) + x
<1>1. Append(ns, x) \in Seq(Int)
  OBVIOUS
<1>2. /\ FoldedTo(SumSeq(ns), 0, Adding, ns, Int)
      /\ FoldedTo(SumSeq(Append(ns, x)), 0, Adding, Append(ns, x), Int)
  BY <1>1, SumFolds
<1>3. Continues(SumSeq(ns), SumSeq(Append(ns, x)), x, Adding, Int)
  BY <1>2, OneMoreStep
<1> QED BY <1>3 DEF Continues, Adding

\* The sum of nothing.
LEMMA SumOfNothing == SumSeq(<<>>) = 0
<1>1. <<>> \in Seq(Int) /\ Len(<<>>) = 0
  OBVIOUS
<1>2. FoldedTo(SumSeq(<<>>), 0, Adding, <<>>, Int)
  BY <1>1, SumFolds
<1> QED BY <1>1, <1>2 DEF FoldedTo, Stepwise

\* The sum of two sequences put together.
LEMMA SumConcat ==
  ASSUME NEW a \in Seq(Int), NEW b \in Seq(Int)
  PROVE  SumSeq(a \o b) = SumSeq(a) + SumSeq(b)
<1> DEFINE S == { s \in Seq(Int) : SumSeq(a \o s) = SumSeq(a) + SumSeq(s) }
<1>0. \A s \in Seq(Int) : SumSeq(s) \in Int
  BY SumAppend, 0 \in Int
<1>1. <<>> \in S
  <2>1. a \o <<>> = a /\ <<>> \in Seq(Int)
    OBVIOUS
  <2>2. SumSeq(a) = SumSeq(a) + 0
    BY <1>0
  <2>3. SumSeq(a \o <<>>) = SumSeq(a) + SumSeq(<<>>)
    BY <2>1, <2>2, SumOfNothing
  <2> QED BY <2>1, <2>3
<1>2. Grows(S, Int)
  <2> SUFFICES ASSUME NEW s \in Seq(Int), s \in S, NEW e \in Int
               PROVE  Append(s, e) \in S
    BY DEF Grows
  <2>1. a \o Append(s, e) = Append(a \o s, e) /\ a \o s \in Seq(Int) /\ Append(s, e) \in Seq(Int)
    OBVIOUS
  <2>2. SumSeq(a \o Append(s, e)) = SumSeq(a \o s) + e
    BY <2>1, SumAppend
  <2>3. SumSeq(Append(s, e)) = SumSeq(s) + e
    BY SumAppend
  <2>4. SumSeq(a \o s) = SumSeq(a) + SumSeq(s)
    OBVIOUS
  <2>5. SumSeq(a) \in Int /\ SumSeq(s) \in Int
    BY <1>0
  <2>6. SumSeq(a \o Append(s, e)) = SumSeq(a) + SumSeq(Append(s, e))
    BY <2>2, <2>3, <2>4, <2>5
  <2> QED BY <2>1, <2>6
<1>3. b \in S
  <2> HIDE DEF S
  <2> QED BY <1>1, <1>2, AllSequences
<1> QED BY <1>3

\* The sum of a sequence is the sum over its positions.
LEMMA SumIsOver ==
  ASSUME NEW ns \in Seq(Int)
  PROVE  SumSeq(ns) = SumOver(ns, 1..Len(ns))
<1> DEFINE n == Len(ns)
<1>1. n \in Nat /\ \A i \in 1..n : ns[i] \in Int
  OBVIOUS
<1>2. PICK steps \in [0..n -> Int] : Stepwise(steps, 0, Adding, ns) /\ SumSeq(ns) = steps[n]
  BY SumFolds DEF FoldedTo
<1> DEFINE Good == { k \in 0..n : steps[k] = SumOver(ns, 1..k) }
<1>3. 0 \in Good
  <2>1. 1..0 = {}
    OBVIOUS
  <2>2. SumOver(ns, 1..0) = 0
    BY <2>1, SumOfNone
  <2> QED BY <1>1, <1>2, <2>2 DEF Stepwise
<1>4. ASSUME NEW k \in 0..(n - 1), k \in Good PROVE k + 1 \in Good
  <2>1. k + 1 \in 1..n /\ k \in 0..n /\ k + 1 \in 0..n /\ k \in Nat
    BY <1>1
  <2>2. steps[k + 1] = Adding[<<steps[k], ns[k + 1]>>]
    BY <1>1, <1>2, OneStep
  <2>3. steps[k] \in Int /\ ns[k + 1] \in Int
    BY <1>1, <2>1
  <2>4. steps[k + 1] = steps[k] + ns[k + 1]
    BY <2>2, <2>3 DEF Adding
  <2>5. PICK j \in 1..n : j = k + 1
    BY <2>1
  <2>6. IsFiniteSet(1..j) /\ (1..j) \ {j} = 1..k /\ j \in 1..j /\ \A i \in 1..j : ns[i] \in Int
    <3>1. (1..j) \ {j} = 1..k /\ j \in 1..j /\ \A i \in 1..j : ns[i] \in Int
      BY <1>1, <2>1, <2>5
    <3>2. IsFiniteSet(1..j)
      <4>1. 1 \in Int /\ j \in Int
        OBVIOUS
      <4> QED BY <4>1, FS_Interval
    <3> QED BY <3>1, <3>2
  <2>7. SumOver(ns, 1..j) = ns[j] + SumOver(ns, 1..k)
    <3> PICK T : T = 1..j
      OBVIOUS
    <3>1. SumOver(ns, T) = ns[j] + SumOver(ns, T \ {j})
      BY <2>6, SumTakeOut
    <3> QED BY <2>6, <3>1
  <2>8. steps[k] = SumOver(ns, 1..k)
    BY <1>4
  <2> QED BY <2>1, <2>3, <2>4, <2>5, <2>7, <2>8
<1>5. 0..n \subseteq Good
  <2> HIDE DEF Good
  <2> QED BY <1>1, <1>3, <1>4, AllUpTo
<1>6. n \in Good
  BY <1>1, <1>5
<1> QED BY <1>2, <1>6

\* A sum of larger numbers is larger.
LEMMA SumMonotone ==
  ASSUME NEW a \in Seq(Int), NEW b \in Seq(Int), Len(a) = Len(b),
         \A i \in 1..Len(a) : a[i] <= b[i]
  PROVE  SumSeq(a) <= SumSeq(b)
<1> DEFINE n == Len(a)
<1>1. n \in Nat /\ Len(b) = n /\ \A i \in 1..n : a[i] \in Int /\ b[i] \in Int
  OBVIOUS
<1>2. PICK x \in [0..n -> Int] : Stepwise(x, 0, Adding, a) /\ SumSeq(a) = x[n]
  BY SumFolds DEF FoldedTo
<1>3. PICK y \in [0..n -> Int] : Stepwise(y, 0, Adding, b) /\ SumSeq(b) = y[n]
  BY <1>1, SumFolds DEF FoldedTo
<1> DEFINE Good == { k \in 0..n : x[k] <= y[k] }
<1>4. 0 \in Good
  BY <1>1, <1>2, <1>3 DEF Stepwise
<1>5. ASSUME NEW k \in 0..(n - 1), k \in Good PROVE k + 1 \in Good
  <2>1. k + 1 \in 1..n /\ k \in 0..n /\ k + 1 \in 0..n
    BY <1>1
  <2>2. x[k + 1] = Adding[<<x[k], a[k + 1]>>] /\ y[k + 1] = Adding[<<y[k], b[k + 1]>>]
    <3>1. x[k + 1] = Adding[<<x[k], a[k + 1]>>]
      BY <1>1, <1>2, OneStep
    <3>2. k \in 0..(Len(b) - 1) /\ Len(b) \in Nat
      BY <1>1
    <3>3. y[k + 1] = Adding[<<y[k], b[k + 1]>>]
      BY <1>3, <3>2, OneStep
    <3> QED BY <3>1, <3>3
  <2>3. x[k] \in Int /\ y[k] \in Int /\ a[k + 1] \in Int /\ b[k + 1] \in Int /\ x[k] <= y[k]
    BY <1>1, <1>5, <2>1
  <2>4. x[k + 1] = x[k] + a[k + 1] /\ y[k + 1] = y[k] + b[k + 1]
    BY <2>2, <2>3 DEF Adding
  <2>5. a[k + 1] <= b[k + 1]
    BY <2>1
  <2>6. x[k + 1] <= y[k + 1]
    BY <2>3, <2>4, <2>5
  <2> QED BY <2>1, <2>6
<1>6. 0..n \subseteq Good
  <2> HIDE DEF Good
  <2> QED BY <1>1, <1>4, <1>5, AllUpTo
<1>7. n \in Good
  BY <1>1, <1>6
<1> QED BY <1>2, <1>3, <1>7
-----------------------------------------------------------------------------
(* What the elements of a sequence weigh *)

Weighed(f, s) == [i \in DOMAIN s |-> f[s[i]]]
Weight(f, s) == SumSeq(Weighed(f, s))
Weighs(f, E) == \A x \in E : f[x] \in Int

LEMMA WeighedOnes ==
  ASSUME NEW E, NEW f, Weighs(f, E), NEW s \in Seq(E)
  PROVE  /\ Weighed(f, s) \in Seq(Int) /\ Len(Weighed(f, s)) = Len(s)
         /\ \A i \in 1..Len(s) : Weighed(f, s)[i] = f[s[i]]
         /\ Weight(f, s) \in Int
<1>1. DOMAIN s = 1..Len(s) /\ Len(s) \in Nat /\ \A i \in 1..Len(s) : s[i] \in E
  OBVIOUS
<1> DEFINE w == Weighed(f, s)
<1>2. w = [i \in 1..Len(s) |-> w[i]] /\ \A i \in 1..Len(s) : w[i] = f[s[i]]
  BY <1>1 DEF Weighed
<1>3. \A i \in 1..Len(s) : w[i] \in Int
  BY <1>1, <1>2 DEF Weighs
<1> HIDE DEF w
<1>4. w \in Seq(Int) /\ Len(w) = Len(s)
  BY <1>1, <1>2, <1>3, SeqOnInterval
<1>5. SumSeq(w) \in Int
  BY <1>4, SumAppend, 0 \in Int
<1> QED BY <1>2, <1>4, <1>5 DEF w, Weight

\* One element more weighs what it weighs.
LEMMA WeightAppend ==
  ASSUME NEW E, NEW f, Weighs(f, E), NEW s \in Seq(E), NEW x \in E
  PROVE  Weight(f, s) \in Int /\ Weight(f, Append(s, x)) = Weight(f, s) + f[x]
<1> DEFINE t == Append(s, x)
<1>1. /\ t \in Seq(E) /\ Len(t) = Len(s) + 1 /\ Len(s) \in Nat
      /\ t[Len(s) + 1] = x /\ \A i \in 1..Len(s) : t[i] = s[i]
  OBVIOUS
<1> HIDE DEF t
<1> DEFINE a == Weighed(f, s)
           b == Weighed(f, t)
<1>2. /\ a \in Seq(Int) /\ Len(a) = Len(s) /\ \A i \in 1..Len(s) : a[i] = f[s[i]]
      /\ b \in Seq(Int) /\ Len(b) = Len(t) /\ \A i \in 1..Len(t) : b[i] = f[t[i]]
  BY <1>1, WeighedOnes
<1>3. f[x] \in Int
  BY DEF Weighs
<1> HIDE DEF a, b
<1>4. b = Append(a, f[x])
  <2>1. /\ Append(a, f[x]) \in Seq(Int) /\ Len(Append(a, f[x])) = Len(a) + 1
        /\ Append(a, f[x])[Len(a) + 1] = f[x]
        /\ \A i \in 1..Len(a) : Append(a, f[x])[i] = a[i]
    BY <1>2, <1>3
  <2>2. \A i \in 1..(Len(s) + 1) : i \in 1..Len(s) \/ i = Len(s) + 1
    BY <1>1
  <2>3. \A i \in 1..Len(b) : b[i] = Append(a, f[x])[i]
    BY <1>1, <1>2, <2>1, <2>2
  <2> QED BY <1>1, <1>2, <2>1, <2>3
<1>5. SumSeq(a) \in Int /\ SumSeq(b) = SumSeq(a) + f[x]
  BY <1>2, <1>3, <1>4, SumAppend
<1> QED BY <1>5 DEF a, b, t, Weight

\* Nothing weighs nothing.
LEMMA WeightOfNothing == ASSUME NEW f PROVE Weight(f, <<>>) = 0
<1>1. Weighed(f, <<>>) = <<>>
  BY DEF Weighed
<1> QED BY <1>1, SumOfNothing DEF Weight

\* Two sequences put together weigh what both do.
LEMMA WeightConcat ==
  ASSUME NEW E, NEW f, Weighs(f, E), NEW s \in Seq(E), NEW t \in Seq(E)
  PROVE  Weight(f, s \o t) = Weight(f, s) + Weight(f, t)
<1> DEFINE S == { b \in Seq(E) : Weight(f, s \o b) = Weight(f, s) + Weight(f, b) }
<1>0. \A b \in Seq(E) : Weight(f, b) \in Int
  BY WeighedOnes
<1>1. <<>> \in S
  <2>1. s \o <<>> = s /\ <<>> \in Seq(E)
    OBVIOUS
  <2>2. Weight(f, s) = Weight(f, s) + 0
    BY <1>0
  <2>3. Weight(f, s \o <<>>) = Weight(f, s) + Weight(f, <<>>)
    BY <2>1, <2>2, WeightOfNothing
  <2> QED BY <2>1, <2>3
<1>2. Grows(S, E)
  <2> SUFFICES ASSUME NEW b \in Seq(E), b \in S, NEW e \in E
               PROVE  Append(b, e) \in S
    BY DEF Grows
  <2>1. s \o Append(b, e) = Append(s \o b, e) /\ s \o b \in Seq(E) /\ Append(b, e) \in Seq(E)
    OBVIOUS
  <2>2. Weight(f, s \o Append(b, e)) = Weight(f, s \o b) + f[e]
    BY <2>1, WeightAppend
  <2>3. Weight(f, Append(b, e)) = Weight(f, b) + f[e]
    BY WeightAppend
  <2>4. Weight(f, s \o b) = Weight(f, s) + Weight(f, b)
    OBVIOUS
  <2>5. Weight(f, s) \in Int /\ Weight(f, b) \in Int /\ f[e] \in Int
    BY <1>0 DEF Weighs
  <2>6. Weight(f, s \o Append(b, e)) = Weight(f, s) + Weight(f, Append(b, e))
    BY <2>2, <2>3, <2>4, <2>5
  <2> QED BY <2>1, <2>6
<1>3. t \in S
  <2> HIDE DEF S
  <2> QED BY <1>1, <1>2, AllSequences
<1> QED BY <1>3

\* What is put together weighs what its parts do.
Loads(f, ss) == [k \in DOMAIN ss |-> Weight(f, ss[k])]

\* One part more adds its weight.
LEMMA LoadsAppend ==
  ASSUME NEW E, NEW f, Weighs(f, E), NEW ss \in Seq(Seq(E)), NEW s \in Seq(E)
  PROVE  /\ Loads(f, ss) \in Seq(Int) /\ Len(Loads(f, ss)) = Len(ss)
         /\ \A k \in 1..Len(ss) : Loads(f, ss)[k] = Weight(f, ss[k])
         /\ SumSeq(Loads(f, Append(ss, s))) = SumSeq(Loads(f, ss)) + Weight(f, s)
         /\ SumSeq(Loads(f, ss)) \in Int
<1> DEFINE g == [b \in Seq(E) |-> Weight(f, b)]
<1>1. Weighs(g, Seq(E))
  BY WeighedOnes DEF Weighs
<1>2. \A tt \in Seq(Seq(E)) : Loads(f, tt) = Weighed(g, tt)
  <2> SUFFICES ASSUME NEW tt \in Seq(Seq(E)) PROVE Loads(f, tt) = Weighed(g, tt)
    OBVIOUS
  <2>1. \A k \in DOMAIN tt : tt[k] \in Seq(E)
    OBVIOUS
  <2>2. \A k \in DOMAIN tt : g[tt[k]] = Weight(f, tt[k])
    BY <2>1
  <2> QED BY <2>2 DEF Loads, Weighed
<1>3. g[s] = Weight(f, s) /\ Append(ss, s) \in Seq(Seq(E))
  OBVIOUS
<1>4. \A k \in 1..Len(ss) : g[ss[k]] = Weight(f, ss[k])
  OBVIOUS
<1> HIDE DEF g
<1>5. /\ Weighed(g, ss) \in Seq(Int) /\ Len(Weighed(g, ss)) = Len(ss)
      /\ \A k \in 1..Len(ss) : Weighed(g, ss)[k] = g[ss[k]]
  BY <1>1, WeighedOnes
<1>6. Weight(g, ss) \in Int /\ Weight(g, Append(ss, s)) = Weight(g, ss) + g[s]
  BY <1>1, WeightAppend
<1> QED BY <1>2, <1>3, <1>4, <1>5, <1>6 DEF Weight

\* The weights of sequences, one for each.
LEMMA LoadsAreNumbers ==
  ASSUME NEW E, NEW f, Weighs(f, E), NEW ss \in Seq(Seq(E))
  PROVE  /\ Loads(f, ss) \in Seq(Int) /\ Len(Loads(f, ss)) = Len(ss)
         /\ \A k \in 1..Len(ss) : Loads(f, ss)[k] = Weight(f, ss[k])
         /\ SumSeq(Loads(f, ss)) \in Int
<1>1. <<>> \in Seq(E)
  OBVIOUS
<1> QED BY ONLY <1>1, Weighs(f, E), ss \in Seq(Seq(E)), LoadsAppend

\* Flattened parts weigh what the parts do.
LEMMA WeightFlatten ==
  ASSUME NEW E, NEW f, Weighs(f, E), NEW ss \in Seq(Seq(E))
  PROVE  Weight(f, FlattenSeq(ss)) = SumSeq(Loads(f, ss))
<1> DEFINE S == { tt \in Seq(Seq(E)) : Weight(f, FlattenSeq(tt)) = SumSeq(Loads(f, tt)) }
<1>1. <<>> \in S
  <2>1. FlattenSeq(<<>>) = <<>> /\ <<>> \in Seq(Seq(E))
    BY DEF FlattenSeq
  <2>2. Loads(f, <<>>) = <<>>
    BY DEF Loads
  <2> QED BY <2>1, <2>2, WeightOfNothing, SumOfNothing
<1>2. Grows(S, Seq(E))
  <2> SUFFICES ASSUME NEW tt \in Seq(Seq(E)), tt \in S, NEW s \in Seq(E)
               PROVE  Append(tt, s) \in S
    BY DEF Grows
  <2>1. FlattenSeq(Append(tt, s)) = FlattenSeq(tt) \o s /\ FlattenSeq(tt) \in Seq(E)
    BY FlattenAppend
  <2>2. Weight(f, FlattenSeq(tt) \o s) = Weight(f, FlattenSeq(tt)) + Weight(f, s)
    BY <2>1, WeightConcat
  <2>3. SumSeq(Loads(f, Append(tt, s))) = SumSeq(Loads(f, tt)) + Weight(f, s)
    BY LoadsAppend
  <2>4. Weight(f, FlattenSeq(tt)) = SumSeq(Loads(f, tt)) /\ Append(tt, s) \in Seq(Seq(E))
    OBVIOUS
  <2> QED BY <2>1, <2>2, <2>3, <2>4
<1>3. ss \in S
  <2> HIDE DEF S
  <2> QED BY <1>1, <1>2, AllSequences
<1> QED BY <1>3
-----------------------------------------------------------------------------
(* What work costs *)

\* There are finitely many cost fields.
LEMMA FewFields == IsFiniteSet(CostField)
<1>1. ASSUME NEW a, NEW b PROVE IsFiniteSet({a, b})
  <2>1. {a, b} = {a} \cup {b}
    OBVIOUS
  <2>2. IsFiniteSet({a}) /\ IsFiniteSet({b})
    BY FS_Singleton
  <2> QED BY <2>1, <2>2, FS_Union
<1>2. ASSUME NEW a, NEW b, NEW c, NEW d PROVE IsFiniteSet({a, b, c, d})
  <2>1. {a, b, c, d} = {a, b} \cup {c, d}
    OBVIOUS
  <2>2. IsFiniteSet({a, b}) /\ IsFiniteSet({c, d})
    BY <1>1
  <2> QED BY <2>1, <2>2, FS_Union
<1>3. CostField = {"base_s", "setup_s", "per_6oz_s", "shot_s"}
                    \cup {"per_item_s", "food_s", "run_s", "pour_s"}
  BY DEF CostField
<1>4. /\ IsFiniteSet({"base_s", "setup_s", "per_6oz_s", "shot_s"})
      /\ IsFiniteSet({"per_item_s", "food_s", "run_s", "pour_s"})
  BY <1>2
<1> QED BY <1>3, <1>4, FS_Union

\* What a station is paid for anything is a number of seconds.
LEMMA TermsAreSeconds ==
  ASSUME NEW st, StationHolds(st)
  PROVE  /\ \A what : SumPer(st, what) \in Nat
         /\ \A part \in SUBSET FieldsPer(st, "item") : SumOf(st.cost, part) \in Nat
<1>1. ASSUME NEW what, NEW part \in SUBSET FieldsPer(st, what)
      PROVE  SumOf(st.cost, part) \in Nat
  <2>1. part \in SUBSET CostField /\ \A field \in part : st.cost[field] \in Nat
    BY DEF FieldsPer, StationHolds
  <2>2. IsFiniteSet(part)
    BY <2>1, FewFields, FS_Subset
  <2>3. SumOver(st.cost, part) \in Nat
    BY <2>1, <2>2, SumOfNaturals
  <2>4. SumOf(st.cost, part) = SumOver(st.cost, part)
    BY Zenon DEF SumOf, SumOver
  <2> QED BY <2>3, <2>4
<1> QED BY <1>1 DEF SumPer

\* A task takes a natural number of seconds.
LEMMA TasksTakeTime ==
  ASSUME NEW st, StationHolds(st), NEW task \in [units : Nat, shots : Nat],
         NEW food \in BOOLEAN
  PROVE  TaskSeconds(st, task, food, FALSE) \in Nat
<1> DEFINE S == FieldsPer(st, "item")
           f == [field \in S |-> st.cost[field] * Scale(field, task)]
<1>1. S \in SUBSET CostField /\ \A field \in S : st.cost[field] \in Nat
  BY DEF FieldsPer, StationHolds
<1>2. \A field \in S : f[field] \in Nat
  <2> SUFFICES ASSUME NEW field \in S PROVE st.cost[field] * Scale(field, task) \in Nat
    OBVIOUS
  <2>1. PICK a \in Nat : a = st.cost[field]
    BY <1>1
  <2>2. PICK b \in Nat : b = Scale(field, task)
    BY DEF Scale
  <2>3. a * b \in Nat
    OBVIOUS
  <2> QED BY <2>1, <2>2, <2>3
<1> HIDE DEF f
<1>3. IsFiniteSet(S)
  BY <1>1, FewFields, FS_Subset
<1>4. SumOver(f, S) \in Nat
  BY <1>2, <1>3, SumOfNaturals
<1>5. SumOf(f, S) = SumOver(f, S)
  BY Zenon DEF SumOf, SumOver
<1>6. SumPer(st, "food_item") \in Nat
  BY TermsAreSeconds
<1> HIDE DEF S
<1>7. TaskSeconds(st, task, food, FALSE)
        = SumOf(f, S) + (IF food THEN SumPer(st, "food_item") ELSE 0) + 0
  BY DEF TaskSeconds, f, S
<1>8. PICK a \in Nat : a = SumOf(f, S)
  BY <1>4, <1>5
<1>9. PICK b \in Nat : b = IF food THEN SumPer(st, "food_item") ELSE 0
  <2>1. CASE food
    BY <1>6, <2>1
  <2>2. CASE ~food
    BY <2>2
  <2> QED BY <2>1, <2>2
<1>10. a + b + 0 \in Nat
  OBVIOUS
<1> QED BY <1>7, <1>8, <1>9, <1>10

\* Sums of naturals are naturals.
LEMMA SumIsNatural ==
  ASSUME NEW ns \in Seq(Nat)
  PROVE  SumSeq(ns) \in Nat
<1> DEFINE S == { s \in Seq(Nat) : SumSeq(s) \in Nat }
<1>1. <<>> \in S
  BY SumOfNothing
<1>2. Grows(S, Nat)
  <2> SUFFICES ASSUME NEW s \in Seq(Nat), s \in S, NEW e \in Nat
               PROVE  Append(s, e) \in S
    BY DEF Grows
  <2>1. s \in Seq(Int) /\ e \in Int /\ Append(s, e) \in Seq(Nat)
    OBVIOUS
  <2>2. SumSeq(Append(s, e)) = SumSeq(s) + e
    BY <2>1, SumAppend
  <2>3. SumSeq(s) \in Nat
    OBVIOUS
  <2> QED BY <2>1, <2>2, <2>3
<1>3. ns \in S
  <2> HIDE DEF S
  <2> QED BY <1>1, <1>2, AllSequences
<1> QED BY <1>3

\* So does an item, with its tasks or without.
LEMMA ItemsTakeTime ==
  ASSUME NEW st, StationHolds(st), NEW item, IsItem(item)
  PROVE  ItemSeconds(st, item) \in Nat
<1>1. CASE item.tasks = <<>>
  <2>1. /\ SumOf(st.cost, FieldsPer(st, "item") \ {"per_6oz_s", "shot_s"}) \in Nat
        /\ SumPer(st, "food_item") \in Nat
    BY TermsAreSeconds
  <2> QED BY <1>1, <2>1 DEF ItemSeconds
<1>2. CASE item.tasks # <<>>
  <2> DEFINE n == Len(item.tasks)
             w == [i \in DOMAIN item.tasks |-> TaskSeconds(st, item.tasks[i], item.food, FALSE)]
  <2>1. /\ DOMAIN item.tasks = 1..n /\ n \in Nat
        /\ \A i \in 1..n : item.tasks[i] \in [units : Nat, shots : Nat]
    <3>1. PICK tasks \in Seq([units : Nat, shots : Nat]) : tasks = item.tasks
      BY DEF IsItem
    <3>2. /\ DOMAIN tasks = 1..Len(tasks) /\ Len(tasks) \in Nat
          /\ \A i \in 1..Len(tasks) : tasks[i] \in [units : Nat, shots : Nat]
      <4> DEFINE Task == [units : Nat, shots : Nat]
      <4>1. tasks \in Seq(Task)
        OBVIOUS
      <4> HIDE DEF Task
      <4>2. DOMAIN tasks = 1..Len(tasks) /\ Len(tasks) \in Nat /\ \A i \in 1..Len(tasks) : tasks[i] \in Task
        BY <4>1
      <4> QED BY <4>2 DEF Task
    <3> QED BY <3>1, <3>2
  <2>2. \A i \in 1..n : TaskSeconds(st, item.tasks[i], item.food, FALSE) \in Nat
    BY <2>1, TasksTakeTime DEF IsItem
  <2>3. w = [i \in 1..n |-> w[i]] /\ \A i \in 1..n : w[i] \in Nat
    BY <2>1, <2>2
  <2>4. ItemSeconds(st, item) = SumSeq(w)
    BY <1>2 DEF ItemSeconds
  <2> HIDE DEF w
  <2>5. w \in Seq(Nat)
    BY <2>1, <2>3, SeqOnInterval
  <2> QED BY <2>4, <2>5, SumIsNatural
<1> QED BY <1>1, <1>2
-----------------------------------------------------------------------------
(* What a run costs *)

AreItems(E) == \A x \in E : IsItem(x)

\* The seconds of an item in a run, of an item run alone, and of a run.
Seconds(st, E) == [x \in E |-> ItemSeconds(st, x)]
Alone(st, E) == [x \in E |-> SumPer(st, "batch") + ItemSeconds(st, x)]
Runs(st, E) == [b \in Seq(E) |-> WorkSeconds(st, b)]

\* What items take in a batch and alone, as weights.
LEMMA SecondsAreNumbers ==
  ASSUME NEW st, StationHolds(st), NEW E, AreItems(E)
  PROVE  /\ Weighs(Seconds(st, E), E) /\ Weighs(Alone(st, E), E)
         /\ \A x \in E : /\ Seconds(st, E)[x] = ItemSeconds(st, x)
                         /\ Alone(st, E)[x] = SumPer(st, "batch") + ItemSeconds(st, x)
                         /\ ItemSeconds(st, x) \in Nat /\ Alone(st, E)[x] \in Nat
         /\ SumPer(st, "batch") \in Nat
<1>1. \A x \in E : ItemSeconds(st, x) \in Nat
  BY ItemsTakeTime DEF AreItems
<1>2. SumPer(st, "batch") \in Nat
  BY TermsAreSeconds
<1> QED BY <1>1, <1>2 DEF Seconds, Alone, Weighs

\* A run pays its setup once, and then every item.
LEMMA RunPays ==
  ASSUME NEW st, StationHolds(st), NEW E, AreItems(E), NEW b \in Seq(E)
  PROVE  /\ WorkSeconds(st, b)
              = IF b = <<>> THEN 0 ELSE SumPer(st, "batch") + Weight(Seconds(st, E), b)
         /\ WorkSeconds(st, b) \in Int
<1> DEFINE f == Seconds(st, E)
           w == [i \in DOMAIN b |-> ItemSeconds(st, b[i])]
<1>1. \A i \in DOMAIN b : f[b[i]] = ItemSeconds(st, b[i])
  <2>1. \A i \in DOMAIN b : b[i] \in E
    OBVIOUS
  <2> QED BY <2>1, SecondsAreNumbers
<1>2. w = Weighed(f, b)
  BY <1>1 DEF Weighed
<1>3. WorkSeconds(st, b) = IF b = <<>> THEN 0 ELSE SumPer(st, "batch") + SumSeq(w)
  BY DEF WorkSeconds
<1>4. SumPer(st, "batch") \in Nat /\ Weight(f, b) \in Int
  BY SecondsAreNumbers, WeighedOnes
<1> HIDE DEF f, w
<1> QED BY <1>2, <1>3, <1>4 DEF f, Weight

\* Another item costs a run no more than it would cost alone.
LEMMA RunGrows ==
  ASSUME NEW st, StationHolds(st), NEW E, AreItems(E), NEW b \in Seq(E), NEW x \in E
  PROVE  /\ WorkSeconds(st, <<x>>) = Alone(st, E)[x]
         /\ WorkSeconds(st, Append(b, x)) <= WorkSeconds(st, b) + Alone(st, E)[x]
<1> DEFINE f == Seconds(st, E)
           setup == SumPer(st, "batch")
<1>1. /\ Weighs(f, E) /\ f[x] \in Int /\ setup \in Nat
      /\ Alone(st, E)[x] = setup + f[x] /\ Alone(st, E)[x] \in Nat
  BY SecondsAreNumbers DEF Weighs
<1>2. /\ Append(b, x) \in Seq(E) /\ Append(b, x) # <<>> /\ <<>> \in Seq(E)
      /\ Append(<<>>, x) = <<x>> /\ <<x>> # <<>>
  BY AtTheEnd
<1>3. Weight(f, b) \in Int /\ Weight(f, Append(b, x)) = Weight(f, b) + f[x]
  BY <1>1, WeightAppend
<1>4. Weight(f, <<x>>) = f[x]
  <2>1. Weight(f, Append(<<>>, x)) = Weight(f, <<>>) + f[x]
    BY <1>1, <1>2, WeightAppend
  <2> QED BY <1>1, <1>2, <2>1, WeightOfNothing
<1>5. WorkSeconds(st, Append(b, x)) = setup + Weight(f, Append(b, x))
  BY <1>2, RunPays
<1>6. WorkSeconds(st, b) = IF b = <<>> THEN 0 ELSE setup + Weight(f, b)
  BY RunPays
<1>7. WorkSeconds(st, <<x>>) = setup + Weight(f, <<x>>)
  <2>1. <<x>> \in Seq(E)
    OBVIOUS
  <2> QED BY <1>2, <2>1, RunPays
<1>8. b = <<>> => Weight(f, b) = 0
  BY WeightOfNothing
<1> HIDE DEF f, setup
<1> QED BY <1>1, <1>3, <1>4, <1>5, <1>6, <1>7, <1>8

\* Filling returns batches.
LEMMA FilledIsBatches ==
  ASSUME NEW E, NEW st, NEW s \in Seq(E)
  PROVE  Filled(st, s) \in Seq(Seq(E))
<1> DEFINE A == Seq(Seq(E))
<1>1. FoldedTo(Filled(st, s), <<>>, Filling(E, st), s, A)
  BY FillFolds
<1> HIDE DEF A
<1>2. PICK n \in Nat : n = Len(s)
  OBVIOUS
<1>3. PICK steps \in [0..n -> A] : Filled(st, s) = steps[n]
  BY <1>1, <1>2 DEF FoldedTo
<1>4. Filled(st, s) \in A
  BY <1>2, <1>3
<1> QED BY <1>4 DEF A

\* The next item of those a station fills its batches with.
LEMMA FillAppend ==
  ASSUME NEW E, NEW st, NEW s \in Seq(E), NEW x \in E
  PROVE  /\ Filled(st, s) \in Seq(Seq(E))
         /\ Filled(st, Append(s, x)) = FillOne(st, Filled(st, s), x)
<1>1. Append(s, x) \in Seq(E)
  OBVIOUS
<1>2. /\ FoldedTo(Filled(st, s), <<>>, Filling(E, st), s, Seq(Seq(E)))
      /\ FoldedTo(Filled(st, Append(s, x)), <<>>, Filling(E, st), Append(s, x), Seq(Seq(E)))
  BY <1>1, FillFolds
<1> DEFINE A == Seq(Seq(E))
<1> HIDE DEF A
<1>3. Continues(Filled(st, s), Filled(st, Append(s, x)), x, Filling(E, st), A)
  BY <1>2, OneMoreStep DEF A
<1> QED BY <1>3 DEF Continues, Filling, A

\* Nothing fills no batch.
LEMMA FilledNone ==
  ASSUME NEW st
  PROVE  Filled(st, <<>>) = <<>>
<1>1. <<>> \in Seq({}) /\ Len(<<>>) = 0
  OBVIOUS
<1>2. FoldedTo(Filled(st, <<>>), <<>>, Filling({}, st), <<>>, Seq(Seq({})))
  BY <1>1, FillFolds
<1> QED BY <1>1, <1>2 DEF FoldedTo, Stepwise

\* A sequence that is not empty is all of it but the last, and the last.
Ends(s, front, x) ==
  s = Append(front, x) /\ \A y : [s EXCEPT ![Len(s)] = y] = Append(front, y)

\* A sequence is its front and its last element.
LEMMA AllButLast ==
  ASSUME NEW T, NEW s \in Seq(T), s # <<>>
  PROVE  \E front \in Seq(T), x \in T : Ends(s, front, x)
<1> DEFINE n == Len(s)
           front == [i \in 1..(n - 1) |-> s[i]]
<1>1. n \in Nat /\ n # 0 /\ n \in 1..n /\ s[n] \in T
  OBVIOUS
<1>2. front \in Seq(T) /\ Len(front) = n - 1 /\ \A i \in 1..(n - 1) : front[i] = s[i]
  <2>1. n - 1 \in Nat /\ front = [i \in 1..(n - 1) |-> front[i]]
    BY <1>1
  <2>2. \A i \in 1..(n - 1) : front[i] = s[i] /\ s[i] \in T
    BY <1>1
  <2> HIDE DEF front
  <2> QED BY <2>1, <2>2, SeqOnInterval
<1> HIDE DEF front
<1>3. ASSUME NEW y
      PROVE  [s EXCEPT ![n] = y] = Append(front, y)
  <2>1. PICK U : s \in Seq(U) /\ y \in U /\ front \in Seq(U)
    <3>1. s \in Seq(T \cup {y}) /\ y \in T \cup {y} /\ front \in Seq(T \cup {y})
      BY <1>2
    <3> QED BY <3>1
  <2>2. /\ Append(front, y) \in Seq(U) /\ Len(Append(front, y)) = n
        /\ Append(front, y)[n] = y
        /\ \A i \in 1..(n - 1) : Append(front, y)[i] = front[i]
    BY <1>1, <1>2, <2>1
  <2>3. /\ [s EXCEPT ![n] = y] \in Seq(U) /\ Len([s EXCEPT ![n] = y]) = n
        /\ \A i \in 1..n : [s EXCEPT ![n] = y][i] = IF i = n THEN y ELSE s[i]
    BY <1>1, <2>1
  <2>4. PICK c \in Seq(U) : c = [s EXCEPT ![n] = y]
    BY <2>3
  <2>5. PICK d \in Seq(U) : d = Append(front, y)
    BY <2>2
  <2>6. Len(c) = n /\ Len(d) = n /\ \A i \in 1..n : c[i] = d[i]
    BY <1>1, <1>2, <2>2, <2>3, <2>4, <2>5
  <2>7. c = d
    BY <2>6
  <2> QED BY <2>4, <2>5, <2>7
<1>4. s = Append(front, s[n])
  <2>1. /\ Append(front, s[n]) \in Seq(T) /\ Len(Append(front, s[n])) = n
        /\ Append(front, s[n])[n] = s[n]
        /\ \A i \in 1..(n - 1) : Append(front, s[n])[i] = front[i]
    BY <1>1, <1>2
  <2>2. \A i \in 1..n : Append(front, s[n])[i] = s[i]
    BY <1>1, <1>2, <2>1
  <2> QED BY <2>1, <2>2
<1>5. Ends(s, front, s[n])
  BY <1>3, <1>4 DEF Ends
<1> QED BY <1>1, <1>2, <1>5

\* However a station fills its batches, they cost no more than the items one by one.
LEMMA FillingSaves ==
  ASSUME NEW st, StationHolds(st), NEW E, AreItems(E), NEW s \in Seq(E)
  PROVE  Weight(Runs(st, E), Filled(st, s)) <= Weight(Alone(st, E), s)
<1> DEFINE f == Alone(st, E)
           g == Runs(st, E)
           S == { r \in Seq(E) : Weight(g, Filled(st, r)) <= Weight(f, r) }
<1>1. Weighs(f, E) /\ Weighs(g, Seq(E)) /\ \A b \in Seq(E) : g[b] = WorkSeconds(st, b)
  <2>1. \A b \in Seq(E) : WorkSeconds(st, b) \in Int
    BY RunPays
  <2> QED BY <2>1, SecondsAreNumbers DEF Weighs, Runs
<1>2. <<>> \in S
  <2>1. Weight(g, Filled(st, <<>>)) = 0 /\ Weight(f, <<>>) = 0
    BY FilledNone, WeightOfNothing
  <2> QED BY <2>1
<1>3. Grows(S, E)
  <2> SUFFICES ASSUME NEW r \in Seq(E), r \in S, NEW x \in E
               PROVE  Append(r, x) \in S
    BY DEF Grows
  <2> DEFINE bs == Filled(st, r)
  <2>1. bs \in Seq(Seq(E)) /\ Filled(st, Append(r, x)) = FillOne(st, bs, x)
    BY FillAppend
  <2>2. Weight(g, bs) <= Weight(f, r) /\ Append(r, x) \in Seq(E)
    OBVIOUS
  <2> HIDE DEF bs, f, g, S
  <2>3. /\ Weight(f, r) \in Int /\ Weight(g, bs) \in Int /\ f[x] \in Int
        /\ Weight(f, Append(r, x)) = Weight(f, r) + f[x]
    <3>1. Weight(f, r) \in Int /\ Weight(f, Append(r, x)) = Weight(f, r) + f[x]
      BY <1>1, WeightAppend
    <3>2. Weight(g, bs) \in Int
      BY <1>1, <2>1, WeighedOnes
    <3> QED BY <1>1, <3>1, <3>2 DEF Weighs
  <2>4. ASSUME FillOne(st, bs, x) = Append(bs, <<x>>)
        PROVE  Weight(g, FillOne(st, bs, x)) <= Weight(g, bs) + f[x]
    <3>1. <<x>> \in Seq(E)
      OBVIOUS
    <3>2. Weight(g, Append(bs, <<x>>)) = Weight(g, bs) + g[<<x>>]
      BY <1>1, <2>1, <3>1, WeightAppend
    <3>3. g[<<x>>] = f[x]
      BY <1>1, <3>1, RunGrows DEF f
    <3> QED BY <2>3, <2>4, <3>2, <3>3
  <2>5. ASSUME bs # <<>>, FillOne(st, bs, x) # Append(bs, <<x>>)
        PROVE  Weight(g, FillOne(st, bs, x)) <= Weight(g, bs) + f[x]
    <3>0. PICK front \in Seq(Seq(E)), b \in Seq(E) : Ends(bs, front, b)
      BY <2>1, <2>5, AllButLast
    <3>1. bs = Append(front, b) /\ \A y : [bs EXCEPT ![Len(bs)] = y] = Append(front, y)
      BY <3>0 DEF Ends
    <3>2. FillOne(st, bs, x) = [bs EXCEPT ![Len(bs)] = Append(bs[Len(bs)], x)]
      BY <2>5 DEF FillOne
    <3>3. bs[Len(bs)] = b
      BY <3>1
    <3>4. FillOne(st, bs, x) = Append(front, Append(b, x))
      BY <3>1, <3>2, <3>3
    <3>5. Append(b, x) \in Seq(E)
      OBVIOUS
    <3>6. Weight(g, bs) = Weight(g, front) + g[b] /\ Weight(g, front) \in Int
      BY <1>1, <3>1, WeightAppend
    <3>7. Weight(g, FillOne(st, bs, x)) = Weight(g, front) + g[Append(b, x)]
      BY <1>1, <3>4, <3>5, WeightAppend
    <3>8. g[Append(b, x)] <= g[b] + f[x]
      BY <1>1, <3>5, RunGrows DEF f
    <3>9. g[b] \in Int /\ g[Append(b, x)] \in Int
      BY <1>1, <3>5 DEF Weighs
    <3> QED BY <2>3, <3>6, <3>7, <3>8, <3>9
  <2>6. bs = <<>> => FillOne(st, bs, x) = Append(bs, <<x>>)
    BY DEF FillOne
  <2>7. Weight(g, FillOne(st, bs, x)) <= Weight(g, bs) + f[x]
    BY <2>4, <2>5, <2>6
  <2>8. Weight(g, FillOne(st, bs, x)) \in Int
    <3>1. FillOne(st, bs, x) \in Seq(Seq(E))
      <4>1. Filled(st, Append(r, x)) \in Seq(Seq(E))
        BY <2>2, FilledIsBatches
      <4> QED BY <2>1, <4>1
    <3> QED BY <1>1, <3>1, WeighedOnes
  <2>9. Weight(g, Filled(st, Append(r, x))) <= Weight(f, Append(r, x))
    BY <2>1, <2>2, <2>3, <2>7, <2>8
  <2> QED BY <2>2, <2>9 DEF S
<1>4. s \in S
  <2> HIDE DEF S
  <2> QED BY <1>2, <1>3, AllSequences
<1> QED BY <1>4
-----------------------------------------------------------------------------
(* What a station charges for some items *)

\* The next element of a sequence is in or it is not.
LEMMA AmongAppend ==
  ASSUME NEW E, NEW s \in Seq(E), NEW x \in E, NEW T
  PROVE  /\ Among(s, T) \in Seq(E)
         /\ x \in T => Among(Append(s, x), T) = Append(Among(s, T), x)
         /\ x \notin T => Among(Append(s, x), T) = Among(s, T)
<1>1. Append(s, x) \in Seq(E)
  OBVIOUS
<1>2. /\ FoldedTo(Among(s, T), <<>>, Sieve(E, T), s, Seq(E))
      /\ FoldedTo(Among(Append(s, x), T), <<>>, Sieve(E, T), Append(s, x), Seq(E))
  BY <1>1, AmongFolds
<1> DEFINE A == Seq(E)
<1> HIDE DEF A
<1>3. Continues(Among(s, T), Among(Append(s, x), T), x, Sieve(E, T), A)
  BY <1>2, OneMoreStep DEF A
<1> QED BY <1>3 DEF Continues, Sieve, A

\* Nothing is among nothing.
LEMMA AmongNone ==
  ASSUME NEW T
  PROVE  Among(<<>>, T) = <<>>
<1>1. <<>> \in Seq({}) /\ Len(<<>>) = 0
  OBVIOUS
<1>2. FoldedTo(Among(<<>>, T), <<>>, Sieve({}, T), <<>>, Seq({}))
  BY <1>1, AmongFolds
<1> QED BY <1>1, <1>2 DEF FoldedTo, Stepwise

\* The values of some items come up once each.
Apart(vs) == \A i, j \in 1..Len(vs) : vs[i] = vs[j] => i = j

LEMMA ValuesAreApart ==
  ASSUME NEW E, NEW st, NEW s \in Seq(E)
  PROVE  ValuesIn(st, s) \in Seq(Values(E, st)) /\ Apart(ValuesIn(st, s))
<1> DEFINE n == Len(s)
           A == Seq(Values(E, st))
<1>1. PICK steps \in [0..n -> A] :
        /\ Stepwise(steps, <<>>, Valuing(E, st), s)
        /\ ValuesIn(st, s) = steps[n]
  BY ValuesFold DEF FoldedTo
<1>2. n \in Nat /\ \A i \in 1..n : s[i] \in E
  OBVIOUS
<1> DEFINE Good == {k \in 0..n : Apart(steps[k])}
<1>3. 0 \in Good
  BY <1>1, <1>2 DEF Stepwise, Apart
<1>4. ASSUME NEW k \in 0..(n - 1), k \in Good PROVE k + 1 \in Good
  <2>1. k + 1 \in 1..n /\ k \in 0..n /\ k + 1 \in 0..n
    BY <1>2
  <2>2. steps[k + 1] = Valuing(E, st)[<<steps[k], s[k + 1]>>]
    BY <1>1, <1>2, OneStep
  <2>3. PICK vs \in Seq(Values(E, st)) : vs = steps[k]
    BY <2>1
  <2>4. PICK v \in Values(E, st) : v = BatchValue(st, s[k + 1])
    BY <1>2, <2>1 DEF Values
  <2>5. steps[k + 1] = IF v \in ToSet(vs) THEN vs ELSE Append(vs, v)
    <3>1. s[k + 1] \in E
      BY <1>2, <2>1
    <3>2. steps[k + 1] = AddValue(st, vs, s[k + 1])
      BY <2>2, <2>3, <3>1 DEF Valuing
    <3> QED BY <2>4, <3>2 DEF AddValue
  <2>6. Apart(vs)
    BY <1>4, <2>3
  <2>7. v \notin ToSet(vs) => Apart(Append(vs, v))
    <3>1. PICK t : t = Append(vs, v)
      OBVIOUS
    <3>2. PICK len \in Nat : len = Len(vs)
      OBVIOUS
    <3>3. Len(t) = len + 1 /\ t[len + 1] = v /\ \A m \in 1..len : t[m] = vs[m]
      BY <3>1, <3>2
    <3> SUFFICES ASSUME v \notin ToSet(vs), NEW i \in 1..(len + 1), NEW j \in 1..(len + 1), t[i] = t[j]
                 PROVE  i = j
      BY <3>1, <3>3 DEF Apart
    <3>4. \A m \in 1..len : t[m] # v
      BY <3>2, <3>3 DEF ToSet
    <3>5. CASE i \in 1..len /\ j \in 1..len
      BY <2>6, <3>2, <3>3, <3>5 DEF Apart
    <3>6. CASE i = len + 1 \/ j = len + 1
      <4>1. t[i] = v /\ t[j] = v
        BY <3>3, <3>6
      <4> QED BY <3>4, <4>1
    <3> QED BY <3>5, <3>6
  <2>8. Apart(steps[k + 1])
    BY <2>5, <2>6, <2>7
  <2> QED BY <2>1, <2>8
<1>5. 0..n \subseteq Good
  <2> HIDE DEF Good
  <2> QED BY <1>2, <1>3, <1>4, AllUpTo
<1>6. n \in Good /\ n \in 0..n
  BY <1>2, <1>5
<1> HIDE DEF A
<1>7. steps[n] \in A /\ Apart(steps[n])
  BY <1>6
<1> QED BY <1>1, <1>7 DEF A

\* The parts that items are sorted into, by their values.
Sorted(s, vs, st, E) == [k \in DOMAIN vs |-> Among(s, {x \in E : BatchValue(st, x) = vs[k]})]

\* Sorting puts nothing into two parts.
LEMMA SortingKeepsWeight ==
  ASSUME NEW E, NEW st, NEW f, \A x \in E : f[x] \in Nat, NEW V, NEW vs \in Seq(V), Apart(vs),
         NEW s \in Seq(E)
  PROVE  /\ Sorted(s, vs, st, E) \in Seq(Seq(E)) /\ Len(Sorted(s, vs, st, E)) = Len(vs)
         /\ SumSeq(Loads(f, Sorted(s, vs, st, E))) <= Weight(f, s)
<1> DEFINE n == Len(vs)
           T(k) == {x \in E : BatchValue(st, x) = vs[k]}
           Parted(r) == Sorted(r, vs, st, E)
           L(r) == Loads(f, Parted(r))
<1>0. n \in Nat /\ DOMAIN vs = 1..n
  OBVIOUS
<1>1. Weighs(f, E)
  BY DEF Weighs
<1>2. ASSUME NEW r \in Seq(E)
      PROVE  /\ Parted(r) \in Seq(Seq(E)) /\ Len(Parted(r)) = n
             /\ L(r) \in Seq(Int) /\ Len(L(r)) = n
             /\ \A k \in 1..n : L(r)[k] = Weight(f, Among(r, T(k))) /\ Among(r, T(k)) \in Seq(E)
  <2> DEFINE ps == Parted(r)
  <2>1. \A k \in 1..n : Among(r, T(k)) \in Seq(E)
    BY AmongIsDrawn
  <2>2. ps = [k \in 1..n |-> ps[k]] /\ \A k \in 1..n : ps[k] = Among(r, T(k))
    BY <1>0 DEF Sorted
  <2> HIDE DEF ps, T
  <2>3. ps \in Seq(Seq(E)) /\ Len(ps) = n
    BY <1>0, <2>1, <2>2, SeqOnInterval
  <2>4. <<>> \in Seq(E)
    OBVIOUS
  <2>5. /\ Loads(f, ps) \in Seq(Int) /\ Len(Loads(f, ps)) = Len(ps)
        /\ \A k \in 1..Len(ps) : Loads(f, ps)[k] = Weight(f, ps[k])
    BY <1>1, <2>3, <2>4, LoadsAppend
  <2> QED BY <2>1, <2>2, <2>3, <2>5 DEF ps
<1> DEFINE S == { r \in Seq(E) : SumSeq(L(r)) <= Weight(f, r) }
<1>3. \A r \in Seq(E) : SumSeq(L(r)) = SumOver(L(r), 1..n)
  <2> HIDE DEF L
  <2> QED BY <1>2, SumIsOver
<1>4. IsFiniteSet(1..n)
  BY <1>0, FS_Interval
<1>5. <<>> \in S
  <2>0. <<>> \in Seq(E)
    OBVIOUS
  <2>1. \A k \in 1..n : L(<<>>)[k] = 0
    <3>2. \A k \in 1..n : L(<<>>)[k] = Weight(f, Among(<<>>, T(k)))
      BY <1>2, <2>0
    <3>3. \A k \in 1..n : Among(<<>>, T(k)) = <<>>
      BY AmongNone
    <3> HIDE DEF L, T
    <3> QED BY <3>2, <3>3, WeightOfNothing
  <2>2. SumSeq(L(<<>>)) = SumOver(L(<<>>), 1..n)
    BY <1>3, <2>0
  <2> HIDE DEF L
  <2>3. SumOver(L(<<>>), 1..n) = 0
    BY <1>4, <2>1, SumOfZeros
  <2>4. SumSeq(L(<<>>)) = 0 /\ Weight(f, <<>>) = 0
    BY <2>2, <2>3, WeightOfNothing
  <2> QED BY <2>0, <2>4
<1>6. Grows(S, E)
  <2> SUFFICES ASSUME NEW r \in Seq(E), r \in S, NEW x \in E
               PROVE  Append(r, x) \in S
    BY DEF Grows
  <2> DEFINE a == L(Append(r, x))
             b == L(r)
  <2>1. Append(r, x) \in Seq(E)
    OBVIOUS
  <2>2. /\ \A k \in 1..n : /\ a[k] = Weight(f, Among(Append(r, x), T(k)))
                           /\ b[k] = Weight(f, Among(r, T(k))) /\ Among(r, T(k)) \in Seq(E)
        /\ a \in Seq(Int) /\ Len(a) = n /\ b \in Seq(Int) /\ Len(b) = n
    <3> HIDE DEF L, T
    <3> QED BY <1>2, <2>1
  <2> HIDE DEF L, T
  <2>3. ASSUME NEW k \in 1..n
        PROVE  a[k] = (IF x \in T(k) THEN b[k] + f[x] ELSE b[k])
    <3>1. /\ x \in T(k) => Among(Append(r, x), T(k)) = Append(Among(r, T(k)), x)
          /\ x \notin T(k) => Among(Append(r, x), T(k)) = Among(r, T(k))
      <4>1. PICK U : U = T(k)
        OBVIOUS
      <4>2. Among(Append(r, x), U) = Append(Among(r, U), x) \/ x \notin U
        BY ONLY AmongAppend
      <4>3. Among(Append(r, x), U) = Among(r, U) \/ x \in U
        BY ONLY AmongAppend
      <4> QED BY <4>1, <4>2, <4>3
    <3>2. Weight(f, Append(Among(r, T(k)), x)) = Weight(f, Among(r, T(k))) + f[x]
      BY <1>1, <2>2, WeightAppend
    <3>3. CASE x \in T(k)
      BY <2>2, <3>1, <3>2, <3>3
    <3>4. CASE x \notin T(k)
      BY <2>2, <3>1, <3>4
    <3> QED BY <3>3, <3>4
  <2>4. \A k \in 1..n : a[k] \in Int /\ b[k] \in Int
    BY <2>2
  <2> HIDE DEF a, b
  <2>5. f[x] \in Nat /\ Weight(f, r) \in Int /\ Weight(f, Append(r, x)) = Weight(f, r) + f[x]
    BY <1>1, WeightAppend
  <2>6. SumOver(b, 1..n) <= Weight(f, r) /\ SumOver(b, 1..n) \in Int
    <3>1. SumSeq(b) <= Weight(f, r) /\ SumSeq(b) = SumOver(b, 1..n)
      BY <1>3 DEF b
    <3>2. SumSeq(b) \in Int
      BY <2>2, SumAppend, 0 \in Int
    <3> QED BY <3>1, <3>2
  <2>10. SumSeq(a) = SumOver(a, 1..n)
    BY <1>3, <2>1 DEF a
  <2>7. (\E k \in 1..n : x \in T(k)) => SumSeq(a) <= Weight(f, Append(r, x))
    <3> HAVE \E k \in 1..n : x \in T(k)
    <3>1. PICK k \in 1..n : x \in T(k)
      OBVIOUS
    <3>2. \A m \in 1..n : m # k => x \notin T(m)
      <4> SUFFICES ASSUME NEW m \in 1..n, x \in T(m) PROVE m = k
        OBVIOUS
      <4>1. vs[m] = vs[k]
        BY <3>1 DEF T
      <4> QED BY <4>1 DEF Apart
    <3>3. DiffersAt(a, b, k, f[x], 1..n)
      BY <2>3, <3>1, <3>2 DEF DiffersAt
    <3>4. SumOver(a, 1..n) = SumOver(b, 1..n) + f[x]
      <4> DEFINE U == 1..n
      <4>1. k \in U /\ IsFiniteSet(U) /\ f[x] \in Int /\ DiffersAt(a, b, k, f[x], U)
        BY <1>4, <2>5, <3>3
      <4>2. \A m \in U : a[m] \in Int /\ b[m] \in Int
        BY <2>4
      <4> HIDE DEF U
      <4>3. SumOver(a, U) = SumOver(b, U) + f[x]
        BY <4>1, <4>2, OneSummand
      <4> QED BY <4>3 DEF U
    <3> QED BY <2>5, <2>6, <2>10, <3>4
  <2>8. (~ \E k \in 1..n : x \in T(k)) => SumSeq(a) <= Weight(f, Append(r, x))
    <3> HAVE ~ \E k \in 1..n : x \in T(k)
    <3>1. \A k \in 1..n : a[k] \in Int /\ b[k] = a[k]
      BY <2>3, <2>4
    <3>2. SumOver(a, 1..n) = SumOver(b, 1..n)
      <4> DEFINE U == 1..n
      <4>1. IsFiniteSet(U) /\ \A k \in U : a[k] \in Int /\ b[k] = a[k]
        BY <1>4, <3>1
      <4> HIDE DEF U
      <4>2. SumOver(a, U) = SumOver(b, U)
        BY <4>1, SumSame
      <4> QED BY <4>2 DEF U
    <3> QED BY <2>5, <2>6, <2>10, <3>2
  <2>9. SumSeq(a) <= Weight(f, Append(r, x))
    BY <2>7, <2>8
  <2> QED BY <2>1, <2>9 DEF a
<1>7. s \in S
  <2> HIDE DEF S
  <2> QED BY <1>5, <1>6, AllSequences
<1>8. SumSeq(L(s)) <= Weight(f, s)
  BY <1>7
<1> QED BY <1>2, <1>8

\* The items that involve the station.
Involved(st, items) == Among(items, {item \in ToSet(items) : Touches(st, item)})

\* The batches a station would run cost no more than their items one by one.
LEMMA GroupSaves ==
  ASSUME NEW st, StationHolds(st), NEW E, AreItems(E), NEW items \in Seq(E)
  PROVE  /\ Involved(st, items) \in Seq(E) /\ Group(st, items) \in Seq(Seq(E))
         /\ Weight(Runs(st, E), Group(st, items)) <= Weight(Alone(st, E), Involved(st, items))
<1> DEFINE f == Alone(st, E)
           g == Runs(st, E)
           w == Involved(st, items)
           W == ToSet(w)
           vs == ValuesIn(st, w)
           parts == Sorted(w, vs, st, W)
           bs == [k \in DOMAIN vs |-> Filled(st, parts[k])]
<1>1. w \in Seq(E)
  <2> DEFINE T == {item \in ToSet(items) : Touches(st, item)}
  <2> HIDE DEF T
  <2>1. Among(items, T) \in Seq(E)
    BY AmongIsDrawn
  <2> QED BY <2>1 DEF T, Involved
<1>2. Group(st, items) = FlattenSeq(bs)
  <2> DEFINE of(v) == Among(w, {item \in ToSet(w) : BatchValue(st, item) = v})
  <2>1. Group(st, items) = FlattenSeq([k \in DOMAIN vs |-> Filled(st, of(vs[k]))])
    BY DEF Group, Involved
  <2>2. \A k \in DOMAIN vs : parts[k] = of(vs[k])
    BY DEF Sorted
  <2>3. bs = [k \in DOMAIN vs |-> Filled(st, of(vs[k]))]
    <3> HIDE DEF parts, of, vs
    <3> QED BY <2>2
  <2> QED BY <2>1, <2>3
<1> HIDE DEF w
<1>3. w \in Seq(W) /\ W \subseteq E
  <2>1. DOMAIN w = 1..Len(w) /\ Len(w) \in Nat /\ w = [i \in 1..Len(w) |-> w[i]]
    BY <1>1
  <2>2. (\A i \in 1..Len(w) : w[i] \in W /\ w[i] \in E) /\ W = {w[i] : i \in 1..Len(w)}
    BY <1>1, <2>1 DEF ToSet
  <2> HIDE DEF W
  <2>3. w \in Seq(W)
    BY <2>1, <2>2, SeqOnInterval
  <2> QED BY <2>2, <2>3
<1>4. /\ Weighs(f, E) /\ \A x \in E : f[x] \in Nat
      /\ Weighs(g, Seq(E))
  <2>1. \A b \in Seq(E) : WorkSeconds(st, b) \in Int
    BY RunPays
  <2> QED BY <2>1, SecondsAreNumbers DEF Weighs, Runs
<1> HIDE DEF W, f, g
<1>5. vs \in Seq(Values(W, st)) /\ Apart(vs)
  BY <1>3, ValuesAreApart
<1> HIDE DEF vs
<1>6. /\ parts \in Seq(Seq(W)) /\ Len(parts) = Len(vs)
      /\ SumSeq(Loads(f, parts)) <= Weight(f, w)
  <2>1. \A x \in W : f[x] \in Nat
    BY <1>3, <1>4
  <2> QED BY <1>3, <1>5, <2>1, SortingKeepsWeight
<1> HIDE DEF parts
<1>7. /\ DOMAIN vs = 1..Len(vs) /\ Len(vs) \in Nat /\ parts \in Seq(Seq(E))
      /\ \A k \in 1..Len(vs) : parts[k] \in Seq(E)
  <2>1. Len(vs) \in Nat /\ DOMAIN vs = 1..Len(vs)
    BY <1>5
  <2>2. \A k \in 1..Len(vs) : parts[k] \in Seq(W)
    BY <1>6, <2>1
  <2>3. Seq(W) \subseteq Seq(E)
    BY <1>3
  <2>4. \A k \in 1..Len(vs) : parts[k] \in Seq(E)
    BY <2>2, <2>3
  <2>5. parts = [k \in 1..Len(vs) |-> parts[k]]
    BY <1>6
  <2>6. parts \in Seq(Seq(E))
    BY <2>1, <2>4, <2>5, SeqOnInterval
  <2> QED BY <2>1, <2>4, <2>6
<1>8. /\ bs \in Seq(Seq(Seq(E))) /\ Len(bs) = Len(vs)
      /\ \A k \in 1..Len(vs) : bs[k] = Filled(st, parts[k])
  <2>1. bs = [k \in 1..Len(vs) |-> bs[k]] /\ \A k \in 1..Len(vs) : bs[k] = Filled(st, parts[k])
    BY <1>7
  <2>2. \A k \in 1..Len(vs) : Filled(st, parts[k]) \in Seq(Seq(E))
    BY <1>7, FilledIsBatches
  <2> HIDE DEF bs
  <2>3. bs \in Seq(Seq(Seq(E))) /\ Len(bs) = Len(vs)
    BY <1>7, <2>1, <2>2, SeqOnInterval
  <2> QED BY <2>1, <2>3
<1> HIDE DEF bs
<1>9. Weight(g, FlattenSeq(bs)) = SumSeq(Loads(g, bs)) /\ FlattenSeq(bs) \in Seq(Seq(E))
  BY <1>4, <1>8, WeightFlatten, FlattenJoins
<1>10. SumSeq(Loads(g, bs)) <= SumSeq(Loads(f, parts))
  <2>1. <<>> \in Seq(E) /\ <<>> \in Seq(Seq(E))
    OBVIOUS
  <2>2. /\ Loads(g, bs) \in Seq(Int) /\ Len(Loads(g, bs)) = Len(bs)
        /\ \A k \in 1..Len(bs) : Loads(g, bs)[k] = Weight(g, bs[k])
    <3> DEFINE A == Seq(E)
    <3>1. Weighs(g, A) /\ bs \in Seq(Seq(A))
      BY <1>4, <1>8
    <3> HIDE DEF A
    <3> QED BY <3>1, LoadsAreNumbers
  <2>3. /\ Loads(f, parts) \in Seq(Int) /\ Len(Loads(f, parts)) = Len(parts)
        /\ \A k \in 1..Len(parts) : Loads(f, parts)[k] = Weight(f, parts[k])
    BY <1>4, <1>7, LoadsAreNumbers
  <2>4. \A k \in 1..Len(vs) : Weight(g, Filled(st, parts[k])) <= Weight(f, parts[k])
    BY <1>7, FillingSaves DEF f, g
  <2>5. \A k \in 1..Len(bs) : Loads(g, bs)[k] <= Loads(f, parts)[k]
    BY <1>6, <1>8, <2>2, <2>3, <2>4
  <2>6. Len(Loads(g, bs)) = Len(Loads(f, parts))
    BY <1>6, <1>8, <2>2, <2>3
  <2> QED BY <1>6, <1>8, <2>2, <2>3, <2>5, <2>6, SumMonotone
<1>11. /\ SumSeq(Loads(g, bs)) \in Int /\ SumSeq(Loads(f, parts)) \in Int
       /\ Weight(f, w) \in Int
  <2>1. <<>> \in Seq(E) /\ <<>> \in Seq(Seq(E))
    OBVIOUS
  <2>2. SumSeq(Loads(g, bs)) \in Int
    BY <1>4, <1>8, <2>1, LoadsAppend
  <2>3. SumSeq(Loads(f, parts)) \in Int
    BY <1>4, <1>7, <2>1, LoadsAppend
  <2>4. Weight(f, w) \in Int
    BY <1>1, <1>4, WeighedOnes
  <2> QED BY <2>2, <2>3, <2>4
<1>12. Weight(g, FlattenSeq(bs)) <= Weight(f, w)
  BY <1>6, <1>9, <1>10, <1>11
<1> QED BY <1>1, <1>2, <1>9, <1>12 DEF f, g, w

\* What is paid once an order grows by no more than one order.
LEMMA OrdersPay ==
  ASSUME NEW st, StationHolds(st), NEW E, NEW s \in Seq(E), NEW x \in E
  PROVE  /\ OrderSeconds(st, s) \in Nat /\ SumPer(st, "order") \in Nat
         /\ OrderSeconds(st, <<x>>) = SumPer(st, "order")
         /\ OrderSeconds(st, Append(s, x)) <= OrderSeconds(st, s) + SumPer(st, "order")
         /\ OrderSeconds(st, Append(s, x)) \in Nat
<1> DEFINE Of(r) == {r[i].order : i \in DOMAIN r}
           t == Append(s, x)
<1>1. PICK fee \in Nat : fee = SumPer(st, "order")
  BY TermsAreSeconds
<1>2. /\ DOMAIN s = 1..Len(s) /\ Len(s) \in Nat /\ DOMAIN t = 1..(Len(s) + 1)
      /\ t[Len(s) + 1] = x /\ \A i \in 1..Len(s) : t[i] = s[i]
  <2>1. t \in Seq(E) /\ Len(t) = Len(s) + 1
    OBVIOUS
  <2> QED BY <2>1
<1> HIDE DEF t
<1>3. Of(t) = Of(s) \cup {x.order}
  <2>1. \A i \in 1..(Len(s) + 1) : i \in 1..Len(s) \/ i = Len(s) + 1
    BY <1>2
  <2>2. Len(s) + 1 \in 1..(Len(s) + 1) /\ \A i \in 1..Len(s) : i \in 1..(Len(s) + 1)
    BY <1>2
  <2> QED BY <1>2, <2>1, <2>2
<1>4. IsFiniteSet(Of(s))
  <2> DEFINE D == 1..Len(s)
             h == [i \in D |-> s[i].order]
  <2>1. IsFiniteSet(D)
    <3>1. 1 \in Int /\ Len(s) \in Int
      BY <1>2
    <3> QED BY <3>1, FS_Interval
  <2>2. h \in Surjection(D, Of(s))
    BY <1>2 DEF Surjection
  <2> HIDE DEF D, h, Of
  <2> QED BY <2>1, <2>2, FS_Surjection
<1>5. PICK many \in Nat : many = Cardinality(Of(s))
  BY <1>4, FS_CardinalityType
<1>6. PICK more \in Nat : more = Cardinality(Of(t)) /\ more <= many + 1
  <2>1. PICK U : U = Of(s)
    OBVIOUS
  <2>2. IsFiniteSet(U) /\ Of(t) = U \cup {x.order}
    BY <1>3, <1>4, <2>1
  <2> HIDE DEF Of
  <2>3. Cardinality(U \cup {x.order}) = IF x.order \in U THEN Cardinality(U) ELSE Cardinality(U) + 1
    BY <2>2, FS_AddElement
  <2> QED BY <1>5, <2>1, <2>2, <2>3
<1>7. /\ OrderSeconds(st, s) = fee * many /\ OrderSeconds(st, t) = fee * more
  BY <1>1, <1>5, <1>6 DEF OrderSeconds
<1>8. fee * many \in Nat /\ fee * more \in Nat /\ fee * more <= fee * many + fee
  <2>1. PICK d \in Nat : many + 1 = more + d
    <3>1. many + 1 - more \in Nat /\ many + 1 = more + (many + 1 - more)
      BY <1>6
    <3> QED BY <3>1
  <2>2. fee * (many + 1) = fee * (more + d)
    BY <2>1
  <2>3. fee * (many + 1) = fee * many + fee /\ fee * (more + d) = fee * more + fee * d
    OBVIOUS
  <2>4. fee * d \in Nat /\ fee * many \in Nat /\ fee * more \in Nat
    OBVIOUS
  <2>5. PICK p \in Nat : p = fee * d
    BY <2>4
  <2>6. PICK p1 \in Nat : p1 = fee * many
    BY <2>4
  <2>7. PICK p2 \in Nat : p2 = fee * more
    BY <2>4
  <2>8. p2 + p = p1 + fee
    BY <2>2, <2>3, <2>5, <2>6, <2>7
  <2> QED BY <2>6, <2>7, <2>8
<1>9. OrderSeconds(st, <<x>>) = fee
  <2>1. DOMAIN <<x>> = 1..1 /\ <<x>>[1] = x
    OBVIOUS
  <2>2. {<<x>>[i].order : i \in DOMAIN <<x>>} = {x.order}
    BY <2>1
  <2>3. Cardinality({x.order}) = 1
    BY FS_Singleton
  <2>4. OrderSeconds(st, <<x>>) = fee * 1
    BY <1>1, <2>2, <2>3 DEF OrderSeconds
  <2> QED BY <2>4
<1> QED BY <1>1, <1>7, <1>8, <1>9 DEF t

\* What items cost one by one.
Costs(st, E) == [x \in E |-> Cost(st, x)]

\* What an item costs alone is its run and its share per order.
LEMMA CostsAdd ==
  ASSUME NEW st, StationHolds(st), NEW E, AreItems(E)
  PROVE  /\ Weighs(Costs(st, E), E)
         /\ \A x \in E : Costs(st, E)[x] = (IF Touches(st, x) THEN Alone(st, E)[x] ELSE 0)
                                           + SumPer(st, "order")
<1> SUFFICES ASSUME NEW x \in E
             PROVE  /\ Costs(st, E)[x] \in Int
                    /\ Costs(st, E)[x] = (IF Touches(st, x) THEN Alone(st, E)[x] ELSE 0)
                                         + SumPer(st, "order")
  BY DEF Weighs
<1>1. <<>> \in Seq(E)
  OBVIOUS
<1>2. OrderSeconds(st, <<x>>) = SumPer(st, "order") /\ SumPer(st, "order") \in Nat
  BY <1>1, OrdersPay
<1>3. WorkSeconds(st, <<x>>) = Alone(st, E)[x]
  BY <1>1, RunGrows
<1>4. Costs(st, E)[x] = Cost(st, x)
  BY DEF Costs
<1>5. Cost(st, x) = (IF Touches(st, x) THEN Alone(st, E)[x] ELSE 0) + SumPer(st, "order")
  BY <1>2, <1>3 DEF Cost
<1>6. PICK a \in Nat : a = IF Touches(st, x) THEN Alone(st, E)[x] ELSE 0
  <2>1. Alone(st, E)[x] \in Nat
    BY SecondsAreNumbers
  <2> QED BY <2>1
<1> QED BY <1>2, <1>4, <1>5, <1>6

\* What is paid for some items together, and what is saved.
LEMMA WhatIsSaved ==
  ASSUME NEW st, StationHolds(st), NEW E, AreItems(E), NEW s \in Seq(E)
  PROVE  /\ s # <<>> => BatchCost(st, s) = Weight(Runs(st, E), Group(st, s)) + OrderSeconds(st, s)
         /\ Saving(st, s) = Weight(Costs(st, E), s) - BatchCost(st, s)
<1> DEFINE bs == Group(st, s)
           g == Runs(st, E)
<1>1. bs \in Seq(Seq(E))
  BY GroupSaves
<1>2. \A k \in DOMAIN bs : WorkSeconds(st, bs[k]) = g[bs[k]]
  <2> HIDE DEF bs
  <2>1. \A k \in DOMAIN bs : bs[k] \in Seq(E)
    BY <1>1
  <2> QED BY <2>1 DEF Runs
<1>3. [k \in DOMAIN bs |-> WorkSeconds(st, bs[k])] = Weighed(g, bs)
  <2> HIDE DEF bs, g
  <2> QED BY <1>2 DEF Weighed
<1>4. s # <<>> => BatchCost(st, s) = Weight(g, bs) + OrderSeconds(st, s)
  <2> HIDE DEF g
  <2> QED BY <1>3 DEF BatchCost, Weight
<1>5. [i \in DOMAIN s |-> Cost(st, s[i])] = Weighed(Costs(st, E), s)
  <2>1. \A i \in DOMAIN s : s[i] \in E
    OBVIOUS
  <2> QED BY <2>1 DEF Weighed, Costs
<1> QED BY <1>4, <1>5 DEF Saving, Weight

\* A saving is a number.
LEMMA SavingIsANumber ==
  ASSUME NEW st, StationHolds(st), NEW E, AreItems(E), NEW s \in Seq(E), s # <<>>
  PROVE  Saving(st, s) \in Int
<1>1. Weight(Runs(st, E), Group(st, s)) \in Int
  <2> DEFINE A == Seq(E)
             bs == Group(st, s)
             h == Runs(st, E)
  <2>1. \A b \in Seq(E) : WorkSeconds(st, b) \in Int
    BY RunPays
  <2>2. Weighs(h, A) /\ bs \in Seq(A)
    BY <2>1, GroupSaves DEF Weighs, Runs
  <2> HIDE DEF A, bs, h
  <2>3. Weight(h, bs) \in Int
    BY <2>2, WeighedOnes
  <2> QED BY <2>3 DEF h, bs
<1>2. OrderSeconds(st, s) \in Int
  <2>1. s[1] \in E
    OBVIOUS
  <2>2. OrderSeconds(st, s) \in Nat
    BY <2>1, OrdersPay
  <2> QED BY <2>2
<1>3. Weight(Costs(st, E), s) \in Int
  BY CostsAdd, WeighedOnes
<1>4. BatchCost(st, s) = Weight(Runs(st, E), Group(st, s)) + OrderSeconds(st, s)
  BY WhatIsSaved
<1>5. Saving(st, s) = Weight(Costs(st, E), s) - BatchCost(st, s)
  BY WhatIsSaved
<1> QED BY <1>1, <1>2, <1>3, <1>4, <1>5

\* Running items together never costs more than running each alone.
LEMMA TogetherIsNoDearer ==
  ASSUME NEW st, StationHolds(st), NEW E, AreItems(E), NEW items \in Seq(E)
  PROVE  Saving(st, items) >= 0
<1> DEFINE f == Alone(st, E)
           c == Costs(st, E)
           T == {item \in ToSet(items) : Touches(st, item)}
           S == { r \in Seq(E) : Weight(f, Among(r, T)) + OrderSeconds(st, r) <= Weight(c, r) }
<1>1. /\ Weighs(f, E) /\ \A x \in E : f[x] \in Nat
      /\ Weighs(c, E)
      /\ \A x \in E : c[x] = (IF Touches(st, x) THEN f[x] ELSE 0) + SumPer(st, "order")
  BY SecondsAreNumbers, CostsAdd
<1>2. <<>> \in S
  <2>1. Among(<<>>, T) = <<>>
    BY AmongNone
  <2>2. {<<>>[i].order : i \in DOMAIN <<>>} = {}
    OBVIOUS
  <2>3. OrderSeconds(st, <<>>) = 0
    <3>1. SumPer(st, "order") \in Nat
      BY TermsAreSeconds
    <3>2. Cardinality({<<>>[i].order : i \in DOMAIN <<>>}) = 0
      BY <2>2, FS_EmptySet
    <3>3. OrderSeconds(st, <<>>) = SumPer(st, "order") * 0
      BY <3>2 DEF OrderSeconds
    <3> QED BY <3>1, <3>3
  <2> HIDE DEF f, c, T
  <2> QED BY <2>1, <2>3, WeightOfNothing
<1>3. Grows(S, E)
  <2> SUFFICES ASSUME NEW r \in Seq(E), r \in S, NEW x \in E
               PROVE  Append(r, x) \in S
    BY DEF Grows
  <2>1. Weight(f, Among(r, T)) + OrderSeconds(st, r) <= Weight(c, r) /\ Append(r, x) \in Seq(E)
    OBVIOUS
  <2>2. x \in T => Touches(st, x)
    OBVIOUS
  <2> HIDE DEF S, T, f, c
  <2>3. /\ Among(r, T) \in Seq(E)
        /\ x \in T => Among(Append(r, x), T) = Append(Among(r, T), x)
        /\ x \notin T => Among(Append(r, x), T) = Among(r, T)
    BY AmongAppend
  <2>4. /\ Weight(f, Among(r, T)) \in Int
        /\ Weight(f, Append(Among(r, T), x)) = Weight(f, Among(r, T)) + f[x]
        /\ Weight(c, r) \in Int /\ Weight(c, Append(r, x)) = Weight(c, r) + c[x]
    <3>1. /\ Weight(f, Among(r, T)) \in Int
          /\ Weight(f, Append(Among(r, T), x)) = Weight(f, Among(r, T)) + f[x]
      BY <1>1, <2>3, WeightAppend
    <3>2. Weight(c, r) \in Int /\ Weight(c, Append(r, x)) = Weight(c, r) + c[x]
      BY <1>1, WeightAppend
    <3> QED BY <3>1, <3>2
  <2>5. /\ OrderSeconds(st, r) \in Nat /\ OrderSeconds(st, Append(r, x)) \in Nat
        /\ SumPer(st, "order") \in Nat
        /\ OrderSeconds(st, Append(r, x)) <= OrderSeconds(st, r) + SumPer(st, "order")
    BY OrdersPay
  <2>6. f[x] \in Nat /\ c[x] = (IF Touches(st, x) THEN f[x] ELSE 0) + SumPer(st, "order")
    BY <1>1
  <2>7. Weight(f, Among(Append(r, x), T)) + OrderSeconds(st, Append(r, x)) <= Weight(c, Append(r, x))
    <3>1. CASE x \in T
      <4>1. c[x] = f[x] + SumPer(st, "order") /\ c[x] \in Int
        BY <2>2, <2>5, <2>6, <3>1
      <4>2. Weight(f, Among(Append(r, x), T)) = Weight(f, Among(r, T)) + f[x]
        BY <2>3, <2>4, <3>1
      <4>3. f[x] \in Int
        BY <2>6
      <4> HIDE <2>6
      <4> QED BY <2>1, <2>4, <2>5, <4>1, <4>2, <4>3
    <3>2. CASE x \notin T
      <4>1. c[x] \in Int /\ c[x] >= SumPer(st, "order")
        BY <2>5, <2>6
      <4> HIDE <2>6
      <4> QED BY <2>1, <2>3, <2>4, <2>5, <3>2, <4>1
    <3> QED BY <3>1, <3>2
  <2> QED BY <2>1, <2>7 DEF S
<1>4. items \in S
  <2> HIDE DEF S
  <2> QED BY <1>2, <1>3, AllSequences
<1>5. Weight(f, Involved(st, items)) + OrderSeconds(st, items) <= Weight(c, items)
  BY <1>4 DEF Involved
<1>6. CASE items = <<>>
  <2>1. Saving(st, items) = Weight(c, items) - BatchCost(st, items)
    BY WhatIsSaved
  <2>2. BatchCost(st, items) = 0
    BY <1>6 DEF BatchCost
  <2>3. Weight(c, items) = 0
    <3> HIDE DEF c
    <3> QED BY <1>6, WeightOfNothing
  <2> QED BY <2>1, <2>2, <2>3
<1>7. CASE items # <<>>
  <2> DEFINE paid == Weight(Runs(st, E), Group(st, items))
             due == Weight(f, Involved(st, items))
             kept == Weight(c, items)
  <2>1. PICK p \in Int : p = paid
    <3>1. \A b \in Seq(E) : WorkSeconds(st, b) \in Int
      BY RunPays
    <3>2. Weighs(Runs(st, E), Seq(E))
      BY <3>1 DEF Weighs, Runs
    <3>3. Group(st, items) \in Seq(Seq(E))
      BY GroupSaves
    <3> DEFINE A == Seq(E)
               bs == Group(st, items)
               h == Runs(st, E)
    <3>4. Weighs(h, A) /\ bs \in Seq(A)
      BY <3>2, <3>3
    <3> HIDE DEF A, bs, h
    <3>5. Weight(h, bs) \in Int
      BY <3>4, WeighedOnes
    <3> QED BY <3>5 DEF h, bs
  <2>2. PICK d \in Int : d = due
    <3>1. Involved(st, items) \in Seq(E)
      BY GroupSaves
    <3> HIDE DEF f
    <3> QED BY <1>1, <3>1, WeighedOnes
  <2>3. PICK k \in Int : k = kept
    <3> HIDE DEF c
    <3> QED BY <1>1, WeighedOnes
  <2>4. PICK o \in Int : o = OrderSeconds(st, items)
    <3>1. PICK x \in E : TRUE
      <4>1. items[1] \in E
        BY <1>7
      <4> QED BY <4>1
    <3>2. OrderSeconds(st, items) \in Nat
      BY OrdersPay
    <3> QED BY <3>2
  <2>5. p <= d
    BY <2>1, <2>2, GroupSaves
  <2>6. d + o <= k
    BY <1>5, <2>2, <2>3, <2>4
  <2>7. Saving(st, items) = k - (p + o)
    BY <1>7, <2>1, <2>3, <2>4, WhatIsSaved
  <2> QED BY <2>5, <2>6, <2>7
<1> QED BY <1>6, <1>7

\* A run is cheaper than its items one by one by a setup for each but the first.
LEMMA RunSaves ==
  ASSUME NEW st, StationHolds(st), NEW E, AreItems(E), \A x \in E : Touches(st, x),
         NEW s \in Seq(E), Len(s) # 0, RunsTogether(st, s)
  PROVE  Saving(st, s) >= (Len(s) - 1) * SumPer(st, "batch")
<1> DEFINE f == Seconds(st, E)
           c == Costs(st, E)
           S == { r \in Seq(E) : Weight(c, r) >= Weight(f, r) + OrderSeconds(st, r)
                                                   + Len(r) * SumPer(st, "batch") }
<1>1. PICK setup \in Nat : setup = SumPer(st, "batch")
  BY TermsAreSeconds
<1>2. Weighs(f, E) /\ Weighs(c, E)
  BY SecondsAreNumbers, CostsAdd
<1>3. \A x \in E : c[x] = setup + f[x] + SumPer(st, "order") /\ f[x] \in Nat
  <2> SUFFICES ASSUME NEW x \in E
               PROVE  c[x] = setup + f[x] + SumPer(st, "order") /\ f[x] \in Nat
    OBVIOUS
  <2>1. f[x] = ItemSeconds(st, x) /\ ItemSeconds(st, x) \in Nat
        /\ Alone(st, E)[x] = setup + ItemSeconds(st, x)
    BY <1>1, SecondsAreNumbers
  <2>2. c[x] = Alone(st, E)[x] + SumPer(st, "order")
    BY CostsAdd
  <2> HIDE DEF c, f
  <2> QED BY <2>1, <2>2
<1> HIDE DEF c, f
<1>4. <<>> \in S
  <2>1. Weight(c, <<>>) = 0 /\ Weight(f, <<>>) = 0 /\ Len(<<>>) = 0 /\ <<>> \in Seq(E)
    BY WeightOfNothing
  <2>2. OrderSeconds(st, <<>>) = 0
    <3>1. {<<>>[i].order : i \in DOMAIN <<>>} = {}
      OBVIOUS
    <3>2. SumPer(st, "order") \in Nat
      BY TermsAreSeconds
    <3>3. Cardinality({<<>>[i].order : i \in DOMAIN <<>>}) = 0
      BY <3>1, FS_EmptySet
    <3>4. OrderSeconds(st, <<>>) = SumPer(st, "order") * 0
      BY <3>3 DEF OrderSeconds
    <3> QED BY <3>2, <3>4
  <2>3. 0 * setup = 0
    OBVIOUS
  <2>4. Weight(c, <<>>) >= Weight(f, <<>>) + OrderSeconds(st, <<>>) + Len(<<>>) * SumPer(st, "batch")
    BY <1>1, <2>1, <2>2, <2>3
  <2> QED BY <2>1, <2>4
<1>5. Grows(S, E)
  <2> SUFFICES ASSUME NEW r \in Seq(E), r \in S, NEW x \in E
               PROVE  Append(r, x) \in S
    BY DEF Grows
  <2>1. Weight(c, r) >= Weight(f, r) + OrderSeconds(st, r) + Len(r) * setup
    BY <1>1
  <2>2. Append(r, x) \in Seq(E) /\ Len(Append(r, x)) = Len(r) + 1 /\ Len(r) \in Nat
    OBVIOUS
  <2> HIDE DEF S
  <2>3. /\ Weight(c, r) \in Int /\ Weight(c, Append(r, x)) = Weight(c, r) + c[x]
        /\ Weight(f, r) \in Int /\ Weight(f, Append(r, x)) = Weight(f, r) + f[x]
    <3>1. Weight(c, r) \in Int /\ Weight(c, Append(r, x)) = Weight(c, r) + c[x]
      BY <1>2, WeightAppend
    <3>2. Weight(f, r) \in Int /\ Weight(f, Append(r, x)) = Weight(f, r) + f[x]
      BY <1>2, WeightAppend
    <3> QED BY <3>1, <3>2
  <2>4. /\ OrderSeconds(st, r) \in Nat /\ OrderSeconds(st, Append(r, x)) \in Nat
        /\ SumPer(st, "order") \in Nat
        /\ OrderSeconds(st, Append(r, x)) <= OrderSeconds(st, r) + SumPer(st, "order")
    BY OrdersPay
  <2>5. c[x] = setup + f[x] + SumPer(st, "order") /\ f[x] \in Nat
    BY <1>3
  <2>6. PICK m \in Int : m = Len(r) * setup /\ (Len(r) + 1) * setup = m + setup
    <3>1. Len(r) * setup \in Int /\ (Len(r) + 1) * setup = Len(r) * setup + setup
      BY <2>2
    <3> QED BY <3>1
  <2>7. Weight(c, Append(r, x)) >= Weight(f, Append(r, x)) + OrderSeconds(st, Append(r, x)) + (m + setup)
    <3>1. Weight(c, r) >= Weight(f, r) + OrderSeconds(st, r) + m
      BY <2>1, <2>6
    <3>2. PICK wc \in Int, wf \in Int, fx \in Int, one \in Int :
            /\ wc = Weight(c, r) /\ wf = Weight(f, r) /\ fx = f[x] /\ one = SumPer(st, "order")
      BY <2>3, <2>4, <2>5
    <3>3. PICK before \in Int, after \in Int :
            before = OrderSeconds(st, r) /\ after = OrderSeconds(st, Append(r, x))
      BY <2>4
    <3>4. Weight(c, Append(r, x)) = wc + (setup + fx + one) /\ Weight(f, Append(r, x)) = wf + fx
      BY <2>3, <2>5, <3>2
    <3>5. after <= before + one /\ wc >= wf + before + m
      BY <2>4, <3>1, <3>2, <3>3
    <3>6. wc + (setup + fx + one) >= (wf + fx) + after + (m + setup)
      BY ONLY <3>5
    <3> QED BY <3>3, <3>4, <3>6
  <2>8. Weight(c, Append(r, x)) >= Weight(f, Append(r, x)) + OrderSeconds(st, Append(r, x))
                                     + Len(Append(r, x)) * SumPer(st, "batch")
    BY <1>1, <2>2, <2>6, <2>7
  <2> QED BY <2>2, <2>8 DEF S
<1>6. s \in S
  <2> HIDE DEF S
  <2> QED BY <1>4, <1>5, AllSequences
<1>7. Weight(c, s) >= Weight(f, s) + OrderSeconds(st, s) + Len(s) * setup
  BY <1>1, <1>6
<1>8. s # <<>> /\ Len(s) \in Nat
  OBVIOUS
<1>9. Weight(Runs(st, E), Group(st, s)) = setup + Weight(f, s)
  <2> DEFINE A == Seq(E)
             h == Runs(st, E)
  <2>1. Group(st, s) = <<s>>
    BY OneGroup
  <2>2. \A b \in Seq(E) : h[b] = WorkSeconds(st, b) /\ WorkSeconds(st, b) \in Int
    BY RunPays DEF Runs
  <2>3. h[s] = setup + Weight(f, s)
    <3>1. WorkSeconds(st, s) = setup + Weight(f, s)
      BY <1>1, <1>8, RunPays DEF f
    <3> QED BY <2>2, <3>1
  <2>4. Weighs(h, A) /\ s \in A /\ <<>> \in Seq(A) /\ Append(<<>>, s) = <<s>>
    <3>1. Append(<<>>, s) = <<s>> /\ s \in A /\ <<>> \in Seq(A)
      OBVIOUS
    <3> QED BY <2>2, <3>1 DEF Weighs
  <2> HIDE DEF A, h
  <2>5. Weight(h, Append(<<>>, s)) = Weight(h, <<>>) + h[s]
    BY <2>4, WeightAppend
  <2>6. h[s] \in Int
    BY <2>4 DEF Weighs
  <2> QED BY <2>1, <2>3, <2>4, <2>5, <2>6, WeightOfNothing DEF h
<1>10. Saving(st, s) = Weight(c, s) - (setup + Weight(f, s) + OrderSeconds(st, s))
  BY <1>8, <1>9, WhatIsSaved DEF c
<1>11. Weight(c, s) \in Int /\ Weight(f, s) \in Int
  <2>1. Weight(c, s) \in Int
    BY <1>2, WeighedOnes
  <2>2. Weight(f, s) \in Int
    BY <1>2, WeighedOnes
  <2> QED BY <2>1, <2>2
<1>12. OrderSeconds(st, s) \in Nat
  <2>1. s[1] \in E
    BY <1>8
  <2> QED BY <2>1, OrdersPay
<1>13. PICK m \in Int : m = Len(s) * setup /\ (Len(s) - 1) * setup = m - setup
  <2>1. Len(s) * setup \in Int /\ (Len(s) - 1) * setup = Len(s) * setup - setup
    BY <1>8
  <2> QED BY <2>1
<1>14. Saving(st, s) >= m - setup
  BY <1>7, <1>10, <1>11, <1>12, <1>13
<1> QED BY <1>1, <1>13, <1>14
-----------------------------------------------------------------------------
(* What the plan on display leaves out *)

\* A queue with nobody in it twice is what was taken out of it and who is left.
LEMMA NobodyIsLost ==
  ASSUME NEW E, NEW q \in Seq(E), Apart(q), NEW b \in Seq(E), b # <<>>, Taken(b, q)
  PROVE  LET r == Without(q, b)
         IN /\ r \in Seq(E) /\ Apart(r) /\ Len(r) + Len(b) = Len(q)
            /\ ToSet(r) \cup ToSet(b) = ToSet(q)
<1> DEFINE r == Without(q, b)
<1>1. r \in Seq(E) /\ Len(r) + Len(b) <= Len(q) /\ \E f : LeftBy(f, r, q, b)
  BY WithoutLeaves
<1> HIDE DEF r
<1>2. PICK f : LeftBy(f, r, q, b)
  BY <1>1
<1>3. PICK g : TakenBy(g, b, q)
  BY DEF Taken
<1>4. /\ Len(r) \in Nat /\ Len(q) \in Nat /\ Len(b) \in Nat
      /\ DOMAIN r = 1..Len(r) /\ DOMAIN q = 1..Len(q) /\ DOMAIN b = 1..Len(b)
  BY <1>1
<1>5. /\ \A j \in 1..Len(r) : f[j] \in 1..Len(q) /\ r[j] = q[f[j]]
      /\ \A i, j \in 1..Len(r) : i < j => f[i] < f[j]
      /\ \A i \in 1..Len(q) : (\A j \in 1..Len(b) : b[j] # q[i]) => \E j \in 1..Len(r) : f[j] = i
      /\ \A j \in 1..Len(b) : g[j] \in 1..Len(q) /\ b[j] = q[g[j]]
  BY <1>2, <1>3 DEF LeftBy, TakenBy
<1>6. Apart(r)
  <2> SUFFICES ASSUME NEW i \in 1..Len(r), NEW j \in 1..Len(r), r[i] = r[j] PROVE i = j
    BY DEF Apart
  <2>1. f[i] = f[j]
    <3>1. PICK k \in 1..Len(q) : k = f[i] /\ r[i] = q[k]
      BY <1>5
    <3>2. PICK l \in 1..Len(q) : l = f[j] /\ r[j] = q[l]
      BY <1>5
    <3>3. q[k] = q[l]
      BY <3>1, <3>2
    <3>4. k = l
      BY <3>3 DEF Apart
    <3> QED BY <3>1, <3>2, <3>4
  <2>2. f[i] \in Int /\ f[j] \in Int
    BY <1>5
  <2>3. ~(i < j) /\ ~(j < i)
    BY <1>5, <2>1, <2>2
  <2> QED BY <2>3
<1>7. ToSet(r) \cup ToSet(b) = ToSet(q)
  <2>1. ToSet(r) = {r[i] : i \in 1..Len(r)} /\ ToSet(q) = {q[i] : i \in 1..Len(q)}
        /\ ToSet(b) = {b[i] : i \in 1..Len(b)}
    BY <1>4 DEF ToSet
  <2>2. ASSUME NEW i \in 1..Len(q) PROVE q[i] \in ToSet(r) \cup ToSet(b)
    <3>1. CASE \E j \in 1..Len(b) : b[j] = q[i]
      BY <2>1, <3>1
    <3>2. CASE \A j \in 1..Len(b) : b[j] # q[i]
      <4>1. PICK j \in 1..Len(r) : f[j] = i
        BY <1>5, <3>2
      <4>2. r[j] = q[i]
        BY <1>5, <4>1
      <4> QED BY <2>1, <4>2
    <3> QED BY <3>1, <3>2
  <2>3. ASSUME NEW j \in 1..Len(r) PROVE r[j] \in ToSet(q)
    BY <1>5, <2>1
  <2>4. ASSUME NEW j \in 1..Len(b) PROVE b[j] \in ToSet(q)
    BY <1>5, <2>1
  <2> QED BY <2>1, <2>2, <2>3, <2>4
<1>8. Len(q) <= Len(r) + Len(b)
  <2> DEFINE inR(i) == {j \in 1..Len(r) : f[j] = i}
             inB(i) == {j \in 1..Len(b) : b[j] = q[i]}
             h == [i \in 1..Len(q) |-> IF inR(i) # {} THEN CHOOSE j \in inR(i) : TRUE
                                       ELSE Len(r) + (CHOOSE j \in inB(i) : TRUE)]
  <2>1. ASSUME NEW i \in 1..Len(q)
        PROVE  \/ h[i] \in 1..Len(r) /\ f[h[i]] = i
               \/ \E j \in 1..Len(b) : h[i] = Len(r) + j /\ b[j] = q[i]
    <3>1. CASE inR(i) # {}
      <4>1. h[i] = CHOOSE j \in inR(i) : TRUE
        BY <3>1
      <4>2. h[i] \in inR(i)
        BY <3>1, <4>1
      <4> QED BY <4>2
    <3>2. CASE inR(i) = {}
      <4>1. inB(i) # {}
        BY <1>5, <3>2
      <4>2. PICK j : j = CHOOSE k \in inB(i) : TRUE
        OBVIOUS
      <4>3. j \in inB(i)
        BY <4>1, <4>2
      <4>4. h[i] = Len(r) + j
        BY <3>2, <4>2
      <4> QED BY <4>3, <4>4
    <3> QED BY <3>1, <3>2
  <2> HIDE DEF h
  <2>2. PICK m \in Nat : m = Len(r) + Len(b)
    BY <1>4
  <2>3. PICK n \in Nat : n = Len(q)
    BY <1>4
  <2>4. \A i \in 1..n : h[i] \in 1..m
    BY <1>4, <2>1, <2>2, <2>3
  <2>5. ASSUME NEW i \in 1..n, NEW k \in 1..n, h[i] = h[k] PROVE i = k
    <3>1. CASE h[i] \in 1..Len(r)
      BY <1>4, <2>1, <2>3, <2>5, <3>1
    <3>2. CASE h[i] \notin 1..Len(r)
      <4>1. PICK j \in 1..Len(b) : h[i] = Len(r) + j /\ b[j] = q[i]
        BY <2>1, <2>3, <3>2
      <4>2. PICK l \in 1..Len(b) : h[k] = Len(r) + l /\ b[l] = q[k]
        BY <2>1, <2>3, <2>5, <3>2
      <4>3. j = l
        <5>1. Len(r) + j = Len(r) + l
          BY <2>5, <4>1, <4>2
        <5>2. Len(r) \in Nat /\ j \in Nat /\ l \in Nat
          BY <1>4
        <5> QED BY <5>1, <5>2
      <4> QED BY <2>3, <4>1, <4>2, <4>3 DEF Apart
    <3> QED BY <3>1, <3>2
  <2>6. [i \in 1..n |-> h[i]] \in Injection(1..n, 1..m)
    BY <2>4, <2>5 DEF Injection, IsInjective
  <2>7. /\ IsFiniteSet(1..m) /\ Cardinality(1..m) = m /\ Cardinality(1..n) = n
    <3>1. 1 \in Int /\ n \in Int /\ m \in Int
      OBVIOUS
    <3>2. IsFiniteSet(1..m) /\ Cardinality(1..m) = IF 1 > m THEN 0 ELSE m - 1 + 1
      BY <3>1, FS_Interval
    <3>3. Cardinality(1..n) = IF 1 > n THEN 0 ELSE n - 1 + 1
      BY <3>1, FS_Interval
    <3> QED BY <3>1, <3>2, <3>3
  <2>8. Cardinality(1..n) <= Cardinality(1..m)
    BY <2>6, <2>7, FS_Injection
  <2> QED BY <2>2, <2>3, <2>7, <2>8
<1>9. Len(r) + Len(b) = Len(q)
  <2>1. Len(r) + Len(b) <= Len(q) /\ Len(q) <= Len(r) + Len(b)
    BY <1>1, <1>8
  <2>2. PICK k \in Nat, l \in Nat, m \in Nat : k = Len(r) /\ l = Len(b) /\ m = Len(q)
    BY <1>4
  <2> QED BY <2>1, <2>2
<1> QED BY <1>1, <1>6, <1>7, <1>9 DEF r

\* Everybody is either planned or left, nobody both, and what is planned runs together.
Whole(acc, q, st) ==
  /\ Apart(acc.left)
  /\ Len(FlattenSeq(acc.plan)) + Len(acc.left) = Len(q)
  /\ ToSet(FlattenSeq(acc.plan)) \cup ToSet(acc.left) = ToSet(q)
  /\ \A b \in ToSet(acc.plan) : b # <<>> /\ JoinedInTurn(st, b)

LEMMA PlanStaysWhole ==
  ASSUME NEW E, NEW name \in PolicyName, NEW st, NEW n, NEW q \in Seq(E),
         NEW acc \in Plans(E, st), Whole(acc, q, st)
  PROVE  LET next == PlanOne(name, st, n, acc)
         IN /\ Whole(next, q, st)
            /\ Len(next.left) = 0 \/ Len(next.left) < Len(acc.left)
<1>1. acc.plan \in Seq(Seq(E)) /\ acc.left \in Seq(E)
  BY DEF Plans
<1>2. CASE acc.left = <<>>
  BY <1>2 DEF PlanOne
<1>3. CASE acc.left # <<>>
  <2> DEFINE b == NextBatch(name, st, acc.left, n, acc.last)
             r == Without(acc.left, b)
             next == PlanOne(name, st, n, acc)
  <2>1. b \in Seq(E) /\ b # <<>> /\ Taken(b, acc.left) /\ JoinedInTurn(st, b)
    BY <1>1, <1>3, NextBatchTakes
  <2>2. next.plan = Append(acc.plan, b) /\ next.left = r
    BY <1>3 DEF PlanOne
  <2> HIDE DEF b, next
  <2>3. /\ r \in Seq(E) /\ Apart(r) /\ Len(r) + Len(b) = Len(acc.left)
        /\ ToSet(r) \cup ToSet(b) = ToSet(acc.left)
    <3>1. PICK left \in Seq(E) : left = acc.left
      BY <1>1
    <3>2. Apart(left) /\ Taken(b, left)
      BY <2>1, <3>1 DEF Whole
    <3> HIDE DEF r
    <3>3. r = Without(left, b)
      BY <3>1 DEF r
    <3> QED BY <2>1, <3>1, <3>2, <3>3, NobodyIsLost
  <2> HIDE DEF r
  <2> DEFINE flat == FlattenSeq(acc.plan)
  <2>4. FlattenSeq(next.plan) = flat \o b /\ flat \in Seq(E)
    BY <1>1, <2>1, <2>2, FlattenAppend
  <2> HIDE DEF flat
  <2>5. /\ Len(flat \o b) = Len(flat) + Len(b) /\ ToSet(flat \o b) = ToSet(flat) \cup ToSet(b)
        /\ Len(flat) \in Nat /\ Len(b) \in Nat /\ Len(b) # 0
    <3>1. /\ Len(flat \o b) = Len(flat) + Len(b) /\ Len(flat) \in Nat /\ Len(b) \in Nat
          /\ \A i \in 1..Len(flat) : (flat \o b)[i] = flat[i]
          /\ \A i \in 1..Len(b) : (flat \o b)[Len(flat) + i] = b[i]
          /\ Len(b) # 0
      BY <2>1, <2>4
    <3>2. /\ DOMAIN (flat \o b) = 1..(Len(flat) + Len(b)) /\ DOMAIN flat = 1..Len(flat)
          /\ DOMAIN b = 1..Len(b)
      BY <2>1, <2>4
    <3> DEFINE l == flat \o b
    <3> HIDE DEF l
    <3>3. ASSUME NEW i \in 1..(Len(flat) + Len(b)) PROVE l[i] \in ToSet(flat) \cup ToSet(b)
      <4>1. CASE i \in 1..Len(flat)
        BY <3>1, <3>2, <4>1 DEF ToSet, l
      <4>2. CASE i \notin 1..Len(flat)
        <5>1. PICK j \in 1..Len(b) : i = Len(flat) + j
          <6>1. i - Len(flat) \in 1..Len(b) /\ i = Len(flat) + (i - Len(flat))
            BY <3>1, <4>2
          <6> QED BY <6>1
        <5>2. l[i] = b[j]
          BY <3>1, <5>1 DEF l
        <5> QED BY <3>2, <5>2 DEF ToSet
      <4> QED BY <4>1, <4>2
    <3>4. ASSUME NEW i \in 1..Len(flat) PROVE flat[i] \in ToSet(l)
      <4>1. i \in DOMAIN l /\ l[i] = flat[i]
        BY <3>1, <3>2 DEF l
      <4> QED BY <4>1 DEF ToSet
    <3>5. ASSUME NEW i \in 1..Len(b) PROVE b[i] \in ToSet(l)
      <4>1. PICK j : j = Len(flat) + i
        OBVIOUS
      <4>2. j \in DOMAIN l /\ l[j] = b[i]
        BY <3>1, <3>2, <4>1 DEF l
      <4> QED BY <4>2 DEF ToSet
    <3>6. /\ ToSet(l) = {l[i] : i \in 1..(Len(flat) + Len(b))}
          /\ ToSet(flat) = {flat[i] : i \in 1..Len(flat)} /\ ToSet(b) = {b[i] : i \in 1..Len(b)}
      BY <3>2 DEF ToSet, l
    <3>7. ToSet(l) = ToSet(flat) \cup ToSet(b)
      BY <3>3, <3>4, <3>5, <3>6
    <3> QED BY <3>1, <3>7 DEF l
  <2>6. /\ Len(flat) + Len(acc.left) = Len(q) /\ ToSet(flat) \cup ToSet(acc.left) = ToSet(q)
        /\ \A c \in ToSet(acc.plan) : c # <<>> /\ JoinedInTurn(st, c)
    BY DEF Whole, flat
  <2>7. ASSUME NEW c \in ToSet(next.plan) PROVE c # <<>> /\ JoinedInTurn(st, c)
    <3>1. c \in ToSet(acc.plan) \/ c = b
      <4> DEFINE A == Seq(E)
      <4>1. acc.plan \in Seq(A) /\ b \in A
        BY <1>1, <2>1
      <4> HIDE DEF A
      <4>2. /\ DOMAIN Append(acc.plan, b) = 1..(Len(acc.plan) + 1) /\ Len(acc.plan) \in Nat
            /\ \A i \in 1..(Len(acc.plan) + 1) : i = Len(acc.plan) + 1 \/ i \in DOMAIN acc.plan
            /\ \A i \in DOMAIN acc.plan : Append(acc.plan, b)[i] = acc.plan[i]
            /\ Append(acc.plan, b)[Len(acc.plan) + 1] = b
        BY <4>1
      <4> QED BY <2>2, <4>2 DEF ToSet
    <3> QED BY <2>1, <2>6, <3>1
  <2>8. /\ Len(FlattenSeq(next.plan)) + Len(next.left) = Len(q)
        /\ Len(next.left) < Len(acc.left)
    <3>1. Len(r) \in Nat /\ Len(acc.left) \in Nat /\ Len(q) \in Nat
      BY <1>1, <2>3
    <3> QED BY <2>2, <2>3, <2>4, <2>5, <2>6, <3>1
  <2>9. ToSet(FlattenSeq(next.plan)) \cup ToSet(next.left) = ToSet(q)
    BY <2>2, <2>3, <2>4, <2>5, <2>6
  <2>10. Whole(next, q, st)
    BY <2>2, <2>3, <2>7, <2>8, <2>9 DEF Whole
  <2> QED BY <2>8, <2>10 DEF next
<1> QED BY <1>2, <1>3

\* A plan has everybody, each once, in batches that run together.
LEMMA PlanIsWhole ==
  ASSUME NEW E, NEW name \in PolicyName, NEW st, NEW q \in Seq(E), Apart(q), NEW n
  PROVE  LET plan == PlanBatches(name, st, q, n)
         IN /\ Len(FlattenSeq(plan)) = Len(q) /\ ToSet(FlattenSeq(plan)) = ToSet(q)
            /\ \A b \in ToSet(plan) : b \in Seq(E) /\ b # <<>> /\ JoinedInTurn(st, b)
<1> DEFINE s == [i \in DOMAIN q |-> i]
<1>1. /\ s \in Seq(Nat) /\ Len(s) = Len(q)
      /\ \E acc : /\ FoldedTo(acc, Unplanned(q), Planning(E, name, st, n), s, Plans(E, st))
                  /\ PlanBatches(name, st, q, n) = acc.plan
  BY PlanFolds
<1> HIDE DEF s
<1>2. PICK steps \in [0..Len(s) -> Plans(E, st)] :
        /\ Stepwise(steps, Unplanned(q), Planning(E, name, st, n), s)
        /\ PlanBatches(name, st, q, n) = steps[Len(s)].plan
  BY <1>1 DEF FoldedTo
<1>3. Len(s) \in Nat
  BY <1>1
<1> DEFINE Good == {k \in 0..Len(s) : Whole(steps[k], q, st) /\ Len(steps[k].left) <= Len(q) - k}
<1>4. 0 \in Good
  <2>1. steps[0].plan = <<>> /\ steps[0].left = q
    BY <1>2 DEF Stepwise, Unplanned
  <2>2. FlattenSeq(<<>>) = <<>>
    BY DEF FlattenSeq
  <2>3. ToSet(<<>>) = {} /\ Len(<<>>) = 0 /\ Len(q) \in Nat
    BY DEF ToSet
  <2>4. Whole(steps[0], q, st)
    BY <2>1, <2>2, <2>3 DEF Whole
  <2> QED BY <1>3, <2>1, <2>3, <2>4
<1>5. ASSUME NEW k \in 0..(Len(s) - 1), k \in Good PROVE k + 1 \in Good
  <2>1. k + 1 \in 1..Len(s) /\ k \in 0..Len(s) /\ k + 1 \in 0..Len(s)
    BY <1>3
  <2>2. steps[k + 1] = Planning(E, name, st, n)[<<steps[k], s[k + 1]>>]
    BY <1>2, <1>3, OneStep
  <2>3. steps[k] \in Plans(E, st) /\ s[k + 1] \in Nat /\ steps[k + 1] \in Plans(E, st)
    BY <1>1, <1>2, <2>1
  <2>4. steps[k + 1] = PlanOne(name, st, n, steps[k])
    BY <2>2, <2>3 DEF Planning
  <2>5. Whole(steps[k], q, st) /\ Len(steps[k].left) <= Len(q) - k
    BY <1>5
  <2>6. /\ Whole(steps[k + 1], q, st)
        /\ Len(steps[k + 1].left) = 0 \/ Len(steps[k + 1].left) < Len(steps[k].left)
    BY <2>3, <2>4, <2>5, PlanStaysWhole
  <2>7. Len(steps[k].left) \in Nat /\ Len(steps[k + 1].left) \in Nat /\ Len(q) \in Nat
    BY <2>3 DEF Plans
  <2>8. Len(steps[k + 1].left) <= Len(q) - (k + 1)
    BY <1>1, <2>1, <2>5, <2>6, <2>7
  <2> QED BY <2>1, <2>6, <2>8
<1>6. 0..Len(s) \subseteq Good
  <2> HIDE DEF Good
  <2> QED BY <1>3, <1>4, <1>5, AllUpTo
<1>7. PICK acc \in Plans(E, st) :
        Whole(acc, q, st) /\ Len(acc.left) <= 0 /\ PlanBatches(name, st, q, n) = acc.plan
  <2>1. Len(s) \in Good /\ Len(q) - Len(s) = 0 /\ steps[Len(s)] \in Plans(E, st)
    BY <1>1, <1>2, <1>3, <1>6
  <2> QED BY <1>2, <2>1
<1>8. acc.left = <<>> /\ Len(acc.left) = 0 /\ ToSet(acc.left) = {} /\ acc.plan \in Seq(Seq(E))
  <2>1. acc.left \in Seq(E) /\ acc.plan \in Seq(Seq(E))
    BY DEF Plans
  <2>2. acc.left = <<>>
    BY <1>7, <2>1
  <2> QED BY <2>1, <2>2 DEF ToSet
<1>9. \A b \in ToSet(acc.plan) : b \in Seq(E)
  <2> DEFINE A == Seq(E)
  <2>1. acc.plan \in Seq(A)
    BY <1>8
  <2> HIDE DEF A
  <2>2. \A i \in DOMAIN acc.plan : acc.plan[i] \in A
    BY <2>1
  <2> QED BY <2>2 DEF ToSet, A
<1>10. Len(FlattenSeq(acc.plan)) = Len(q)
  <2>1. Len(FlattenSeq(acc.plan)) + 0 = Len(q)
    BY <1>7, <1>8 DEF Whole
  <2>2. Len(FlattenSeq(acc.plan)) \in Nat
    <3>1. FlattenSeq(acc.plan) \in Seq(E)
      BY <1>8, FlattenJoins
    <3> QED BY <3>1
  <2> QED BY <2>1, <2>2
<1> QED BY <1>7, <1>8, <1>9, <1>10 DEF Whole

-----------------------------------------------------------------------------
(* What is made together *)

\* Who of a queue would be made together of those with the value v: the first of them,
\* and whoever joins.
GatherOne(st, v, b, e) ==
  IF b = <<>> THEN IF BatchValue(st, e.item) = v THEN <<e>> ELSE <<>>
  ELSE IF Joins(st, b[1], b, e) THEN Append(b, e) ELSE b

Gathered(st, v, q) == FoldLeft(LAMBDA b, e : GatherOne(st, v, b, e), <<>>, q)

Gathering(E, st, v) == [p \in Seq(E) \X E |-> GatherOne(st, v, p[1], p[2])]

\* What one step of Gathered does.
LEMMA GatheringType ==
  ASSUME NEW E, NEW st, NEW v
  PROVE  <<>> \in Seq(E) /\ Gathering(E, st, v) \in [Seq(E) \X E -> Seq(E)]
<1>1. ASSUME NEW b \in Seq(E), NEW e \in E PROVE GatherOne(st, v, b, e) \in Seq(E)
  BY DEF GatherOne
<1> QED BY <1>1 DEF Gathering

\* Gathered goes through the queue one by one.
LEMMA GatherFolds ==
  ASSUME NEW E, NEW st, NEW v, NEW s \in Seq(E)
  PROVE  FoldedTo(Gathered(st, v, s), <<>>, Gathering(E, st, v), s, Seq(E))
<1> DEFINE A == Seq(E)
           P(f) == f = [I \in SUBSET DOMAIN s |->
                          IF I = {} THEN <<>> ELSE GatherOne(st, v, f[I \ {Max(I)}], s[Max(I)])]
           g == CHOOSE f : P(f)
<1>1. /\ DOMAIN s = 1..Len(s) /\ Len(s) \in Nat
      /\ \A i \in 1..Len(s) : s[i] \in E
      /\ \A I \in SUBSET (1..Len(s)) : I # {} => Max(I) \in I
  BY GreatestIndex
<1>2. Gathered(st, v, s) = g[1..Len(s)]
  BY <1>1 DEF Gathered, FoldLeft, MapThenFoldSet
<1> HIDE DEF A
<1>3. <<>> \in A /\ Gathering(E, st, v) \in [A \X E -> A]
  BY GatheringType DEF A
<1>4. P(g)
  <2>1. PICK run \in [SUBSET (1..Len(s)) -> A] : LeftRun(run, <<>>, Gathering(E, st, v), s)
    BY <1>3, LeftExists DEF LeftSolvable
  <2>2. ASSUME NEW I \in SUBSET (1..Len(s)), I # {}
        PROVE  run[I] = GatherOne(st, v, run[I \ {Max(I)}], s[Max(I)])
    <3>1. run[I] = Gathering(E, st, v)[<<run[I \ {Max(I)}], s[Max(I)]>>]
      BY <2>1, <2>2 DEF LeftRun
    <3>2. run[I \ {Max(I)}] \in A /\ s[Max(I)] \in E
      BY <1>1, <2>2
    <3> QED BY <3>1, <3>2 DEF Gathering, A
  <2>3. run[{}] = <<>>
    BY <2>1 DEF LeftRun
  <2>4. P(run)
    BY <1>1, <2>2, <2>3
  <2> HIDE DEF P
  <2> QED BY <2>4, Zenon
<1>5. LeftLike(g, <<>>, Gathering(E, st, v), s, A)
  <2> HIDE DEF g
  <2>1. g[{}] = <<>>
    BY <1>4
  <2>2. ASSUME NEW I \in SUBSET (1..Len(s)), I # {}, g[I \ {Max(I)}] \in A
        PROVE  g[I] = Gathering(E, st, v)[<<g[I \ {Max(I)}], s[Max(I)]>>]
    <3>1. g[I] = GatherOne(st, v, g[I \ {Max(I)}], s[Max(I)])
      BY <1>1, <1>4, <2>2
    <3>2. s[Max(I)] \in E
      BY <1>1, <2>2
    <3> QED BY <2>2, <3>1, <3>2 DEF Gathering, A
  <2> QED BY <2>1, <2>2 DEF LeftLike
<1> QED
  <2> HIDE DEF g
  <2>1. FoldedTo(g[1..Len(s)], <<>>, Gathering(E, st, v), s, A)
    BY <1>3, <1>5, LeftStepwise, Zenon
  <2> QED BY <1>2, <2>1 DEF A

\* The next of the queue.
LEMMA GatherAppend ==
  ASSUME NEW E, NEW st, NEW v, NEW s \in Seq(E), NEW e \in E
  PROVE  /\ Gathered(st, v, s) \in Seq(E)
         /\ Gathered(st, v, Append(s, e)) = GatherOne(st, v, Gathered(st, v, s), e)
<1>1. Append(s, e) \in Seq(E)
  OBVIOUS
<1>2. /\ FoldedTo(Gathered(st, v, s), <<>>, Gathering(E, st, v), s, Seq(E))
      /\ FoldedTo(Gathered(st, v, Append(s, e)), <<>>, Gathering(E, st, v), Append(s, e), Seq(E))
  BY <1>1, GatherFolds
<1> DEFINE A == Seq(E)
<1> HIDE DEF A
<1>3. Continues(Gathered(st, v, s), Gathered(st, v, Append(s, e)), e, Gathering(E, st, v), A)
  BY <1>2, OneMoreStep DEF A
<1> QED BY <1>3 DEF Continues, Gathering, A

\* Of nobody, nobody.
LEMMA GatherNone ==
  ASSUME NEW st, NEW v
  PROVE  Gathered(st, v, <<>>) = <<>>
<1>1. <<>> \in Seq({}) /\ Len(<<>>) = 0
  OBVIOUS
<1>2. FoldedTo(Gathered(st, v, <<>>), <<>>, Gathering({}, st, v), <<>>, Seq({}))
  BY <1>1, GatherFolds
<1> QED BY <1>1, <1>2 DEF FoldedTo, Stepwise

\* Only entries of one value are made together.
OfValue(st, v, b) == \A j \in 1..Len(b) : BatchValue(st, b[j].item) = v

\* Whoever joins has the value of the first.
LEMMA JoinsItsValue ==
  ASSUME NEW st, NEW E, NEW b \in Seq(E), b # <<>>, NEW e, Joins(st, b[1], b, e)
  PROVE  BatchValue(st, e.item) = BatchValue(st, b[1].item)
<1>1. DOMAIN b = 1..Len(b) /\ 1 \in 1..Len(b) /\ Len(b) \in Nat
  OBVIOUS
<1>2. ItemsOf(b) = [i \in 1..Len(b) |-> b[i].item]
  BY <1>1 DEF ItemsOf
<1>3. ItemsOf(b)[1] = b[1].item /\ ItemsOf(b) # <<>>
  <2>1. ItemsOf(b)[1] = b[1].item /\ DOMAIN ItemsOf(b) = 1..Len(b)
    BY <1>1, <1>2
  <2>2. DOMAIN <<>> = {}
    OBVIOUS
  <2> QED BY <1>1, <2>1, <2>2
<1>4. Compatible(st, ItemsOf(b), e.item)
  BY DEF Joins
<1> QED BY <1>3, <1>4 DEF Compatible

\* So whoever is gathered has the value gathered.
LEMMA GatheredIsOfValue ==
  ASSUME NEW E, NEW st, NEW v, NEW q \in Seq(E)
  PROVE  Gathered(st, v, q) \in Seq(E) /\ OfValue(st, v, Gathered(st, v, q))
<1> DEFINE S == {s \in Seq(E) : Gathered(st, v, s) \in Seq(E) /\ OfValue(st, v, Gathered(st, v, s))}
<1>1. <<>> \in S
  <2>1. Gathered(st, v, <<>>) = <<>> /\ <<>> \in Seq(E) /\ Len(<<>>) = 0
    BY GatherNone
  <2>2. OfValue(st, v, <<>>)
    BY <2>1 DEF OfValue
  <2> QED BY <2>1, <2>2
<1>2. ASSUME NEW s \in Seq(E), s \in S, NEW e \in E PROVE Append(s, e) \in S
  <2>1. PICK b \in Seq(E) : b = Gathered(st, v, s)
    BY <1>2
  <2>2. OfValue(st, v, b)
    BY <1>2, <2>1
  <2>3. PICK c : c = GatherOne(st, v, b, e)
    OBVIOUS
  <2>4. Gathered(st, v, Append(s, e)) = c
    BY <2>1, <2>3, GatherAppend
  <2>5. c \in Seq(E) /\ OfValue(st, v, c)
    <3>1. CASE b = <<>>
      <4>1. c = IF BatchValue(st, e.item) = v THEN <<e>> ELSE <<>>
        BY <2>3, <3>1 DEF GatherOne
      <4>2. Len(<<e>>) = 1 /\ <<e>>[1] = e /\ <<e>> \in Seq(E) /\ Len(<<>>) = 0 /\ <<>> \in Seq(E)
        OBVIOUS
      <4>3. CASE BatchValue(st, e.item) = v
        <5>1. c = <<e>>
          BY <4>1, <4>3
        <5>2. OfValue(st, v, <<e>>)
          BY <4>2, <4>3 DEF OfValue
        <5> QED BY <4>2, <5>1, <5>2
      <4>4. CASE BatchValue(st, e.item) # v
        <5>1. c = <<>>
          BY <4>1, <4>4
        <5>2. OfValue(st, v, <<>>)
          BY <4>2 DEF OfValue
        <5> QED BY <4>2, <5>1, <5>2
      <4> QED BY <4>3, <4>4
    <3>2. CASE b # <<>> /\ Joins(st, b[1], b, e)
      <4>1. c = Append(b, e)
        BY <2>3, <3>2 DEF GatherOne
      <4>2. 1 \in 1..Len(b) /\ Len(b) \in Nat
        BY <3>2
      <4>3. BatchValue(st, b[1].item) = v
        BY <2>2, <4>2 DEF OfValue
      <4>4. BatchValue(st, e.item) = v
        BY <3>2, <4>3, JoinsItsValue
      <4>5. /\ c \in Seq(E) /\ Len(c) = Len(b) + 1 /\ c[Len(b) + 1] = e
            /\ \A j \in 1..Len(b) : c[j] = b[j]
        BY <4>1
      <4>6. \A j \in 1..Len(c) : j \in 1..Len(b) \/ j = Len(b) + 1
        BY <4>2, <4>5
      <4> QED BY <2>2, <4>4, <4>5, <4>6 DEF OfValue
    <3>3. CASE b # <<>> /\ ~Joins(st, b[1], b, e)
      <4>1. c = b
        BY <2>3, <3>3 DEF GatherOne
      <4> QED BY <2>2, <4>1
    <3> QED BY <3>1, <3>2, <3>3
  <2>6. Append(s, e) \in Seq(E)
    OBVIOUS
  <2> QED BY <2>4, <2>5, <2>6
<1>3. Grows(S, E)
  BY <1>2 DEF Grows
<1>4. Seq(E) \subseteq S
  <2> HIDE DEF S
  <2> QED BY <1>1, <1>3, AllSequences
<1> QED BY <1>4

\* Others change nothing.
LEMMA GatherPassesOver ==
  ASSUME NEW E, NEW st, NEW v, NEW q \in Seq(E), NEW e \in E, BatchValue(st, e.item) # v
  PROVE  Gathered(st, v, Append(q, e)) = Gathered(st, v, q)
<1>1. PICK b \in Seq(E) : b = Gathered(st, v, q)
  BY GatheredIsOfValue
<1>2. OfValue(st, v, b)
  BY <1>1, GatheredIsOfValue
<1>3. Gathered(st, v, Append(q, e)) = GatherOne(st, v, b, e)
  BY <1>1, GatherAppend
<1>4. CASE b = <<>>
  BY <1>1, <1>3, <1>4 DEF GatherOne
<1>5. CASE b # <<>>
  <2>1. 1 \in 1..Len(b)
    BY <1>5
  <2>2. BatchValue(st, b[1].item) = v
    BY <1>2, <2>1 DEF OfValue
  <2>3. ~Joins(st, b[1], b, e)
    BY <1>5, <2>2, JoinsItsValue
  <2> QED BY <1>1, <1>3, <1>5, <2>3 DEF GatherOne
<1> QED BY <1>4, <1>5

\* Whatever is left out, if it has other values, changes nothing.
OthersOnly(st, v, q, T) == \A i \in 1..Len(q) : q[i] \notin T => BatchValue(st, q[i].item) # v

LEMMA GatherAmong ==
  ASSUME NEW E, NEW st, NEW v, NEW T, NEW q \in Seq(E), OthersOnly(st, v, q, T)
  PROVE  Gathered(st, v, Among(q, T)) = Gathered(st, v, q)
<1> DEFINE S == {s \in Seq(E) : OthersOnly(st, v, s, T)
                                  => Gathered(st, v, Among(s, T)) = Gathered(st, v, s)}
<1>1. <<>> \in S
  BY AmongNone
<1>2. ASSUME NEW s \in Seq(E), s \in S, NEW e \in E PROVE Append(s, e) \in S
  <2> SUFFICES ASSUME OthersOnly(st, v, Append(s, e), T)
               PROVE  Gathered(st, v, Among(Append(s, e), T)) = Gathered(st, v, Append(s, e))
    OBVIOUS
  <2>1. /\ Len(Append(s, e)) = Len(s) + 1 /\ Len(s) \in Nat /\ Append(s, e)[Len(s) + 1] = e
        /\ \A i \in 1..Len(s) : Append(s, e)[i] = s[i]
    OBVIOUS
  <2>2. OthersOnly(st, v, s, T)
    BY <2>1 DEF OthersOnly
  <2>3. Gathered(st, v, Among(s, T)) = Gathered(st, v, s) /\ Among(s, T) \in Seq(E)
    BY <1>2, <2>2, AmongAppend
  <2>4. CASE e \in T
    <3>1. Among(Append(s, e), T) = Append(Among(s, T), e)
      BY <2>4, AmongAppend
    <3>2. Gathered(st, v, Append(Among(s, T), e)) = GatherOne(st, v, Gathered(st, v, s), e)
      BY <2>3, GatherAppend
    <3>3. Gathered(st, v, Append(s, e)) = GatherOne(st, v, Gathered(st, v, s), e)
      BY GatherAppend
    <3> QED BY <3>1, <3>2, <3>3
  <2>5. CASE e \notin T
    <3>1. Among(Append(s, e), T) = Among(s, T)
      BY <2>5, AmongAppend
    <3>2. BatchValue(st, e.item) # v
      <4>1. Len(s) + 1 \in 1..Len(Append(s, e))
        BY <2>1
      <4> QED BY <2>1, <2>5, <4>1 DEF OthersOnly
    <3>3. Gathered(st, v, Append(s, e)) = Gathered(st, v, s)
      BY <3>2, GatherPassesOver
    <3> QED BY <2>3, <3>1, <3>3
  <2> QED BY <2>4, <2>5
<1>3. Grows(S, E)
  BY <1>2 DEF Grows
<1>4. Seq(E) \subseteq S
  <2> HIDE DEF S
  <2> QED BY <1>1, <1>3, AllSequences
<1> QED BY <1>4

\* One more behind the others.
LEMMA OthersAppend ==
  ASSUME NEW E, NEW q \in Seq(E), NEW e \in E, NEW h \in 1..Len(q)
  PROVE  RemoveAt(Append(q, e), h) = Append(RemoveAt(q, h), e)
<1>1. /\ Append(q, e) \in Seq(E) /\ Len(Append(q, e)) = Len(q) + 1 /\ Len(q) \in Nat
      /\ Append(q, e)[Len(q) + 1] = e
      /\ \A i \in 1..Len(q) : Append(q, e)[i] = q[i]
  OBVIOUS
<1>2. PICK l : l = Append(q, e)
  OBVIOUS
<1>3. /\ RemoveAt(q, h) \in Seq(E) /\ Len(RemoveAt(q, h)) = Len(q) - 1
      /\ \A k \in 1..(Len(q) - 1) : RemoveAt(q, h)[k] = q[Behind(h, k)]
  BY TheOthers
<1>4. /\ RemoveAt(l, h) \in Seq(E) /\ Len(RemoveAt(l, h)) = Len(q)
      /\ \A k \in 1..Len(q) : RemoveAt(l, h)[k] = l[Behind(h, k)]
  <2>1. l \in Seq(E) /\ h \in 1..Len(l) /\ Len(l) - 1 = Len(q)
    BY <1>1, <1>2
  <2> QED BY <2>1, TheOthers
<1>5. PICK r \in Seq(E) : r = RemoveAt(q, h)
  BY <1>3
<1>6. PICK s \in Seq(E) : s = RemoveAt(l, h)
  BY <1>4
<1>7. Len(r) = Len(q) - 1 /\ \A k \in 1..(Len(q) - 1) : r[k] = q[Behind(h, k)]
  BY <1>3, <1>5
<1>8. Len(s) = Len(q) /\ \A k \in 1..Len(q) : s[k] = l[Behind(h, k)]
  BY <1>4, <1>6
<1>9. ASSUME NEW k \in 1..Len(q) PROVE s[k] = Append(r, e)[k]
  <2>1. CASE k = Len(q)
    <3>1. Behind(h, k) = Len(q) + 1
      BY <2>1 DEF Behind
    <3>2. s[k] = e
      BY <1>1, <1>2, <1>8, <3>1
    <3>3. Append(r, e)[k] = e
      BY <1>1, <1>7, <2>1
    <3> QED BY <3>2, <3>3
  <2>2. CASE k # Len(q)
    <3>1. k \in 1..(Len(q) - 1) /\ Behind(h, k) \in 1..Len(q)
      BY <1>1, <2>2 DEF Behind
    <3>2. s[k] = q[Behind(h, k)]
      BY <1>1, <1>2, <1>8, <3>1
    <3>3. r[k] = q[Behind(h, k)]
      BY <1>7, <3>1
    <3>4. Append(r, e)[k] = r[k]
      BY <1>7, <3>1
    <3> QED BY <3>2, <3>3, <3>4
  <2> QED BY <2>1, <2>2
<1>10. Append(r, e) \in Seq(E) /\ Len(Append(r, e)) = Len(q)
  BY <1>1, <1>7
<1>11. s = Append(r, e)
  BY <1>8, <1>9, <1>10
<1> QED BY <1>2, <1>5, <1>6, <1>11

\* A batch grows by whoever comes last, if he joins.
LEMMA GrowAppend ==
  ASSUME NEW st, NEW E, NEW q \in Seq(E), NEW e \in E, NEW h \in 1..Len(q)
  PROVE  Grow(st, Append(q, e), h) = IF Joins(st, q[h], Grow(st, q, h), e)
                                     THEN Append(Grow(st, q, h), e) ELSE Grow(st, q, h)
<1>1. /\ Append(q, e) \in Seq(E) /\ h \in 1..Len(Append(q, e)) /\ Append(q, e)[h] = q[h]
      /\ q[h] \in E
  OBVIOUS
<1>2. RemoveAt(q, h) \in Seq(E)
  BY TheOthers
<1>3. PICK head \in E : head = q[h]
  BY <1>1
<1>4. FoldedTo(Grow(st, q, h), <<head>>, Growing(E, st, head), RemoveAt(q, h), Seq(E))
  BY <1>1, <1>2, <1>3, GrowFolds
<1>5. FoldedTo(Grow(st, Append(q, e), h), <<head>>, Growing(E, st, head),
               Append(RemoveAt(q, h), e), Seq(E))
  <2>1. RemoveAt(Append(q, e), h) = Append(RemoveAt(q, h), e)
    BY OthersAppend
  <2>2. Append(RemoveAt(q, h), e) \in Seq(E)
    BY <1>2
  <2>3. PICK l \in Seq(E) : l = Append(q, e)
    BY <1>1
  <2>4. l[h] = head /\ RemoveAt(l, h) \in Seq(E)
    BY <1>1, <1>3, <2>1, <2>2, <2>3
  <2>5. FoldedTo(Grow(st, l, h), <<head>>, Growing(E, st, head), RemoveAt(l, h), Seq(E))
    BY <2>3, <2>4, GrowFolds
  <2> QED BY <2>1, <2>3, <2>5
<1> DEFINE A == Seq(E)
<1> HIDE DEF A
<1>6. Continues(Grow(st, q, h), Grow(st, Append(q, e), h), e, Growing(E, st, head), A)
  BY <1>2, <1>4, <1>5, OneMoreStep DEF A
<1> QED BY <1>3, <1>6 DEF Continues, Growing, A

\* Where nobody has the value, nobody is gathered.
LEMMA GatherNobody ==
  ASSUME NEW E, NEW st, NEW v, NEW q \in Seq(E),
         \A i \in 1..Len(q) : BatchValue(st, q[i].item) # v
  PROVE  Gathered(st, v, q) = <<>>
<1>1. OthersOnly(st, v, q, {})
  BY DEF OthersOnly
<1>2. PICK r \in Seq(E) : r = Among(q, {}) /\ Drawn(r, q, {}, Len(q))
  BY AmongIsDrawn
<1>3. \A j \in 1..Len(r) : r[j] \in {}
  BY <1>2 DEF Drawn, DrawnBy
<1>4. r = <<>>
  BY <1>3
<1> QED BY <1>1, <1>2, <1>4, GatherAmong, GatherNone

\* Whoever could join in turn has the value of the first.
LEMMA TurnsAreOfValue ==
  ASSUME NEW st, NEW E, NEW b \in Seq(E), b # <<>>, JoinedInTurn(st, b)
  PROVE  OfValue(st, BatchValue(st, b[1].item), b)
<1> SUFFICES ASSUME NEW k \in 1..Len(b) PROVE BatchValue(st, b[k].item) = BatchValue(st, b[1].item)
  BY DEF OfValue
<1>1. CASE k = 1
  BY <1>1
<1>2. CASE k # 1
  <2>1. k \in 2..Len(b) /\ Len(b) \in Nat
    BY <1>2
  <2>2. PICK c \in Seq(E) : c = SubSeq(b, 1, k - 1)
    <3>1. SubSeq(b, 1, k - 1) \in Seq(E)
      BY <2>1
    <3> QED BY <3>1
  <2>3. Len(c) = k - 1 /\ c[1] = b[1] /\ DOMAIN c = 1..(k - 1) /\ 1 \in 1..(k - 1)
    BY <2>1, <2>2
  <2>4. Compatible(st, ItemsOf(c), b[k].item)
    BY <2>1, <2>2 DEF JoinedInTurn
  <2>5. ItemsOf(c) = [i \in 1..(k - 1) |-> c[i].item]
    BY <2>3 DEF ItemsOf
  <2>6. ItemsOf(c)[1] = b[1].item /\ DOMAIN ItemsOf(c) = 1..(k - 1)
    BY <2>3, <2>5
  <2>7. ItemsOf(c) # <<>>
    <3>1. DOMAIN <<>> = {}
      OBVIOUS
    <3> QED BY <2>3, <2>6, <3>1
  <2> QED BY <2>4, <2>6, <2>7 DEF Compatible
<1> QED BY <1>1, <1>2

\* The batch of a head who is the first of his value.
FirstOf(st, v, q, h) ==
  /\ BatchValue(st, q[h].item) = v
  /\ \A i \in 1..(h - 1) : BatchValue(st, q[i].item) # v

LEMMA GatherIsGrow ==
  ASSUME NEW E, NEW st, NEW v, NEW q \in Seq(E), NEW h \in 1..Len(q), FirstOf(st, v, q, h)
  PROVE  Gathered(st, v, q) = Grow(st, q, h)
<1> DEFINE Alike(s) == \A k \in 1..Len(s) : FirstOf(st, v, s, k) => Gathered(st, v, s) = Grow(st, s, k)
           S == {s \in Seq(E) : Alike(s)}
<1>1. <<>> \in S
  <2>1. <<>> \in Seq(E) /\ Len(<<>>) = 0
    OBVIOUS
  <2> QED BY <2>1
<1>2. ASSUME NEW s \in Seq(E), s \in S, NEW e \in E PROVE Append(s, e) \in S
  <2>1. PICK l \in Seq(E) : l = Append(s, e)
    <3>1. Append(s, e) \in Seq(E)
      OBVIOUS
    <3> QED BY <3>1
  <2>2. /\ Len(l) = Len(s) + 1 /\ Len(s) \in Nat /\ l[Len(s) + 1] = e
        /\ \A i \in 1..Len(s) : l[i] = s[i]
    BY <2>1
  <2>3. ASSUME NEW k \in 1..Len(l), FirstOf(st, v, l, k)
        PROVE  Gathered(st, v, l) = Grow(st, l, k)
    <3>1. Gathered(st, v, l) = GatherOne(st, v, Gathered(st, v, s), e)
      BY <2>1, GatherAppend
    <3>2. CASE k \in 1..Len(s)
      <4>1. FirstOf(st, v, s, k)
        <5>1. l[k] = s[k] /\ \A i \in 1..(k - 1) : l[i] = s[i]
          BY <2>2, <3>2
        <5> QED BY <2>3, <5>1 DEF FirstOf
      <4>2. Gathered(st, v, s) = Grow(st, s, k)
        BY <1>2, <3>2, <4>1
      <4>3. Grow(st, s, k) # <<>> /\ Grow(st, s, k)[1] = s[k]
        BY <3>2, GrowTakes
      <4>4. Grow(st, l, k) = IF Joins(st, s[k], Grow(st, s, k), e)
                             THEN Append(Grow(st, s, k), e) ELSE Grow(st, s, k)
        BY <2>1, <3>2, GrowAppend
      <4> QED BY <3>1, <4>2, <4>3, <4>4 DEF GatherOne
    <3>3. CASE k = Len(s) + 1
      <4>1. \A i \in 1..Len(s) : BatchValue(st, s[i].item) # v
        BY <2>2, <2>3, <3>3 DEF FirstOf
      <4>2. BatchValue(st, e.item) = v
        BY <2>2, <2>3, <3>3 DEF FirstOf
      <4>3. Gathered(st, v, s) = <<>>
        BY <4>1, GatherNobody
      <4>4. Gathered(st, v, l) = <<e>>
        BY <3>1, <4>2, <4>3 DEF GatherOne
      <4>5. PICK b \in Seq(E) : /\ b = Grow(st, l, k) /\ b # <<>> /\ Taken(b, l) /\ b[1] = l[k]
                                /\ JoinedInTurn(st, b)
        BY GrowTakes
      <4>6. b[1] = e
        BY <2>2, <3>3, <4>5
      <4>7. OfValue(st, v, b)
        BY <4>2, <4>5, <4>6, TurnsAreOfValue
      <4>8. PICK g : TakenBy(g, b, l)
        BY <4>5 DEF Taken
      <4>9. ASSUME NEW j \in 1..Len(b) PROVE g[j] = Len(s) + 1
        <5>1. g[j] \in 1..Len(l) /\ b[j] = l[g[j]]
          BY <4>8 DEF TakenBy
        <5>2. BatchValue(st, b[j].item) = v
          BY <4>7 DEF OfValue
        <5>3. \A i \in 1..Len(l) : i \in 1..Len(s) \/ i = Len(s) + 1
          BY <2>2
        <5>4. ASSUME g[j] \in 1..Len(s) PROVE FALSE
          <6>1. l[g[j]] = s[g[j]] /\ BatchValue(st, s[g[j]].item) # v
            BY <2>2, <4>1, <5>4
          <6> QED BY <5>1, <5>2, <6>1
        <5> QED BY <5>1, <5>3, <5>4
      <4>10. Len(b) = 1
        <5>1. PICK m \in Nat : m = Len(b) /\ m # 0
          <6>1. Len(b) \in Nat /\ Len(b) # 0
            BY <4>5
          <6> QED BY <6>1
        <5>2. ASSUME 2 \in 1..Len(b) PROVE FALSE
          <6>1. 1 \in 1..Len(b)
            BY <5>1
          <6>2. g[1] = g[2]
            BY <4>9, <5>2, <6>1
          <6>3. 1 = 2
            BY <4>8, <5>2, <6>1, <6>2 DEF TakenBy
          <6> QED BY <6>3
        <5>3. 2 \notin 1..m
          BY <5>1, <5>2
        <5>4. m = 1
          BY <5>1, <5>3
        <5> QED BY <5>1, <5>4
      <4>11. b = <<e>>
        BY <4>5, <4>6, <4>10
      <4> QED BY <4>4, <4>5, <4>11
    <3> QED BY <2>2, <3>2, <3>3
  <2>4. Alike(l)
    BY <2>3
  <2> QED BY <2>1, <2>4
<1>3. Grows(S, E)
  BY <1>2 DEF Grows
<1>4. Seq(E) \subseteq S
  <2> HIDE DEF S
  <2> QED BY <1>1, <1>3, AllSequences
<1> QED BY <1>4

\* One sequence goes on where another stops.
GoesOn(s, t) == Len(s) <= Len(t) /\ \A i \in 1..Len(s) : s[i] = t[i]

LEMMA GoesOnIsPrefix ==
  ASSUME NEW E, NEW s \in Seq(E), NEW t \in Seq(E), GoesOn(s, t)
  PROVE  IsPrefix(s, t)
<1>1. /\ SubSeq(s, 1, Len(s)) \in Seq(E) /\ Len(SubSeq(s, 1, Len(s))) = Len(s)
      /\ \A i \in 1..Len(s) : SubSeq(s, 1, Len(s))[i] = s[i]
  OBVIOUS
<1>2. Len(s) \in Nat /\ Len(t) \in Nat /\ Len(s) <= Len(t)
  BY DEF GoesOn
<1>3. PICK l : l = Len(s)
  OBVIOUS
<1>4. /\ SubSeq(t, 1, l) \in Seq(E) /\ Len(SubSeq(t, 1, l)) = l
      /\ \A i \in 1..l : SubSeq(t, 1, l)[i] = t[i]
  BY <1>2, <1>3
<1>5. PICK a \in Seq(E) : a = SubSeq(s, 1, Len(s))
  BY <1>1
<1>6. PICK b \in Seq(E) : b = SubSeq(t, 1, l)
  BY <1>4
<1>7. Len(a) = l /\ \A i \in 1..l : a[i] = s[i]
  BY <1>1, <1>3, <1>5
<1>8. Len(b) = l /\ \A i \in 1..l : b[i] = t[i]
  BY <1>4, <1>6
<1>9. \A i \in 1..l : a[i] = b[i]
  BY <1>3, <1>7, <1>8 DEF GoesOn
<1>10. a = b
  BY <1>7, <1>8, <1>9
<1> QED BY <1>2, <1>3, <1>5, <1>6, <1>10 DEF IsPrefix

\* Those who come later only add to what is gathered.
LEMMA GatherGrows ==
  ASSUME NEW E, NEW st, NEW v, NEW q \in Seq(E), NEW m \in 0..Len(q)
  PROVE  IsPrefix(Gathered(st, v, SubSeq(q, 1, m)), Gathered(st, v, q))
<1> DEFINE Adds(s) == \A k \in 0..Len(s) : GoesOn(Gathered(st, v, SubSeq(s, 1, k)), Gathered(st, v, s))
           S == {s \in Seq(E) : Adds(s)}
<1>1. <<>> \in S
  <2>1. <<>> \in Seq(E) /\ Len(<<>>) = 0 /\ SubSeq(<<>>, 1, 0) = <<>>
    OBVIOUS
  <2>2. Gathered(st, v, <<>>) = <<>>
    BY GatherNone
  <2>3. GoesOn(<<>>, <<>>)
    BY DEF GoesOn
  <2>4. \A k \in 0..0 : k = 0
    OBVIOUS
  <2> QED BY <2>1, <2>2, <2>3, <2>4
<1>2. ASSUME NEW s \in Seq(E), s \in S, NEW e \in E PROVE Append(s, e) \in S
  <2>1. PICK l \in Seq(E) : l = Append(s, e)
    <3>1. Append(s, e) \in Seq(E)
      OBVIOUS
    <3> QED BY <3>1
  <2>2. Len(l) = Len(s) + 1 /\ Len(s) \in Nat
    BY <2>1
  <2>3. PICK b \in Seq(E) : b = Gathered(st, v, s)
    BY GatherAppend
  <2>4. PICK c \in Seq(E) : c = Gathered(st, v, l) /\ c = GatherOne(st, v, b, e)
    <3>1. Gathered(st, v, l) \in Seq(E)
      BY GatheredIsOfValue
    <3>2. Gathered(st, v, l) = GatherOne(st, v, b, e)
      BY <2>1, <2>3, GatherAppend
    <3> QED BY <3>1, <3>2
  <2>5. GoesOn(b, c)
    <3>1. CASE b = <<>>
      <4>1. Len(b) = 0 /\ Len(c) \in Nat
        BY <3>1
      <4> QED BY <4>1 DEF GoesOn
    <3>2. CASE b # <<>> /\ Joins(st, b[1], b, e)
      <4>1. c = Append(b, e)
        BY <2>4, <3>2 DEF GatherOne
      <4>2. Len(c) = Len(b) + 1 /\ Len(b) \in Nat /\ \A i \in 1..Len(b) : c[i] = b[i]
        BY <4>1
      <4> QED BY <4>2 DEF GoesOn
    <3>3. CASE b # <<>> /\ ~Joins(st, b[1], b, e)
      <4>1. c = b /\ Len(b) \in Nat
        BY <2>4, <3>3 DEF GatherOne
      <4> QED BY <4>1 DEF GoesOn
    <3> QED BY <3>1, <3>2, <3>3
  <2>6. ASSUME NEW k \in 0..Len(l) PROVE GoesOn(Gathered(st, v, SubSeq(l, 1, k)), c)
    <3>1. CASE k = Len(l)
      <4>1. SubSeq(l, 1, k) = l
        BY <3>1
      <4>2. GoesOn(c, c)
        <5>1. Len(c) \in Nat
          OBVIOUS
        <5> QED BY <5>1 DEF GoesOn
      <4> QED BY <2>4, <4>1, <4>2
    <3>2. CASE k # Len(l)
      <4>1. k \in 0..Len(s)
        BY <2>2, <3>2
      <4>2. SubSeq(l, 1, k) = SubSeq(s, 1, k) /\ SubSeq(s, 1, k) \in Seq(E)
        BY <2>1, <4>1
      <4>3. PICK a \in Seq(E) : a = Gathered(st, v, SubSeq(s, 1, k))
        BY <4>2, GatheredIsOfValue
      <4>4. GoesOn(a, b)
        BY <1>2, <2>3, <4>1, <4>3
      <4>5. Len(a) \in Nat /\ Len(b) \in Nat /\ Len(c) \in Nat
        OBVIOUS
      <4>6. Len(a) <= Len(b) /\ Len(b) <= Len(c)
        BY <2>5, <4>4 DEF GoesOn
      <4>7. \A i \in 1..Len(a) : i \in 1..Len(b)
        BY <4>5, <4>6
      <4>8. GoesOn(a, c)
        BY <2>5, <4>4, <4>5, <4>6, <4>7 DEF GoesOn
      <4> QED BY <4>2, <4>3, <4>8
    <3> QED BY <3>1, <3>2
  <2>7. Adds(l)
    BY <2>4, <2>6
  <2> QED BY <2>1, <2>7
<1>3. Grows(S, E)
  BY <1>2 DEF Grows
<1>4. Seq(E) \subseteq S
  <2> HIDE DEF S
  <2> QED BY <1>1, <1>3, AllSequences
<1>5. GoesOn(Gathered(st, v, SubSeq(q, 1, m)), Gathered(st, v, q))
  BY <1>4
<1>6. SubSeq(q, 1, m) \in Seq(E)
  OBVIOUS
<1> QED BY <1>5, <1>6, GatheredIsOfValue, GoesOnIsPrefix

\* First come, first in the queue.
InOrder(q) ==
  \A i, j \in 1..Len(q) : /\ q[i].since \in Int
                          /\ i <= j => q[i].since <= q[j].since

\* In such a queue every head a policy chooses is the first of his value.
LEMMA HeadIsFirst ==
  ASSUME NEW st, NEW E, NEW q \in Seq(E), q # <<>>, InOrder(q), NEW n \in Int, NEW last
  PROVE  LET h == ChooseHead(st, q, n, last)
         IN h \in 1..Len(q) /\ FirstOf(st, BatchValue(st, q[h].item), q, h)
<1> DEFINE h == ChooseHead(st, q, n, last)
<1>1. DOMAIN q = 1..Len(q) /\ Len(q) \in Nat /\ 1 \in 1..Len(q) /\ h \in 1..Len(q)
  BY HeadIsQueued
<1>2. ASSUME h = 1 PROVE FirstOf(st, BatchValue(st, q[h].item), q, h)
  <2>1. 1..(h - 1) = {}
    BY <1>2
  <2> HIDE DEF h
  <2> QED BY <2>1 DEF FirstOf
<1>3. CASE Overdue(q, n) # {}
  <2>1. PICK i \in 1..Len(q) : n - q[i].since >= Guard
    BY <1>1, <1>3 DEF Overdue
  <2>2. \A k \in 1..Len(q) : q[k].since \in Int /\ q[1].since <= q[k].since
    BY <1>1 DEF InOrder
  <2>3. h = 1
    BY <2>1, <2>2, OldestIsHead
  <2> QED BY <1>1, <1>2, <2>3
<1>4. CASE Overdue(q, n) = {} /\ last # NoKey /\ NoChangeover(st, q, last) # {}
  <2>1. h = Smallest(NoChangeover(st, q, last))
    BY <1>4 DEF ChooseHead
  <2>2. NoChangeover(st, q, last) \in SUBSET (1..Len(q))
    BY <1>1 DEF NoChangeover, InWindow
  <2>3. NoChangeover(st, q, last) \in SUBSET Nat
    BY <1>1, <2>2
  <2> HIDE DEF h
  <2>4. h \in NoChangeover(st, q, last) /\ \A i \in NoChangeover(st, q, last) : h <= i
    BY <1>4, <2>1, <2>3, SmallestIsIn
  <2>5. /\ BatchValue(st, q[h].item) = last
        /\ \A j \in 1..h : q[j].since - q[1].since <= Window
    BY <2>4 DEF NoChangeover, InWindow
  <2>6. ASSUME NEW i \in 1..(h - 1), BatchValue(st, q[i].item) = last PROVE FALSE
    <3>1. i \in 1..Len(q) /\ i < h /\ \A j \in 1..i : j \in 1..h
      BY <1>1
    <3>2. i \in NoChangeover(st, q, last)
      BY <1>1, <2>5, <2>6, <3>1 DEF NoChangeover, InWindow
    <3>3. h <= i /\ h \in Int
      BY <1>1, <2>4, <3>2
    <3> QED BY <3>1, <3>3
  <2>7. FirstOf(st, last, q, h)
    BY <2>5, <2>6 DEF FirstOf
  <2> QED BY <1>1, <2>5, <2>7 DEF h
<1>5. CASE Overdue(q, n) = {} /\ ~(last # NoKey /\ NoChangeover(st, q, last) # {})
  <2>1. h = 1
    BY <1>5 DEF ChooseHead
  <2> QED BY <1>1, <1>2, <2>1
<1> QED BY <1>3, <1>4, <1>5

\* So whatever a policy that groups makes is what is gathered of one value.
LEMMA BatchIsGathered ==
  ASSUME NEW name \in PolicyName, name # "fifo", NEW st, NEW E, NEW q \in Seq(E), q # <<>>,
         InOrder(q), NEW n \in Int, NEW last
  PROVE  \E w : /\ NextBatch(name, st, q, n, last) = Gathered(st, w, q)
                /\ name = "batch_milk" => w = BatchValue(st, q[1].item)
<1>1. CASE name = "batch_milk"
  <2>1. 1 \in 1..Len(q)
    OBVIOUS
  <2>2. FirstOf(st, BatchValue(st, q[1].item), q, 1)
    BY DEF FirstOf
  <2>3. Grow(st, q, 1) = Gathered(st, BatchValue(st, q[1].item), q)
    BY <2>1, <2>2, GatherIsGrow
  <2>4. NextBatch(name, st, q, n, last) = Grow(st, q, 1)
    BY <1>1 DEF NextBatch
  <2> QED BY <2>3, <2>4
<1>2. CASE name = "bounded_reorder"
  <2>1. PICK h : h = ChooseHead(st, q, n, last)
    OBVIOUS
  <2>2. h \in 1..Len(q) /\ FirstOf(st, BatchValue(st, q[h].item), q, h)
    BY <2>1, HeadIsFirst
  <2>3. Grow(st, q, h) = Gathered(st, BatchValue(st, q[h].item), q)
    BY <2>2, GatherIsGrow
  <2>4. NextBatch(name, st, q, n, last) = Grow(st, q, h)
    BY <1>2, <2>1 DEF NextBatch
  <2> QED BY <1>2, <2>3, <2>4
<1> QED BY <1>1, <1>2 DEF PolicyName

\* A queue without a batch is still in order.
LEMMA LeftInOrder ==
  ASSUME NEW E, NEW q \in Seq(E), InOrder(q), NEW b \in Seq(E), b # <<>>, Taken(b, q)
  PROVE  InOrder(Without(q, b))
<1>1. PICK r \in Seq(E) : r = Without(q, b)
  BY WithoutLeaves
<1>2. PICK f : LeftBy(f, r, q, b)
  BY <1>1, WithoutLeaves
<1>3. /\ f \in [1..Len(r) -> 1..Len(q)] /\ \A j \in 1..Len(r) : r[j] = q[f[j]]
      /\ \A i, j \in 1..Len(r) : i < j => f[i] < f[j]
  BY <1>2 DEF LeftBy
<1>4. ASSUME NEW i \in 1..Len(r), NEW j \in 1..Len(r)
      PROVE  r[i].since \in Int /\ (i <= j => r[i].since <= r[j].since)
  <2>1. f[i] \in 1..Len(q) /\ f[j] \in 1..Len(q) /\ r[i] = q[f[i]] /\ r[j] = q[f[j]]
    BY <1>3
  <2>2. i <= j => f[i] <= f[j]
    BY <1>3
  <2> QED BY <2>1, <2>2 DEF InOrder
<1>5. InOrder(r)
  BY <1>4 DEF InOrder
<1> QED BY <1>1, <1>5

\* What is gathered of one value is planned, or is still what would be gathered of it.
Awaited(acc, st, v, G) ==
  (\E k \in DOMAIN acc.plan : acc.plan[k] = G) \/ Gathered(st, v, acc.left) = G

LEMMA StaysAwaited ==
  ASSUME NEW E, NEW st, NEW n \in Int, NEW v, NEW G, NEW acc \in Plans(E, st),
         InOrder(acc.left), Awaited(acc, st, v, G)
  PROVE  LET next == PlanOne("bounded_reorder", st, n, acc)
         IN /\ InOrder(next.left) /\ Awaited(next, st, v, G)
            /\ Len(next.left) = 0 \/ Len(next.left) < Len(acc.left)
<1>1. acc.plan \in Seq(Seq(E)) /\ acc.left \in Seq(E)
  BY DEF Plans
<1>2. CASE acc.left = <<>>
  <2>1. PlanOne("bounded_reorder", st, n, acc) = acc
    BY <1>2 DEF PlanOne
  <2> QED BY <1>2, <2>1
<1>3. CASE acc.left # <<>>
  <2>1. PICK left \in Seq(E) : left = acc.left
    BY <1>1
  <2>2. left # <<>> /\ InOrder(left)
    BY <1>3, <2>1
  <2>3. PICK b : b = NextBatch("bounded_reorder", st, left, n, acc.last)
    OBVIOUS
  <2>4. b \in Seq(E) /\ b # <<>> /\ Taken(b, left)
    BY <2>2, <2>3, NextBatchTakes DEF PolicyName
  <2>5. PICK w : b = Gathered(st, w, left)
    <3>1. "bounded_reorder" \in PolicyName /\ "bounded_reorder" # "fifo"
      BY DEF PolicyName
    <3> QED BY <2>2, <2>3, <3>1, BatchIsGathered
  <2>6. PICK r \in Seq(E) : r = Without(left, b)
    BY <2>4, WithoutLeaves
  <2>7. InOrder(r) /\ Len(r) + Len(b) <= Len(left)
    BY <2>2, <2>4, <2>6, LeftInOrder, WithoutLeaves
  <2>8. PICK next : next = PlanOne("bounded_reorder", st, n, acc)
    OBVIOUS
  <2>9. next.plan = Append(acc.plan, b) /\ next.left = r
    BY <1>3, <2>1, <2>3, <2>6, <2>8 DEF PlanOne
  <2>10. Len(r) < Len(left)
    <3>1. Len(r) \in Nat /\ Len(b) \in Nat /\ Len(left) \in Nat /\ Len(b) # 0
      BY <2>4
    <3> QED BY <2>7, <3>1
  <2>11. /\ DOMAIN Append(acc.plan, b) = 1..(Len(acc.plan) + 1) /\ DOMAIN acc.plan = 1..Len(acc.plan)
         /\ Append(acc.plan, b)[Len(acc.plan) + 1] = b /\ Len(acc.plan) \in Nat
         /\ \A k \in 1..Len(acc.plan) : Append(acc.plan, b)[k] = acc.plan[k]
    <3> DEFINE A == Seq(E)
    <3>1. acc.plan \in Seq(A) /\ b \in A
      BY <1>1, <2>4
    <3> HIDE DEF A
    <3> QED BY <3>1
  <2>12. Awaited(next, st, v, G)
    <3>1. CASE \E k \in DOMAIN acc.plan : acc.plan[k] = G
      <4>1. PICK k \in 1..Len(acc.plan) : acc.plan[k] = G
        BY <2>11, <3>1
      <4>2. k \in 1..(Len(acc.plan) + 1) /\ Append(acc.plan, b)[k] = G
        BY <2>11, <4>1
      <4> QED BY <2>9, <2>11, <4>2 DEF Awaited
    <3>2. CASE Gathered(st, v, left) = G /\ w = v
      <4>1. Len(acc.plan) + 1 \in 1..(Len(acc.plan) + 1)
        BY <2>11
      <4>2. b = G
        BY <2>5, <3>2
      <4> QED BY <2>9, <2>11, <4>1, <4>2 DEF Awaited
    <3>3. CASE Gathered(st, v, left) = G /\ w # v
      <4>1. OfValue(st, w, b)
        BY <2>5, GatheredIsOfValue
      <4>2. OthersOnly(st, v, left, ToSet(left) \ ToSet(b))
        <5>1. SUFFICES ASSUME NEW i \in 1..Len(left), left[i] \notin ToSet(left) \ ToSet(b)
                       PROVE  BatchValue(st, left[i].item) # v
          BY DEF OthersOnly
        <5>2. left[i] \in ToSet(left)
          BY DEF ToSet
        <5>3. PICK j \in 1..Len(b) : b[j] = left[i]
          BY <2>4, <5>1, <5>2 DEF ToSet
        <5> QED BY <3>3, <4>1, <5>3 DEF OfValue
      <4>3. Gathered(st, v, r) = Gathered(st, v, left)
        BY <2>6, <4>2, GatherAmong DEF Without
      <4> QED BY <2>9, <3>3, <4>3 DEF Awaited
    <3> QED BY <2>1, <3>1, <3>2, <3>3 DEF Awaited
  <2> QED BY <2>1, <2>7, <2>8, <2>9, <2>10, <2>12
<1> QED BY <1>2, <1>3

\* What is gathered of a value is one of the groups on display, whatever comes first.
LEMMA GroupsAreFixed ==
  ASSUME NEW E, NEW st, NEW q \in Seq(E), InOrder(q), NEW n \in Int, NEW v,
         Gathered(st, v, q) # <<>>
  PROVE  \E k \in DOMAIN PlanBatches("bounded_reorder", st, q, n) :
           PlanBatches("bounded_reorder", st, q, n)[k] = Gathered(st, v, q)
<1> DEFINE s == [i \in DOMAIN q |-> i]
<1>0. PICK name : name = "bounded_reorder"
  OBVIOUS
<1>1. /\ s \in Seq(Nat) /\ Len(s) = Len(q)
      /\ \E acc : /\ FoldedTo(acc, Unplanned(q), Planning(E, name, st, n), s, Plans(E, st))
                  /\ PlanBatches(name, st, q, n) = acc.plan
  <2>1. name \in PolicyName
    BY <1>0 DEF PolicyName
  <2> QED BY <2>1, PlanFolds
<1> HIDE DEF s
<1>2. PICK steps \in [0..Len(s) -> Plans(E, st)] :
        /\ Stepwise(steps, Unplanned(q), Planning(E, name, st, n), s)
        /\ PlanBatches(name, st, q, n) = steps[Len(s)].plan
  BY <1>1 DEF FoldedTo
<1>3. Len(s) \in Nat
  BY <1>1
<1>4. PICK G : G = Gathered(st, v, q)
  OBVIOUS
<1> DEFINE Good == {k \in 0..Len(s) : /\ InOrder(steps[k].left) /\ Awaited(steps[k], st, v, G)
                                      /\ Len(steps[k].left) <= Len(q) - k}
<1>5. 0 \in Good
  <2>1. steps[0].left = q
    BY <1>2 DEF Stepwise, Unplanned
  <2>2. Awaited(steps[0], st, v, G)
    BY <1>4, <2>1 DEF Awaited
  <2>3. Len(q) \in Nat
    OBVIOUS
  <2> QED BY <1>3, <2>1, <2>2, <2>3
<1>6. ASSUME NEW k \in 0..(Len(s) - 1), k \in Good PROVE k + 1 \in Good
  <2>1. k + 1 \in 1..Len(s) /\ k \in 0..Len(s) /\ k + 1 \in 0..Len(s)
    BY <1>3
  <2>2. steps[k + 1] = Planning(E, name, st, n)[<<steps[k], s[k + 1]>>]
    BY <1>2, <1>3, OneStep
  <2>3. steps[k] \in Plans(E, st) /\ s[k + 1] \in Nat /\ steps[k + 1] \in Plans(E, st)
    <3>1. s \in Seq(Nat)
      BY <1>1
    <3>2. s[k + 1] \in Nat
      BY <2>1, <3>1
    <3> QED BY <1>2, <2>1, <3>2
  <2>4. steps[k + 1] = PlanOne(name, st, n, steps[k])
    BY <2>2, <2>3 DEF Planning
  <2>5. /\ InOrder(steps[k].left) /\ Awaited(steps[k], st, v, G)
        /\ Len(steps[k].left) <= Len(q) - k
    BY <1>6
  <2>6. /\ InOrder(steps[k + 1].left) /\ Awaited(steps[k + 1], st, v, G)
        /\ Len(steps[k + 1].left) = 0 \/ Len(steps[k + 1].left) < Len(steps[k].left)
    BY <1>0, <2>3, <2>4, <2>5, StaysAwaited
  <2>7. Len(steps[k].left) \in Nat /\ Len(steps[k + 1].left) \in Nat /\ Len(q) \in Nat
    BY <2>3 DEF Plans
  <2>8. Len(steps[k + 1].left) <= Len(q) - (k + 1)
    BY <1>1, <2>1, <2>5, <2>6, <2>7
  <2> QED BY <2>1, <2>6, <2>8
<1>7. 0..Len(s) \subseteq Good
  <2> HIDE DEF Good
  <2> QED BY <1>3, <1>5, <1>6, AllUpTo
<1>8. PICK acc \in Plans(E, st) :
        Awaited(acc, st, v, G) /\ Len(acc.left) <= 0 /\ PlanBatches(name, st, q, n) = acc.plan
  <2>1. Len(s) \in Good /\ Len(q) - Len(s) = 0 /\ steps[Len(s)] \in Plans(E, st)
    BY <1>1, <1>2, <1>3, <1>7
  <2> QED BY <1>2, <2>1
<1>9. acc.left = <<>>
  <2>1. acc.left \in Seq(E)
    BY DEF Plans
  <2> QED BY <1>8, <2>1
<1>10. Gathered(st, v, acc.left) # G
  BY <1>4, <1>9, GatherNone
<1> QED BY <1>0, <1>4, <1>8, <1>10 DEF Awaited

\* Among depends only on which of the elements are in the set.
LEMMA AmongAlike ==
  ASSUME NEW E, NEW s \in Seq(E), NEW T, NEW U, \A i \in 1..Len(s) : s[i] \in T <=> s[i] \in U
  PROVE  Among(s, T) = Among(s, U)
<1> DEFINE Alike(l) == (\A i \in 1..Len(l) : l[i] \in T <=> l[i] \in U) => Among(l, T) = Among(l, U)
           S == {l \in Seq(E) : Alike(l)}
<1>1. <<>> \in S
  BY AmongNone
<1>2. ASSUME NEW l \in Seq(E), l \in S, NEW e \in E PROVE Append(l, e) \in S
  <2>1. Append(l, e) \in Seq(E)
    OBVIOUS
  <2>2. ASSUME \A i \in 1..Len(Append(l, e)) : Append(l, e)[i] \in T <=> Append(l, e)[i] \in U
        PROVE  Among(Append(l, e), T) = Among(Append(l, e), U)
    <3>1. /\ Len(Append(l, e)) = Len(l) + 1 /\ Len(l) \in Nat /\ Append(l, e)[Len(l) + 1] = e
          /\ \A i \in 1..Len(l) : Append(l, e)[i] = l[i]
      OBVIOUS
    <3>2. \A i \in 1..Len(l) : l[i] \in T <=> l[i] \in U
      BY <2>2, <3>1
    <3>3. e \in T <=> e \in U
      <4>1. Len(l) + 1 \in 1..Len(Append(l, e))
        BY <3>1
      <4> QED BY <2>2, <3>1, <4>1
    <3>4. Among(l, T) = Among(l, U)
      BY <1>2, <3>2
    <3>5. CASE e \in T /\ e \in U
      <4>1. Among(Append(l, e), T) = Append(Among(l, T), e)
        BY <3>5, AmongAppend
      <4>2. Among(Append(l, e), U) = Append(Among(l, U), e)
        BY <3>5, AmongAppend
      <4> QED BY <3>4, <4>1, <4>2
    <3>6. CASE e \notin T /\ e \notin U
      <4>1. Among(Append(l, e), T) = Among(l, T)
        BY <3>6, AmongAppend
      <4>2. Among(Append(l, e), U) = Among(l, U)
        BY <3>6, AmongAppend
      <4> QED BY <3>4, <4>1, <4>2
    <3> QED BY <3>3, <3>5, <3>6
  <2>3. Alike(Append(l, e))
    BY <2>2
  <2> QED BY <2>1, <2>3
<1>3. Grows(S, E)
  BY <1>2 DEF Grows
<1>4. Seq(E) \subseteq S
  <2> HIDE DEF S
  <2> QED BY <1>1, <1>3, AllSequences
<1> QED BY <1>4

\* Who joins a queue joins what is left of it too, if he is not being made.
LEMMA JoinsTheRest ==
  ASSUME NEW E, NEW q \in Seq(E), NEW b \in Seq(E), NEW e \in E,
         \A j \in 1..Len(b) : b[j] # e
  PROVE  Without(Append(q, e), b) = Append(Without(q, b), e)
<1> DEFINE T == E \ ToSet(b)
<1>1. PICK l \in Seq(E) : l = Append(q, e)
  <2>1. Append(q, e) \in Seq(E)
    OBVIOUS
  <2> QED BY <2>1
<1>2. ASSUME NEW s \in Seq(E) PROVE Without(s, b) = Among(s, T)
  <2>1. \A i \in 1..Len(s) : s[i] \in E /\ s[i] \in ToSet(s)
    BY DEF ToSet
  <2>2. \A i \in 1..Len(s) : s[i] \in ToSet(s) \ ToSet(b) <=> s[i] \in T
    BY <2>1
  <2> HIDE DEF T
  <2>3. Among(s, ToSet(s) \ ToSet(b)) = Among(s, T)
    BY <2>2, AmongAlike
  <2> QED BY <2>3 DEF Without
<1>3. e \in T
  BY DEF ToSet
<1> HIDE DEF T
<1>4. Among(Append(q, e), T) = Append(Among(q, T), e)
  BY <1>3, AmongAppend
<1> QED BY <1>1, <1>2, <1>4

\* Nobody taken, everybody left.
LEMMA NobodyTaken ==
  ASSUME NEW E, NEW q \in Seq(E)
  PROVE  Without(q, <<>>) = q
<1>1. ToSet(<<>>) = {}
  BY DEF ToSet
<1>2. \A i \in 1..Len(q) : q[i] \in ToSet(q) \ {}
  BY DEF ToSet
<1> QED BY <1>1, <1>2, AmongAll DEF Without

=============================================================================
