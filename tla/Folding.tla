------------------------------ MODULE Folding ------------------------------
(***************************************************************************)
(* What the component proofs need of the data the models compute with:      *)
(* induction as a fact about sets of naturals, the greatest element of a     *)
(* table's numbers, and the folds over sets and sequences.                   *)
(***************************************************************************)
EXTENDS Integers, SequencesExt, FiniteSetsExt, FiniteSetTheorems, WellFoundedInduction, TLAPS

\* A nonempty set of naturals below a bound has a greatest element.
LEMMA MaxOfBounded ==
  ASSUME NEW N \in Nat, NEW S \in SUBSET (0..N), S # {}
  PROVE  Max(S) \in S /\ \A x \in S : Max(S) >= x
<1> DEFINE B == { n \in Nat : \A x \in S : x <= n }
<1>1. N \in B /\ B \subseteq Nat
  OBVIOUS
<1>2. PICK m \in B : \A y \in B : ~ (<<y, m>> \in OpToRel(<, Nat))
  <2>1. IsWellFoundedOn(OpToRel(<, Nat), Nat)
    BY NatLessThanWellFounded
  <2> HIDE DEF B
  <2> QED BY <1>1, <2>1, WFMin
<1>3. \A y \in B : ~ (y < m)
  BY <1>2 DEF OpToRel
<1>4. m \in S
  <2>1. SUFFICES ASSUME m \notin S PROVE FALSE
    OBVIOUS
  <2>2. \A x \in S : x < m
    BY <2>1
  <2>3. m > 0
    <3>1. PICK x \in S : TRUE
      OBVIOUS
    <3> QED BY <2>2, <3>1
  <2>4. m - 1 \in B
    BY <2>2, <2>3
  <2> QED BY <1>3, <2>4
<1>5. \E x \in S : \A y \in S : x >= y
  BY <1>4
<1> QED BY <1>5 DEF Max

\* A nonempty set of naturals has a least element.
LEMMA LeastOfNaturals ==
  ASSUME NEW S \in SUBSET Nat, S # {}
  PROVE  \E k \in S : \A other \in S : k <= other
<1>1. IsWellFoundedOn(OpToRel(<, Nat), Nat)
  BY NatLessThanWellFounded
<1>2. PICK k \in S : \A y \in S : ~ (<<y, k>> \in OpToRel(<, Nat))
  BY <1>1, WFMin
<1>3. \A y \in S : ~ (y < k)
  BY <1>2 DEF OpToRel
<1> QED BY <1>3

\* Induction: a set of naturals closed under successor has all of them.
LEMMA AllNaturals ==
  ASSUME NEW S \in SUBSET Nat, 0 \in S, \A n \in S : n + 1 \in S
  PROVE  S = Nat
<1> SUFFICES ASSUME Nat \ S # {} PROVE FALSE
  OBVIOUS
<1> DEFINE T == Nat \ S
<1>1. PICK m \in T : \A y \in T : ~ (<<y, m>> \in OpToRel(<, Nat))
  <2>1. IsWellFoundedOn(OpToRel(<, Nat), Nat) /\ T \subseteq Nat /\ T # {}
    BY NatLessThanWellFounded
  <2> HIDE DEF T
  <2> QED BY <2>1, WFMin
<1>2. m # 0 /\ m - 1 \in Nat /\ <<m - 1, m>> \in OpToRel(<, Nat)
  BY DEF OpToRel
<1>3. m - 1 \in S
  BY <1>1, <1>2
<1>4. PICK k \in S : k = m - 1
  BY <1>3
<1>5. k + 1 \in S
  OBVIOUS
<1>6. m \in Nat /\ m \notin S /\ k \in Nat
  OBVIOUS
<1>7. k + 1 = m
  BY <1>4, <1>6
<1> QED BY <1>5, <1>6, <1>7

\* The same below a bound: what holds at 0 and goes on to the next holds up to n.
LEMMA AllUpTo ==
  ASSUME NEW n \in Nat, NEW S, 0 \in S, \A i \in 0..(n - 1) : i \in S => i + 1 \in S
  PROVE  0..n \subseteq S
<1> DEFINE T == { i \in Nat : i <= n => i \in S }
<1>1. T \in SUBSET Nat /\ 0 \in T /\ \A i \in T : i + 1 \in T
  OBVIOUS
<1>2. T = Nat
  <2> HIDE DEF T
  <2> QED BY <1>1, AllNaturals
<1> QED BY <1>2
-----------------------------------------------------------------------------
(* Folds over a finite set *)

\* pick takes an element out of every nonempty subset of S.
Picks(pick, S) == \A T \in SUBSET S : T # {} => pick[T] \in T

\* run is what MapThenFoldSet computes on the way, for one operation.
Folds(run, base, op, pick, S) ==
  /\ run[{}] = base
  /\ \A T \in SUBSET S : T # {} => run[T] = op[<<pick[T], run[T \ {pick[T]}]>>]

\* The recursion of a fold has a solution, of the type of the operation.
Solvable(base, op, pick, S, Acc) ==
  \E run \in [SUBSET S -> Acc] : Folds(run, base, op, pick, S)

LEMMA FoldExists ==
  ASSUME NEW S, IsFiniteSet(S), NEW Acc, NEW base \in Acc,
         NEW op \in [S \X Acc -> Acc], NEW pick, Picks(pick, S)
  PROVE  Solvable(base, op, pick, S, Acc)
<1> DEFINE Small(n) == { T \in SUBSET S : Cardinality(T) <= n }
           Part(run, n) ==
             /\ run[{}] = base
             /\ \A T \in Small(n) : T # {} => run[T] = op[<<pick[T], run[T \ {pick[T]}]>>]
           Done == { n \in Nat : \E run \in [SUBSET S -> Acc] : Part(run, n) }
<1>1. \A T \in SUBSET S : /\ IsFiniteSet(T) /\ Cardinality(T) \in Nat
                          /\ Cardinality(T) <= Cardinality(S)
                          /\ Cardinality(T) = 0 <=> T = {}
                          /\ \A x \in T : Cardinality(T \ {x}) = Cardinality(T) - 1
  BY FS_Subset, FS_CardinalityType, FS_EmptySet, FS_RemoveElement
<1>2. 0 \in Done
  <2> DEFINE run == [T \in SUBSET S |-> base]
  <2>1. run \in [SUBSET S -> Acc] /\ run[{}] = base
    OBVIOUS
  <2>2. \A T \in Small(0) : T = {}
    BY <1>1
  <2> QED BY <2>1, <2>2
<1>3. ASSUME NEW n \in Done PROVE n + 1 \in Done
  <2>1. PICK old \in [SUBSET S -> Acc] : Part(old, n)
    BY <1>3
  <2> DEFINE run == [T \in SUBSET S |-> IF T \in Small(n) THEN old[T]
                                        ELSE op[<<pick[T], old[T \ {pick[T]}]>>]]
  <2>2. ASSUME NEW T \in SUBSET S, T # {}
        PROVE  pick[T] \in S /\ T \ {pick[T]} \in SUBSET S
    BY <2>2 DEF Picks
  <2>3. {} \in Small(n)
    BY <1>1, n \in Nat
  <2>4. run \in [SUBSET S -> Acc]
    <3> SUFFICES ASSUME NEW T \in SUBSET S, T \notin Small(n)
                 PROVE  op[<<pick[T], old[T \ {pick[T]}]>>] \in Acc
      OBVIOUS
    <3>1. T # {}
      BY <2>3
    <3> QED BY <2>2, <3>1
  <2>5. ASSUME NEW T \in Small(n + 1), T # {}
        PROVE  run[T] = op[<<pick[T], run[T \ {pick[T]}]>>]
    <3> DEFINE rest == T \ {pick[T]}
    <3>1. rest \in Small(n) /\ run[rest] = old[rest]
      <4>1. Cardinality(rest) = Cardinality(T) - 1 /\ Cardinality(T) <= n + 1
        BY <1>1, <2>5 DEF Picks
      <4>2. rest \in SUBSET S /\ Cardinality(rest) \in Nat /\ Cardinality(T) \in Nat
        BY <1>1, <2>2, <2>5
      <4> QED BY <4>1, <4>2, n \in Nat
    <3>2. CASE T \in Small(n)
      BY <2>1, <2>5, <3>1, <3>2
    <3>3. CASE T \notin Small(n)
      BY <3>1, <3>3
    <3> QED BY <3>2, <3>3
  <2>6. run[{}] = base
    BY <2>1, <2>3
  <2>7. Part(run, n + 1)
    <3> HIDE DEF run, Small
    <3> QED BY <2>5, <2>6
  <2> HIDE DEF run, Part
  <2> QED BY <2>4, <2>7
<1>4. Done = Nat
  <2>1. Done \in SUBSET Nat
    OBVIOUS
  <2> HIDE DEF Done
  <2> QED BY <1>2, <1>3, <2>1, AllNaturals
<1>5. PICK run \in [SUBSET S -> Acc] : Part(run, Cardinality(S))
  <2>1. Cardinality(S) \in Done
    BY <1>4, FS_CardinalityType
  <2> QED BY <2>1
<1>6. \A T \in SUBSET S : T \in Small(Cardinality(S))
  BY <1>1
<1> QED BY <1>5, <1>6 DEF Folds, Solvable

\* Two runs that start alike and go on alike are alike.
GoAlike(f, g, pick, S) ==
  /\ f[{}] = g[{}]
  /\ \A T \in SUBSET S : T # {} /\ f[T \ {pick[T]}] = g[T \ {pick[T]}] => f[T] = g[T]

LEMMA FoldsAgree ==
  ASSUME NEW S, IsFiniteSet(S), NEW pick, Picks(pick, S), NEW f, NEW g,
         GoAlike(f, g, pick, S)
  PROVE  \A T \in SUBSET S : f[T] = g[T]
<1> DEFINE Done == { n \in Nat : \A T \in SUBSET S : Cardinality(T) = n => f[T] = g[T] }
<1>1. \A T \in SUBSET S : /\ IsFiniteSet(T) /\ Cardinality(T) \in Nat
                          /\ Cardinality(T) = 0 <=> T = {}
                          /\ \A x \in T : Cardinality(T \ {x}) = Cardinality(T) - 1
  BY FS_Subset, FS_CardinalityType, FS_EmptySet, FS_RemoveElement
<1>2. 0 \in Done
  BY <1>1 DEF GoAlike
<1>3. ASSUME NEW n \in Done PROVE n + 1 \in Done
  <2> SUFFICES ASSUME NEW T \in SUBSET S, Cardinality(T) = n + 1 PROVE f[T] = g[T]
    OBVIOUS
  <2>1. T # {} /\ pick[T] \in T
    BY <1>1 DEF Picks
  <2>2. Cardinality(T \ {pick[T]}) = n /\ T \ {pick[T]} \in SUBSET S
    BY <1>1, <2>1
  <2> QED BY <2>1, <2>2 DEF GoAlike
<1>4. Done = Nat
  <2>1. Done \in SUBSET Nat
    OBVIOUS
  <2> HIDE DEF Done
  <2> QED BY <1>2, <1>3, <2>1, AllNaturals
<1> QED BY <1>1, <1>4
-----------------------------------------------------------------------------
(* Sums over a finite set *)

SumOver(f, S) == MapThenSumSet(LAMBDA x : f[x], S)

OneOf(T) == CHOOSE x \in T : TRUE

SumRun(run, f, S) ==
  run = [T \in SUBSET S |-> IF T = {} THEN 0 ELSE f[OneOf(T)] + run[T \ {OneOf(T)}]]

\* A sum is what its recursion computes, on the set and on every part of it.
SumsUp(f, S) ==
  \E run \in [SUBSET S -> Int] :
    SumRun(run, f, S) /\ \A T \in SUBSET S : SumOver(f, T) = run[T]

LEMMA SumIsRun ==
  ASSUME NEW S, IsFiniteSet(S), NEW f, \A x \in S : f[x] \in Int
  PROVE  SumsUp(f, S)
<1> DEFINE pick == [T \in SUBSET S |-> OneOf(T)]
           op == [p \in S \X Int |-> f[p[1]] + p[2]]
<1>1. \A T \in SUBSET S : T # {} => OneOf(T) \in T
  BY DEF OneOf
<1>2. Picks(pick, S)
  BY <1>1 DEF Picks
<1>3. op \in [S \X Int -> Int]
  OBVIOUS
<1>4. PICK run \in [SUBSET S -> Int] : Folds(run, 0, op, pick, S)
  <2>1. Solvable(0, op, pick, S, Int)
    <3> HIDE DEF pick, op
    <3> QED BY <1>2, <1>3, FoldExists
  <2> QED BY <2>1 DEF Solvable
<1>5. ASSUME NEW T \in SUBSET S, T # {}
      PROVE  run[T] = f[OneOf(T)] + run[T \ {OneOf(T)}]
  <2>1. run[T] = op[<<pick[T], run[T \ {pick[T]}]>>] /\ pick[T] = OneOf(T)
    BY <1>4, <1>5 DEF Folds
  <2>2. OneOf(T) \in S /\ T \ {OneOf(T)} \in SUBSET S
    BY <1>1, <1>5
  <2> QED BY <2>1, <2>2
<1>6. run[{}] = 0
  BY <1>4 DEF Folds
<1>7. SumRun(run, f, S)
  BY <1>5, <1>6 DEF SumRun
<1>8. ASSUME NEW U \in SUBSET S PROVE SumOver(f, U) = run[U]
  <2> DEFINE part == [T \in SUBSET U |-> run[T]]
             g == CHOOSE h : SumRun(h, f, U)
  <2>1. SumRun(part, f, U)
    <3>1. \A T \in SUBSET U : T # {} => part[T] = f[OneOf(T)] + part[T \ {OneOf(T)}]
      BY <1>5
    <3>2. part[{}] = 0
      BY <1>6
    <3> QED BY <3>1, <3>2 DEF SumRun
  <2>2. SumRun(g, f, U)
    <3> HIDE DEF part
    <3> QED BY <2>1, Zenon
  <2>3. SumOver(f, U) = g[U]
    BY DEF SumOver, SumRun, OneOf, MapThenSumSet, MapThenFoldSet
  <2>4. g[{}] = 0 /\ \A T \in SUBSET U : T # {} => g[T] = f[OneOf(T)] + g[T \ {OneOf(T)}]
    <3> HIDE DEF g
    <3>1. DOMAIN g = SUBSET U
      BY <2>2 DEF SumRun
    <3> QED BY <2>2 DEF SumRun
  <2>5. Picks(pick, U) /\ IsFiniteSet(U)
    BY <1>1, FS_Subset DEF Picks
  <2>6. \A T \in SUBSET U : T # {} /\ g[T \ {pick[T]}] = run[T \ {pick[T]}] => g[T] = run[T]
    <3> HIDE DEF g
    <3> QED BY <1>5, <2>4
  <2>7. g[{}] = run[{}]
    BY <1>6, <2>4
  <2>8. \A T \in SUBSET U : g[T] = run[T]
    <3>1. GoAlike(g, run, pick, U)
      <4> HIDE DEF g, pick
      <4> QED BY <2>6, <2>7 DEF GoAlike
    <3> HIDE DEF g, pick
    <3> QED BY <2>5, <3>1, FoldsAgree
  <2> QED BY <2>3, <2>8
<1> QED BY <1>7, <1>8 DEF SumsUp

\* The sum over nothing, over a set with one element taken out, and its type.
LEMMA SumOfNone == ASSUME NEW f PROVE SumOver(f, {}) = 0
<1>1. IsFiniteSet({})
  BY FS_EmptySet
<1>2. PICK run \in [SUBSET {} -> Int] :
        SumRun(run, f, {}) /\ \A T \in SUBSET {} : SumOver(f, T) = run[T]
  <2>1. \A x \in {} : f[x] \in Int
    OBVIOUS
  <2>2. SumsUp(f, {})
    BY <1>1, <2>1, SumIsRun
  <2> QED BY <2>2 DEF SumsUp
<1> QED BY <1>2 DEF SumRun

LEMMA SumTakeOut ==
  ASSUME NEW S, IsFiniteSet(S), NEW f, \A x \in S : f[x] \in Int, NEW e \in S
  PROVE  /\ SumOver(f, S) \in Int /\ SumOver(f, S \ {e}) \in Int
         /\ SumOver(f, S) = f[e] + SumOver(f, S \ {e})
<1>0. SumsUp(f, S)
  BY SumIsRun
<1>1. PICK run \in [SUBSET S -> Int] :
        SumRun(run, f, S) /\ \A T \in SUBSET S : SumOver(f, T) = run[T]
  BY <1>0 DEF SumsUp
<1>2. \A T \in SUBSET S : T # {} => OneOf(T) \in T /\ run[T] = f[OneOf(T)] + run[T \ {OneOf(T)}]
  BY <1>1 DEF SumRun, OneOf
<1>3. \A T \in SUBSET S : /\ IsFiniteSet(T) /\ Cardinality(T) \in Nat
                          /\ \A x \in T : Cardinality(T \ {x}) = Cardinality(T) - 1
  BY FS_Subset, FS_CardinalityType, FS_RemoveElement
<1> DEFINE Good(T) == \A x \in T : run[T] = f[x] + run[T \ {x}]
           Done == { n \in Nat : \A T \in SUBSET S : Cardinality(T) = n => Good(T) }
<1>4. 0 \in Done
  BY <1>3, FS_EmptySet
<1>5. ASSUME NEW n \in Done PROVE n + 1 \in Done
  <2> SUFFICES ASSUME NEW T \in SUBSET S, Cardinality(T) = n + 1, NEW x \in T
               PROVE  run[T] = f[x] + run[T \ {x}]
    OBVIOUS
  <2> DEFINE y == OneOf(T)
  <2>1. y \in T /\ run[T] = f[y] + run[T \ {y}]
    BY <1>2
  <2>2. CASE x = y
    BY <2>1, <2>2
  <2>3. CASE x # y
    <3>1. Cardinality(T \ {y}) = n /\ Cardinality(T \ {x}) = n
      BY <1>3, <2>1, SMTT(30)
    <3>2. Good(T \ {y}) /\ Good(T \ {x})
      BY <3>1
    <3>3. run[T \ {y}] = f[x] + run[(T \ {y}) \ {x}] /\ run[T \ {x}] = f[y] + run[(T \ {x}) \ {y}]
      BY <2>1, <2>3, <3>2
    <3>4. (T \ {y}) \ {x} = (T \ {x}) \ {y}
      OBVIOUS
    <3>5. f[x] \in Int /\ f[y] \in Int /\ run[(T \ {x}) \ {y}] \in Int
      BY <2>1
    <3>6. run[T] = f[y] + (f[x] + run[(T \ {x}) \ {y}])
      BY <2>1, <3>3, <3>4
    <3> HIDE DEF y
    <3> QED BY <3>3, <3>5, <3>6
  <2> QED BY <2>2, <2>3
<1>6. Done = Nat
  <2>1. Done \in SUBSET Nat
    OBVIOUS
  <2> HIDE DEF Done
  <2> QED BY <1>4, <1>5, <2>1, AllNaturals
<1>7. Good(S)
  BY <1>3, <1>6
<1> QED BY <1>1, <1>7

\* The sum depends on the summands only.
LEMMA SumSame ==
  ASSUME NEW S, IsFiniteSet(S), NEW f, NEW g, \A x \in S : f[x] \in Int /\ g[x] = f[x]
  PROVE  SumOver(f, S) = SumOver(g, S)
<1>0. SumsUp(f, S) /\ SumsUp(g, S)
  <2>1. \A x \in S : f[x] \in Int /\ g[x] \in Int
    OBVIOUS
  <2> QED BY <2>1, SumIsRun
<1>1. PICK run \in [SUBSET S -> Int] :
        SumRun(run, f, S) /\ \A T \in SUBSET S : SumOver(f, T) = run[T]
  BY <1>0 DEF SumsUp
<1>2. PICK other \in [SUBSET S -> Int] :
        SumRun(other, g, S) /\ \A T \in SUBSET S : SumOver(g, T) = other[T]
  BY <1>0 DEF SumsUp
<1> DEFINE pick == [T \in SUBSET S |-> OneOf(T)]
<1>3. Picks(pick, S)
  BY DEF Picks, OneOf
<1>4. run[{}] = other[{}]
  BY <1>1, <1>2 DEF SumRun
<1>5. ASSUME NEW T \in SUBSET S, T # {}, run[T \ {pick[T]}] = other[T \ {pick[T]}]
      PROVE  run[T] = other[T]
  <2>1. OneOf(T) \in S /\ pick[T] = OneOf(T)
    BY <1>5 DEF OneOf
  <2>2. run[T] = f[OneOf(T)] + run[T \ {OneOf(T)}] /\ other[T] = g[OneOf(T)] + other[T \ {OneOf(T)}]
    BY <1>1, <1>2, <1>5 DEF SumRun
  <2> QED BY <1>5, <2>1, <2>2
<1>6. \A T \in SUBSET S : run[T] = other[T]
  <2> HIDE DEF pick
  <2>1. GoAlike(run, other, pick, S)
    BY <1>4, <1>5 DEF GoAlike
  <2> QED BY <1>3, <2>1, FoldsAgree
<1> QED BY <1>1, <1>2, <1>6
\* Whatever solves the recursion of a sum is that sum.
LEMMA SumOfRun ==
  ASSUME NEW S, IsFiniteSet(S), NEW f, \A x \in S : f[x] \in Int, NEW g, SumRun(g, f, S)
  PROVE  g[S] = SumOver(f, S)
<1>1. SumsUp(f, S)
  BY SumIsRun
<1>2. PICK run \in [SUBSET S -> Int] :
        SumRun(run, f, S) /\ \A T \in SUBSET S : SumOver(f, T) = run[T]
  BY <1>1 DEF SumsUp
<1> DEFINE pick == [T \in SUBSET S |-> OneOf(T)]
<1>3. Picks(pick, S)
  BY DEF Picks, OneOf
<1>4. /\ g[{}] = 0 /\ run[{}] = 0
      /\ \A T \in SUBSET S : T # {} => /\ g[T] = f[OneOf(T)] + g[T \ {OneOf(T)}]
                                       /\ run[T] = f[OneOf(T)] + run[T \ {OneOf(T)}]
  BY <1>2 DEF SumRun
<1>5. GoAlike(g, run, pick, S)
  BY <1>4 DEF GoAlike
<1>6. \A T \in SUBSET S : g[T] = run[T]
  <2> HIDE DEF pick
  <2> QED BY <1>3, <1>5, FoldsAgree
<1> QED BY <1>2, <1>6
-----------------------------------------------------------------------------
(* Folds over a sequence, from its first element *)

\* run is what FoldLeft computes on the way: it takes the greatest index out of
\* every set of indices.
LeftRun(run, base, op, s) ==
  /\ run[{}] = base
  /\ \A T \in SUBSET (1..Len(s)) :
       T # {} => run[T] = op[<<run[T \ {Max(T)}], s[Max(T)]>>]

LeftSolvable(base, op, s, Acc) ==
  \E run \in [SUBSET (1..Len(s)) -> Acc] : LeftRun(run, base, op, s)

\* steps[i] is what the fold has made of the first i elements.
Stepwise(steps, base, op, s) ==
  /\ steps[0] = base
  /\ \A i \in 1..Len(s) : steps[i] = op[<<steps[i - 1], s[i]>>]

LEMMA GreatestIndex ==
  ASSUME NEW n \in Nat
  PROVE  /\ IsFiniteSet(1..n)
         /\ \A T \in SUBSET (1..n) : T # {} => Max(T) \in T
         /\ \A i \in 1..n : Max(1..i) = i /\ (1..i) \ {i} = 1..(i - 1)
<1>1. \A T \in SUBSET (1..n) : T # {} => Max(T) \in T /\ \A x \in T : Max(T) >= x
  <2> SUFFICES ASSUME NEW T \in SUBSET (1..n), T # {}
               PROVE  Max(T) \in T /\ \A x \in T : Max(T) >= x
    OBVIOUS
  <2>1. T \in SUBSET (0..n)
    OBVIOUS
  <2> QED BY <2>1, MaxOfBounded
<1>2. ASSUME NEW i \in 1..n PROVE Max(1..i) = i
  <2>1. 1..i \in SUBSET (1..n) /\ i \in 1..i
    OBVIOUS
  <2>2. Max(1..i) \in 1..i /\ Max(1..i) >= i
    BY <1>1, <2>1
  <2> QED BY <2>2
<1> QED BY <1>1, <1>2, FS_Interval

\* The recursion of a left fold has a solution.
LEMMA LeftExists ==
  ASSUME NEW E, NEW s \in Seq(E), NEW Acc, NEW base \in Acc, NEW op \in [Acc \X E -> Acc]
  PROVE  LeftSolvable(base, op, s, Acc)
<1> DEFINE S == 1..Len(s)
           pick == [T \in SUBSET S |-> Max(T)]
           turned == [p \in S \X Acc |-> op[<<p[2], s[p[1]]>>]]
<1>1. Len(s) \in Nat /\ \A i \in S : s[i] \in E
  OBVIOUS
<1>2. Picks(pick, S) /\ IsFiniteSet(S)
  BY <1>1, GreatestIndex DEF Picks
<1>3. turned \in [S \X Acc -> Acc]
  BY <1>1
<1>4. Solvable(base, turned, pick, S, Acc)
  <2> HIDE DEF S, pick, turned
  <2> QED BY <1>2, <1>3, FoldExists
<1>5. PICK run \in [SUBSET S -> Acc] : Folds(run, base, turned, pick, S)
  BY <1>4 DEF Solvable
<1>6. ASSUME NEW T \in SUBSET S, T # {}
      PROVE  run[T] = op[<<run[T \ {Max(T)}], s[Max(T)]>>]
  <2>1. run[T] = turned[<<pick[T], run[T \ {pick[T]}]>>] /\ pick[T] = Max(T)
    BY <1>5, <1>6 DEF Folds
  <2>2. Max(T) \in S /\ run[T \ {Max(T)}] \in Acc
    BY <1>2, <1>6, <2>1 DEF Picks
  <2> QED BY <2>1, <2>2
<1>7. run[{}] = base
  BY <1>5 DEF Folds
<1> QED BY <1>6, <1>7 DEF LeftSolvable, LeftRun

\* Whatever starts and goes on like a left fold is computed step by step.
LeftLike(g, base, op, s, Acc) ==
  /\ g[{}] = base
  /\ \A T \in SUBSET (1..Len(s)) :
       T # {} /\ g[T \ {Max(T)}] \in Acc
         => g[T] = op[<<g[T \ {Max(T)}], s[Max(T)]>>]

FoldedTo(value, base, op, s, Acc) ==
  \E steps \in [0..Len(s) -> Acc] : Stepwise(steps, base, op, s) /\ value = steps[Len(s)]

LEMMA LeftStepwise ==
  ASSUME NEW E, NEW s \in Seq(E), NEW Acc, NEW base \in Acc, NEW op \in [Acc \X E -> Acc],
         NEW g, LeftLike(g, base, op, s, Acc)
  PROVE  FoldedTo(g[1..Len(s)], base, op, s, Acc)
<1> DEFINE n == Len(s)
           S == 1..n
           pick == [T \in SUBSET S |-> Max(T)]
<1>1. n \in Nat /\ \A i \in S : s[i] \in E
  OBVIOUS
<1>2. PICK run \in [SUBSET S -> Acc] : LeftRun(run, base, op, s)
  BY LeftExists DEF LeftSolvable
<1>3. \A T \in SUBSET S : g[T] = run[T]
  <2>1. Picks(pick, S) /\ IsFiniteSet(S)
    BY <1>1, GreatestIndex DEF Picks
  <2>2. g[{}] = run[{}]
    BY <1>2 DEF LeftRun, LeftLike
  <2>3. ASSUME NEW T \in SUBSET S, T # {}, g[T \ {pick[T]}] = run[T \ {pick[T]}]
        PROVE  g[T] = run[T]
    <3>1. pick[T] = Max(T) /\ run[T \ {Max(T)}] \in Acc
      OBVIOUS
    <3>2. run[T] = op[<<run[T \ {Max(T)}], s[Max(T)]>>]
      BY <1>2, <2>3 DEF LeftRun
    <3> QED BY <2>3, <3>1, <3>2 DEF LeftLike
  <2>4. \A T \in SUBSET S : T # {} /\ g[T \ {pick[T]}] = run[T \ {pick[T]}] => g[T] = run[T]
    BY <2>3
  <2> HIDE DEF S, pick
  <2>5. GoAlike(g, run, pick, S)
    BY <2>2, <2>4 DEF GoAlike
  <2> QED BY <2>1, <2>5, FoldsAgree
<1> DEFINE steps == [i \in 0..n |-> run[1..i]]
<1>4. steps \in [0..n -> Acc]
  BY <1>1, SMTT(30)
<1>5. steps[0] = base
  <2>1. 1..0 = {}
    OBVIOUS
  <2> QED BY <1>1, <1>2, <2>1 DEF LeftRun
<1>6. ASSUME NEW i \in 1..n PROVE steps[i] = op[<<steps[i - 1], s[i]>>]
  <2>1. Max(1..i) = i /\ (1..i) \ {i} = 1..(i - 1) /\ 1..i \in SUBSET S /\ 1..i # {}
    BY <1>1, GreatestIndex
  <2>2. run[1..i] = op[<<run[1..(i - 1)], s[i]>>]
    BY <1>2, <2>1 DEF LeftRun
  <2>3. steps[i] = run[1..i] /\ steps[i - 1] = run[1..(i - 1)]
    BY <1>1
  <2> QED BY <2>2, <2>3
<1>7. g[1..n] = steps[n]
  BY <1>1, <1>3
<1>8. Stepwise(steps, base, op, s)
  BY <1>5, <1>6 DEF Stepwise
<1> HIDE DEF steps
<1> QED BY <1>4, <1>7, <1>8 DEF FoldedTo

\* One more element is one more step.
Continues(v, w, e, op, Acc) == v \in Acc /\ w = op[<<v, e>>]

LEMMA OneMoreStep ==
  ASSUME NEW E, NEW s \in Seq(E), NEW e \in E, NEW Acc, NEW base, NEW op, NEW v, NEW w,
         FoldedTo(v, base, op, s, Acc), FoldedTo(w, base, op, Append(s, e), Acc)
  PROVE  Continues(v, w, e, op, Acc)
<1> DEFINE n == Len(s)
           t == Append(s, e)
<1>1. n \in Nat /\ Len(t) = n + 1 /\ t[n + 1] = e /\ \A i \in 1..n : t[i] = s[i]
  OBVIOUS
<1>2. PICK short \in [0..n -> Acc] : Stepwise(short, base, op, s) /\ v = short[n]
  BY DEF FoldedTo
<1>3. PICK long \in [0..(n + 1) -> Acc] : Stepwise(long, base, op, t) /\ w = long[n + 1]
  BY <1>1 DEF FoldedTo
<1> DEFINE Alike == { i \in 0..n : short[i] = long[i] }
<1>4. 0 \in Alike
  BY <1>1, <1>2, <1>3 DEF Stepwise
<1>5. ASSUME NEW i \in 0..(n - 1), i \in Alike PROVE i + 1 \in Alike
  <2>1. i + 1 \in 1..n /\ i + 1 \in 1..(n + 1) /\ i + 1 - 1 = i
    BY <1>1
  <2>2. short[i + 1] = op[<<short[i], s[i + 1]>>]
    BY <1>2, <2>1 DEF Stepwise
  <2>3. long[i + 1] = op[<<long[i], t[i + 1]>>]
    BY <1>1, <1>3, <2>1 DEF Stepwise
  <2>4. short[i + 1] = long[i + 1]
    <3> HIDE DEF t
    <3> QED BY <1>1, <1>5, <2>1, <2>2, <2>3
  <2> QED BY <1>1, <2>4
<1>6. short[n] = long[n]
  <2>1. 0..n \subseteq Alike
    <3> HIDE DEF Alike
    <3> QED BY <1>1, <1>4, <1>5, AllUpTo
  <2> QED BY <1>1, <2>1
<1>7. long[n + 1] = op[<<long[n], e>>]
  <2>1. n + 1 \in 1..Len(t) /\ n + 1 - 1 = n
    BY <1>1
  <2> HIDE DEF t
  <2> QED BY <1>1, <1>3, <2>1, SMTT(30) DEF Stepwise
<1> QED BY <1>1, <1>2, <1>3, <1>6, <1>7 DEF Continues
-----------------------------------------------------------------------------
(* Sequences of sequences *)

\* A function on 1..n is a sequence.
LEMMA SeqOnInterval ==
  ASSUME NEW E, NEW n \in Nat, NEW f, f = [i \in 1..n |-> f[i]], \A i \in 1..n : f[i] \in E
  PROVE  f \in Seq(E) /\ Len(f) = n
<1>1. [i \in 1..n |-> f[i]] \in Seq(E) /\ Len([i \in 1..n |-> f[i]]) = n
  OBVIOUS
<1> QED BY <1>1

\* flat is the sequences ss[1], ..., ss[n] one after the other: ss[i] comes after
\* the first off[i] elements.
Parts(flat, ss, n, off) ==
  /\ \A i \in 1..n : \A m \in 1..Len(ss[i]) :
       off[i] + m \in 1..Len(flat) /\ flat[off[i] + m] = ss[i][m]
  /\ \A k \in 1..Len(flat) : \E i \in 1..n : k - off[i] \in 1..Len(ss[i])

Joined(flat, ss, n) == \E off \in [1..n -> Nat] : Parts(flat, ss, n, off)

LEMMA JoinOne ==
  ASSUME NEW E, NEW flat \in Seq(E), NEW ss, NEW n \in Nat, ss[n + 1] \in Seq(E),
         \A i \in 1..n : ss[i] \in Seq(E), Joined(flat, ss, n)
  PROVE  Joined(flat \o ss[n + 1], ss, n + 1)
<1> DEFINE s == ss[n + 1]
           long == flat \o s
<1>1. PICK off \in [1..n -> Nat] : Parts(flat, ss, n, off)
  BY DEF Joined
<1> DEFINE new == [i \in 1..(n + 1) |-> IF i = n + 1 THEN Len(flat) ELSE off[i]]
<1>2. /\ Len(flat) \in Nat /\ Len(s) \in Nat /\ Len(long) = Len(flat) + Len(s)
      /\ \A k \in 1..Len(flat) : long[k] = flat[k]
      /\ \A m \in 1..Len(s) : long[Len(flat) + m] = s[m]
  OBVIOUS
<1>3. new \in [1..(n + 1) -> Nat]
  BY <1>2
<1>4. new[n + 1] = Len(flat) /\ \A i \in 1..n : new[i] = off[i] /\ off[i] \in Nat
  OBVIOUS
<1> HIDE DEF long, new
<1>5. ASSUME NEW i \in 1..(n + 1), NEW m \in 1..Len(ss[i])
      PROVE  new[i] + m \in 1..Len(long) /\ long[new[i] + m] = ss[i][m]
  <2>1. CASE i = n + 1
    <3>1. m \in 1..Len(s) /\ ss[i][m] = s[m] /\ new[i] = Len(flat)
      BY <1>4, <1>5, <2>1
    <3> HIDE DEF s
    <3> QED BY <1>2, <3>1
  <2>2. CASE i \in 1..n
    <3>1. off[i] + m \in 1..Len(flat) /\ flat[off[i] + m] = ss[i][m]
      BY <1>1, <1>5, <2>2 DEF Parts
    <3> HIDE DEF s
    <3> QED BY <1>2, <1>4, <2>2, <3>1
  <2> QED BY <2>1, <2>2
<1>6. ASSUME NEW k \in 1..Len(long)
      PROVE  \E i \in 1..(n + 1) : k - new[i] \in 1..Len(ss[i])
  <2>1. CASE k \in 1..Len(flat)
    <3>1. PICK i \in 1..n : k - off[i] \in 1..Len(ss[i])
      BY <1>1, <2>1 DEF Parts
    <3>2. i \in 1..(n + 1) /\ new[i] = off[i]
      BY <1>4
    <3> QED BY <3>1, <3>2
  <2>2. CASE k > Len(flat)
    <3>1. k - new[n + 1] \in 1..Len(s)
      <4> HIDE DEF s
      <4> QED BY <1>2, <1>4, <2>2
    <3> QED BY <3>1
  <2> QED BY <1>2, <2>1, <2>2
<1>7. Parts(long, ss, n + 1, new)
  BY <1>5, <1>6 DEF Parts
<1> QED BY <1>3, <1>7 DEF Joined, long

\* h[i] joins the first i of them.
Chain(h, ss, k) == \A i \in 1..k : h[i] = IF i = 1 THEN ss[i] ELSE h[i - 1] \o ss[i]

Chained(ss, E, k) == \E h \in [1..k -> Seq(E)] : Chain(h, ss, k)

LEMMA ChainExists ==
  ASSUME NEW E, NEW ss \in Seq(Seq(E))
  PROVE  Chained(ss, E, Len(ss))
<1> DEFINE n == Len(ss)
           Done == { k \in 0..n : Chained(ss, E, k) }
<1>1. n \in Nat /\ \A i \in 1..n : ss[i] \in Seq(E)
  OBVIOUS
<1>2. 0 \in Done
  <2>1. [i \in 1..0 |-> <<>>] \in [1..0 -> Seq(E)] /\ Chain([i \in 1..0 |-> <<>>], ss, 0)
    BY DEF Chain
  <2>2. Chained(ss, E, 0)
    BY <2>1 DEF Chained
  <2> QED BY <1>1, <2>2
<1>3. ASSUME NEW k \in 0..(n - 1), k \in Done PROVE k + 1 \in Done
  <2>0. k \in Nat /\ k + 1 \in 1..n
    BY <1>1
  <2>1. PICK h \in [1..k -> Seq(E)] : Chain(h, ss, k)
    BY <1>3 DEF Chained
  <2> DEFINE more == IF k = 0 THEN ss[k + 1] ELSE h[k] \o ss[k + 1]
             f == [i \in 1..(k + 1) |-> IF i = k + 1 THEN more ELSE h[i]]
  <2>2. more \in Seq(E)
    <3>1. ss[k + 1] \in Seq(E)
      BY <1>1, <2>0
    <3>2. k # 0 => h[k] \in Seq(E)
      BY <2>0
    <3> QED BY <3>1, <3>2
  <2> HIDE DEF more
  <2>3. f \in [1..(k + 1) -> Seq(E)]
    BY <2>0, <2>2
  <2>4. f[k + 1] = more /\ \A i \in 1..k : f[i] = h[i]
    BY <2>0
  <2> HIDE DEF f
  <2>5. ASSUME NEW i \in 1..(k + 1) PROVE f[i] = IF i = 1 THEN ss[i] ELSE f[i - 1] \o ss[i]
    <3>1. CASE i = k + 1
      <4>1. k # 0 => f[k] = h[k]
        BY <2>0, <2>4
      <4>2. f[i] = IF k = 0 THEN ss[k + 1] ELSE f[k] \o ss[k + 1]
        BY <2>4, <3>1, <4>1 DEF more
      <4>3. k = 0 <=> i = 1
        BY <2>0, <3>1
      <4>4. i - 1 = k
        BY <2>0, <3>1
      <4> QED BY <3>1, <4>2, <4>3, <4>4
    <3>2. CASE i # k + 1
      <4>1. i \in 1..k /\ (i # 1 => i - 1 \in 1..k)
        BY <2>0, <3>2
      <4>2. h[i] = IF i = 1 THEN ss[i] ELSE h[i - 1] \o ss[i]
        BY <2>1, <4>1 DEF Chain
      <4> QED BY <2>4, <4>1, <4>2
    <3> QED BY <3>1, <3>2
  <2>6. Chain(f, ss, k + 1)
    BY <2>5 DEF Chain
  <2> QED BY <2>0, <2>3, <2>6 DEF Chained
<1>4. n \in Done
  <2>1. 0..n \subseteq Done
    <3> HIDE DEF Done
    <3> QED BY <1>1, <1>2, <1>3, AllUpTo
  <2> QED BY <1>1, <2>1
<1> QED BY <1>4

JoinedAt(g, ss, E, i) == g[i] \in Seq(E) /\ Joined(g[i], ss, i)

LEMMA ChainJoins ==
  ASSUME NEW E, NEW ss \in Seq(Seq(E)), Len(ss) # 0, NEW g, Chain(g, ss, Len(ss))
  PROVE  JoinedAt(g, ss, E, Len(ss))
<1> DEFINE n == Len(ss)
           Good == { k \in Nat : k < n => JoinedAt(g, ss, E, k + 1) }
<1>1. n \in Nat /\ \A i \in 1..n : ss[i] \in Seq(E)
  OBVIOUS
<1>2. JoinedAt(g, ss, E, 1)
  <2>1. g[1] = ss[1] /\ ss[1] \in Seq(E)
    BY <1>1 DEF Chain
  <2>2. Parts(<<>>, ss, 0, [i \in 1..0 |-> 0])
    BY DEF Parts
  <2>3. Joined(<<>>, ss, 0)
    BY <2>2 DEF Joined
  <2>4. Joined(<<>> \o ss[0 + 1], ss, 0 + 1)
    <3>1. <<>> \in Seq(E) /\ ss[0 + 1] \in Seq(E) /\ \A i \in 1..0 : ss[i] \in Seq(E)
      BY <2>1
    <3> QED BY <2>3, <3>1, JoinOne
  <2> QED BY <2>1, <2>4 DEF JoinedAt
<1>3. ASSUME NEW k \in Nat, k + 1 < n, JoinedAt(g, ss, E, k + 1)
      PROVE  JoinedAt(g, ss, E, k + 1 + 1)
  <2>1. k + 1 \in Nat /\ g[k + 1] \in Seq(E) /\ Joined(g[k + 1], ss, k + 1)
    BY <1>3 DEF JoinedAt
  <2>2. k + 1 + 1 \in 1..n /\ k + 1 + 1 # 1 /\ k + 1 + 1 - 1 = k + 1
    BY <1>1, <1>3
  <2>3. g[k + 1 + 1] = g[k + 1] \o ss[k + 1 + 1]
    <3>1. PICK m \in 1..n : m = k + 1 + 1
      BY <2>2
    <3>2. m # 1 /\ m - 1 = k + 1
      BY <2>2, <3>1
    <3>3. g[m] = IF m = 1 THEN ss[m] ELSE g[m - 1] \o ss[m]
      BY DEF Chain
    <3>4. g[m] = g[m - 1] \o ss[m]
      BY <3>2, <3>3
    <3> QED BY <3>1, <3>2, <3>4
  <2>4. ss[k + 1 + 1] \in Seq(E) /\ \A i \in 1..(k + 1) : ss[i] \in Seq(E)
    BY <1>1, <1>3, <2>2
  <2>5. Joined(g[k + 1] \o ss[k + 1 + 1], ss, k + 1 + 1)
    BY <2>1, <2>4, JoinOne
  <2>6. g[k + 1] \o ss[k + 1 + 1] \in Seq(E)
    BY <2>1, <2>4
  <2> QED BY <2>3, <2>5, <2>6 DEF JoinedAt
<1>4. Good = Nat
  <2>1. 0 \in Good
    BY <1>2
  <2>2. ASSUME NEW k \in Good PROVE k + 1 \in Good
    <3>1. k \in Nat /\ (k < n => JoinedAt(g, ss, E, k + 1))
      OBVIOUS
    <3>2. k + 1 < n => k < n
      BY <1>1, <3>1
    <3> QED BY <1>3, <3>1, <3>2
  <2>3. Good \in SUBSET Nat
    OBVIOUS
  <2> HIDE DEF Good
  <2> QED BY <2>1, <2>2, <2>3, AllNaturals
<1>5. n - 1 \in Nat /\ n - 1 < n /\ n - 1 + 1 = n
  BY <1>1
<1>6. n - 1 \in Good
  BY <1>4, <1>5
<1> QED BY <1>5, <1>6

\* Two chains agree as far as they go.
LEMMA ChainsAgree ==
  ASSUME NEW ss, NEW n \in Nat, NEW g, NEW h, Chain(g, ss, n), Chain(h, ss, n)
  PROVE  \A i \in 1..n : g[i] = h[i]
<1> DEFINE Good == { k \in 0..n : k # 0 => g[k] = h[k] }
<1>1. 0 \in Good
  OBVIOUS
<1>2. ASSUME NEW k \in 0..(n - 1), k \in Good PROVE k + 1 \in Good
  <2>1. PICK m \in 1..n : m = k + 1 /\ m - 1 = k
    OBVIOUS
  <2>2. /\ g[m] = IF m = 1 THEN ss[m] ELSE g[m - 1] \o ss[m]
        /\ h[m] = IF m = 1 THEN ss[m] ELSE h[m - 1] \o ss[m]
    BY DEF Chain
  <2>3. m # 1 => g[m - 1] = h[m - 1]
    BY <1>2, <2>1
  <2> QED BY <2>1, <2>2, <2>3
<1>3. 0..n \subseteq Good
  <2> HIDE DEF Good
  <2> QED BY <1>1, <1>2, AllUpTo
<1> QED BY <1>3

\* FlattenSeq is the end of its chain.
FlatChain(g, ss) == Chain(g, ss, Len(ss)) /\ FlattenSeq(ss) = g[Len(ss)]

LEMMA FlattenChain ==
  ASSUME NEW E, NEW ss \in Seq(Seq(E)), Len(ss) # 0
  PROVE  \E g : FlatChain(g, ss)
<1> DEFINE n == Len(ss)
           P(h) == h = [i \in 1..n |-> IF i = 1 THEN ss[i] ELSE h[i - 1] \o ss[i]]
           g == CHOOSE h : P(h)
<1>1. PICK h \in [1..n -> Seq(E)] : Chain(h, ss, n)
  BY ChainExists DEF Chained
<1>2. P(h)
  BY <1>1 DEF Chain
<1>3. P(g)
  <2> HIDE DEF P
  <2> QED BY <1>2, Zenon
<1>4. FlattenSeq(ss) = g[n]
  BY DEF FlattenSeq
<1>5. Chain(g, ss, n)
  <2> HIDE DEF g
  <2> QED BY <1>3 DEF Chain
<1> HIDE DEF g
<1> QED BY <1>4, <1>5 DEF FlatChain

\* FlattenSeq puts the sequences one after the other.
LEMMA FlattenJoins ==
  ASSUME NEW E, NEW ss \in Seq(Seq(E))
  PROVE  FlattenSeq(ss) \in Seq(E) /\ Joined(FlattenSeq(ss), ss, Len(ss))
<1> DEFINE n == Len(ss)
<1>1. CASE n = 0
  <2>1. FlattenSeq(ss) = ss /\ ss = <<>>
    BY <1>1 DEF FlattenSeq
  <2>2. [i \in 1..0 |-> 0] \in [1..0 -> Nat] /\ Parts(ss, ss, 0, [i \in 1..0 |-> 0])
    BY <2>1 DEF Parts
  <2>3. Joined(ss, ss, 0)
    BY <2>2 DEF Joined
  <2>4. ss \in Seq(E)
    BY <2>1
  <2> QED BY <1>1, <2>1, <2>3, <2>4
<1>2. CASE n # 0
  <2>1. PICK g : FlatChain(g, ss)
    BY <1>2, FlattenChain
  <2>2. JoinedAt(g, ss, E, n)
    BY <1>2, <2>1, ChainJoins DEF FlatChain
  <2> QED BY <2>1, <2>2 DEF JoinedAt, FlatChain
<1> QED BY <1>1, <1>2

\* One more sequence is flattened at the end.
LEMMA FlattenAppend ==
  ASSUME NEW E, NEW ss \in Seq(Seq(E)), NEW s \in Seq(E)
  PROVE  FlattenSeq(Append(ss, s)) = FlattenSeq(ss) \o s /\ FlattenSeq(ss) \in Seq(E)
<1> DEFINE n == Len(ss)
           tt == Append(ss, s)
<1>1. /\ tt \in Seq(Seq(E)) /\ Len(tt) = n + 1 /\ n \in Nat
      /\ tt[n + 1] = s /\ \A i \in 1..n : tt[i] = ss[i]
  OBVIOUS
<1> HIDE DEF tt
<1>2. PICK h : FlatChain(h, tt)
  <2>1. Len(tt) # 0
    BY <1>1
  <2> QED BY <1>1, <2>1, FlattenChain
<1>3. Chain(h, tt, n + 1) /\ FlattenSeq(tt) = h[n + 1]
  BY <1>1, <1>2 DEF FlatChain
<1>4. h[n + 1] = IF n + 1 = 1 THEN s ELSE h[n + 1 - 1] \o s
  <2>1. n + 1 \in 1..(n + 1)
    BY <1>1
  <2> QED BY <1>1, <1>3, <2>1 DEF Chain
<1>5. FlattenSeq(ss) \in Seq(E)
  BY FlattenJoins
<1>6. CASE n = 0
  <2>1. ss = <<>> /\ FlattenSeq(ss) = ss
    BY <1>6 DEF FlattenSeq
  <2> QED BY <1>3, <1>4, <1>5, <1>6, <2>1 DEF tt
<1>7. CASE n # 0
  <2>1. PICK g : FlatChain(g, ss)
    BY <1>7, FlattenChain
  <2>2. Chain(g, ss, n) /\ FlattenSeq(ss) = g[n]
    BY <2>1 DEF FlatChain
  <2>3. Chain(h, ss, n)
    <3> SUFFICES ASSUME NEW i \in 1..n
                 PROVE  h[i] = IF i = 1 THEN ss[i] ELSE h[i - 1] \o ss[i]
      BY DEF Chain
    <3>1. i \in 1..(n + 1) /\ tt[i] = ss[i]
      BY <1>1
    <3> QED BY <1>3, <3>1 DEF Chain
  <2>4. g[n] = h[n]
    <3>1. n \in 1..n
      BY <1>1, <1>7
    <3> QED BY <1>1, <2>2, <2>3, <3>1, ChainsAgree
  <2>5. n + 1 - 1 = n /\ n + 1 # 1
    BY <1>1, <1>7
  <2> QED BY <1>3, <1>4, <1>5, <2>2, <2>4, <2>5 DEF tt
<1> QED BY <1>6, <1>7
-----------------------------------------------------------------------------
(* Induction over sequences, and sums *)

\* A set of sequences that has the empty one and, with any of its members, whatever
\* is one element longer, has all of them.
Grows(S, E) == \A s \in Seq(E) : s \in S => \A e \in E : Append(s, e) \in S

LEMMA AllSequences ==
  ASSUME NEW E, NEW S, <<>> \in S, Grows(S, E)
  PROVE  Seq(E) \subseteq S
<1> SUFFICES ASSUME NEW s \in Seq(E) PROVE s \in S
  OBVIOUS
<1> DEFINE n == Len(s)
           Good == { k \in 0..n : SubSeq(s, 1, k) \in S }
<1>1. n \in Nat /\ SubSeq(s, 1, 0) = <<>> /\ SubSeq(s, 1, n) = s
  OBVIOUS
<1>2. 0 \in Good
  <2>1. SubSeq(s, 1, 0) \in S
    <3> HIDE DEF n
    <3> QED BY <1>1, Zenon
  <2>2. 0 \in 0..n
    BY <1>1
  <2> QED BY <2>1, <2>2
<1>3. ASSUME NEW k \in 0..(n - 1), k \in Good PROVE k + 1 \in Good
  <2>1. k + 1 \in 1..n /\ k + 1 \in 0..n /\ s[k + 1] \in E
    BY <1>1
  <2>2. SubSeq(s, 1, k) \in Seq(E) /\ SubSeq(s, 1, k) \in S
    BY <1>1, <1>3
  <2>3. Append(SubSeq(s, 1, k), s[k + 1]) = SubSeq(s, 1, k + 1)
    BY <2>1
  <2>4. Append(SubSeq(s, 1, k), s[k + 1]) \in S
    BY <2>1, <2>2 DEF Grows
  <2> QED BY <2>1, <2>3, <2>4
<1>4. 0..n \subseteq Good
  <2> HIDE DEF Good
  <2> QED BY <1>1, <1>2, <1>3, AllUpTo
<1>5. n \in Good
  BY <1>1, <1>4
<1> QED BY <1>1, <1>5

\* A set of numbers that has zero and the sums of its members has the sums of more.
LEMMA SumStaysIn ==
  ASSUME NEW S, IsFiniteSet(S), NEW Acc \in SUBSET Int, 0 \in Acc,
         \A x, y \in Acc : x + y \in Acc, NEW f, \A x \in S : f[x] \in Acc
  PROVE  SumOver(f, S) \in Acc
<1>0. SumsUp(f, S)
  <2>1. \A x \in S : f[x] \in Int
    OBVIOUS
  <2> QED BY <2>1, SumIsRun
<1>1. PICK run \in [SUBSET S -> Int] :
        SumRun(run, f, S) /\ \A T \in SUBSET S : SumOver(f, T) = run[T]
  BY <1>0 DEF SumsUp
<1>2. \A T \in SUBSET S : T # {} => OneOf(T) \in T /\ run[T] = f[OneOf(T)] + run[T \ {OneOf(T)}]
  BY <1>1 DEF SumRun, OneOf
<1>3. \A T \in SUBSET S : /\ Cardinality(T) \in Nat /\ (Cardinality(T) = 0 <=> T = {})
                          /\ \A x \in T : Cardinality(T \ {x}) = Cardinality(T) - 1
  BY FS_Subset, FS_CardinalityType, FS_EmptySet, FS_RemoveElement
<1> DEFINE Done == { n \in Nat : \A T \in SUBSET S : Cardinality(T) = n => run[T] \in Acc }
<1>4. 0 \in Done
  BY <1>1, <1>3 DEF SumRun
<1>5. ASSUME NEW n \in Done PROVE n + 1 \in Done
  <2> SUFFICES ASSUME NEW T \in SUBSET S, Cardinality(T) = n + 1 PROVE run[T] \in Acc
    OBVIOUS
  <2>1. T # {}
    BY <1>3
  <2>2. OneOf(T) \in T /\ OneOf(T) \in S /\ T \ {OneOf(T)} \in SUBSET S
    BY <1>2, <2>1
  <2>3. Cardinality(T \ {OneOf(T)}) = Cardinality(T) - 1
    BY <1>3, <2>2
  <2>4. Cardinality(T \ {OneOf(T)}) = n
    BY <2>3, n \in Nat
  <2>5. run[T \ {OneOf(T)}] \in Acc /\ f[OneOf(T)] \in Acc
    BY <2>2, <2>4
  <2>6. run[T] = f[OneOf(T)] + run[T \ {OneOf(T)}]
    BY <1>2, <2>1
  <2>7. f[OneOf(T)] + run[T \ {OneOf(T)}] \in Acc
    BY <2>5
  <2> QED BY <2>6, <2>7, Zenon
<1>6. Done = Nat
  <2>1. Done \in SUBSET Nat
    OBVIOUS
  <2> HIDE DEF Done
  <2> QED BY <1>4, <1>5, <2>1, AllNaturals
<1>7. run[S] \in Acc
  BY <1>3, <1>6
<1> QED BY <1>1, <1>7

\* A sum of naturals is one.
LEMMA SumOfNaturals ==
  ASSUME NEW S, IsFiniteSet(S), NEW f, \A x \in S : f[x] \in Nat
  PROVE  SumOver(f, S) \in Nat
<1>1. Nat \in SUBSET Int /\ 0 \in Nat /\ \A x, y \in Nat : x + y \in Nat
  OBVIOUS
<1> QED BY <1>1, SumStaysIn

\* A sum of zeros is zero.
LEMMA SumOfZeros ==
  ASSUME NEW S, IsFiniteSet(S), NEW f, \A x \in S : f[x] = 0
  PROVE  SumOver(f, S) = 0
<1>1. {0} \in SUBSET Int /\ 0 \in {0} /\ \A x, y \in {0} : x + y \in {0}
  OBVIOUS
<1>2. \A x \in S : f[x] \in {0}
  OBVIOUS
<1>3. SumOver(f, S) \in {0}
  BY <1>1, <1>2, SumStaysIn
<1> QED BY <1>3

\* Sums that differ in one summand differ by that much.
DiffersAt(a, b, e, d, S) == a[e] = b[e] + d /\ \A x \in S : x # e => a[x] = b[x]

LEMMA OneSummand ==
  ASSUME NEW S, IsFiniteSet(S), NEW a, NEW b, \A x \in S : a[x] \in Int /\ b[x] \in Int,
         NEW e \in S, NEW d \in Int, DiffersAt(a, b, e, d, S)
  PROVE  SumOver(a, S) = SumOver(b, S) + d
<1>1. /\ SumOver(a, S) = a[e] + SumOver(a, S \ {e}) /\ SumOver(a, S \ {e}) \in Int
      /\ SumOver(b, S) = b[e] + SumOver(b, S \ {e}) /\ SumOver(b, S \ {e}) \in Int
  BY SumTakeOut
<1>2. SumOver(a, S \ {e}) = SumOver(b, S \ {e})
  <2>1. IsFiniteSet(S \ {e})
    BY FS_Subset
  <2>2. \A x \in S \ {e} : a[x] \in Int /\ b[x] = a[x]
    BY DEF DiffersAt
  <2> QED BY <2>1, <2>2, SumSame
<1>3. a[e] = b[e] + d /\ a[e] \in Int /\ b[e] \in Int
  BY DEF DiffersAt
<1> QED BY <1>1, <1>2, <1>3
=============================================================================
