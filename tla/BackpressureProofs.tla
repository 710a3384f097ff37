-------------------------- MODULE BackpressureProofs --------------------------
(* How far the thresholds bound the load, for any number of queues, clients and *)
(* messages.                                                                   *)
EXTENDS Backpressure, FiniteSetTheorems, WellFoundedInduction, TLAPS

-----------------------------------------------------------------------------
(* Sums over finite sets *)

\* Induction over the subsets of a finite set: a set of them has a member with
\* no smaller one in it.
LEMMA SmallestMember ==
  ASSUME NEW S, IsFiniteSet(S), NEW F, F \subseteq SUBSET S, F # {}
  PROVE  \E A \in F : \A B \in SUBSET A : B # A => B \notin F
<1>1. F \subseteq FiniteSubsetsOf(S)
  BY FS_Subset DEF FiniteSubsetsOf
<1>2. \E A \in F : \A B \in F : ~(<<B, A>> \in StrictSubsetOrdering(S))
  <2>1. IsWellFoundedOn(StrictSubsetOrdering(S), FiniteSubsetsOf(S))
    BY FS_StrictSubsetOrderingWellFounded
  <2> QED BY <1>1, <2>1, WFMin
<1>3. \A A, B \in F : B \subseteq A /\ B # A => <<B, A>> \in StrictSubsetOrdering(S)
  BY DEF StrictSubsetOrdering
<1> QED BY <1>2, <1>3

\* Induction over the natural numbers, in the same form.
LEMMA LeastNat ==
  ASSUME NEW B, B \subseteq Nat, B # {}
  PROVE  \E m \in B : m = 0 \/ m - 1 \notin B
<1>1. PICK n \in B : TRUE
  OBVIOUS
<1> DEFINE D == {m \in B : m \in 0..n}
           F == {0..m : m \in D}
<1>2. \A A : A \in F <=> \E m \in D : A = 0..m
  OBVIOUS
<1>3. n \in D
  BY <1>1
<1>4. \A m \in D : m \in B /\ m \in Nat /\ m <= n
  BY <1>1
<1>5. \A m \in Nat : m \in B /\ m <= n => m \in D
  BY <1>1
<1>10. n \in Nat
  BY <1>1
<1> HIDE DEF F, D
<1>6. F \subseteq SUBSET (0..n)
  <2> SUFFICES ASSUME NEW m \in D PROVE 0..m \subseteq 0..n
    BY <1>2
  <2> QED BY <1>4, <1>10
<1>7. F # {}
  BY <1>2, <1>3
<1>8. PICK A \in F : \A C \in SUBSET A : C # A => C \notin F
  <2>1. IsFiniteSet(0..n)
    BY <1>10, FS_Interval
  <2> QED BY <2>1, <1>6, <1>7, SmallestMember
<1>9. PICK m \in D : A = 0..m
  BY <1>2
<1>11. ASSUME m # 0, m - 1 \in B PROVE FALSE
  <2>1. m \in Nat /\ m - 1 \in Nat /\ m - 1 <= n
    BY <1>4, <1>10, <1>11
  <2>2. 0..(m - 1) \in F
    BY <1>2, <1>5, <1>11, <2>1
  <2>3. 0..(m - 1) \in SUBSET A
    BY <1>9, <2>1
  <2>4. m \in A /\ m \notin 0..(m - 1)
    BY <1>9, <2>1
  <2> QED BY <1>8, <2>2, <2>3, <2>4
<1> QED BY <1>4, <1>11

Pick(s) == CHOOSE x \in s : TRUE

\* g is the sum of f over the subsets of S, taken element by element.
SumEq(f, S, g) == g = [s \in SUBSET S |-> IF s = {} THEN 0 ELSE f[Pick(s)] + g[s \ {Pick(s)}]]

\* The same for the subsets with at most n elements.
SumUpTo(f, S, g, n) ==
    \A s \in SUBSET S : Cardinality(s) <= n => g[s] = IF s = {} THEN 0 ELSE f[Pick(s)] + g[s \ {Pick(s)}]

LEMMA PickIn == \A s : s # {} => Pick(s) \in s
  BY DEF Pick

\* From the sums of small sets to those of sets with one element more.
LEMMA SumOneMore ==
  ASSUME NEW f, NEW S, IsFiniteSet(S), NEW n \in Nat, NEW g, SumUpTo(f, S, g, n)
  PROVE  \E h : DOMAIN h = SUBSET S /\ SumUpTo(f, S, h, n + 1)
<1> DEFINE h == [s \in SUBSET S |-> IF s = {} THEN 0 ELSE f[Pick(s)] + g[s \ {Pick(s)}]]
<1>1. \A s \in SUBSET S : h[s] = IF s = {} THEN 0 ELSE f[Pick(s)] + g[s \ {Pick(s)}]
  OBVIOUS
<1>2. DOMAIN h = SUBSET S
  OBVIOUS
<1> HIDE DEF h
<1>3. ASSUME NEW s \in SUBSET S, Cardinality(s) <= n + 1, s # {} PROVE h[s \ {Pick(s)}] = g[s \ {Pick(s)}]
  <2> DEFINE t == s \ {Pick(s)}
  <2>1. t \in SUBSET S /\ Pick(s) \in s
    BY <1>3, PickIn
  <2>2. IsFiniteSet(s)
    BY FS_Subset
  <2>3. Cardinality(t) = Cardinality(s) - 1 /\ Cardinality(s) \in Nat
    BY <2>1, <2>2, FS_RemoveElement, FS_CardinalityType
  <2>4. Cardinality(t) <= n
    BY <1>3, <2>3
  <2> QED BY <1>1, <2>1, <2>4 DEF SumUpTo
<1>4. SumUpTo(f, S, h, n + 1)
  BY <1>1, <1>3 DEF SumUpTo
<1> QED BY <1>2, <1>4

LEMMA SumSome ==
  ASSUME NEW f, NEW S, IsFiniteSet(S), NEW n \in Nat
  PROVE  \E g : DOMAIN g = SUBSET S /\ SumUpTo(f, S, g, n)
<1> DEFINE Good(m) == \E g : DOMAIN g = SUBSET S /\ SumUpTo(f, S, g, m)
           Bad == {m \in Nat : ~Good(m)}
<1>1. Good(0)
  <2> DEFINE g == [s \in SUBSET S |-> 0]
  <2>1. \A s \in SUBSET S : Cardinality(s) <= 0 => s = {}
    <3> SUFFICES ASSUME NEW s \in SUBSET S, Cardinality(s) <= 0 PROVE s = {}
      OBVIOUS
    <3>1. IsFiniteSet(s)
      BY FS_Subset
    <3>2. Cardinality(s) = 0
      BY <3>1, FS_CardinalityType
    <3> QED BY <3>1, <3>2, FS_EmptySet
  <2>2. DOMAIN g = SUBSET S /\ SumUpTo(f, S, g, 0)
    BY <2>1 DEF SumUpTo
  <2> QED BY <2>2
<1>2. \A m \in Nat : Good(m) => Good(m + 1)
  BY SumOneMore
<1> HIDE DEF Good
<1>3. ASSUME Bad # {} PROVE FALSE
  <2>1. PICK m \in Bad : m = 0 \/ m - 1 \notin Bad
    BY <1>3, LeastNat
  <2>2. m \in Nat /\ ~Good(m) /\ m # 0
    BY <1>1
  <2>3. m - 1 \in Nat /\ (m - 1) + 1 = m
    BY <2>2
  <2>4. Good(m - 1)
    BY <2>1, <2>2, <2>3
  <2> QED BY <1>2, <2>2, <2>3, <2>4
<1>4. Good(n)
  BY <1>3
<1> QED BY <1>4 DEF Good

\* The fold of the community modules is a sum in this sense.
LEMMA SumDefined ==
  ASSUME NEW f, NEW S, IsFiniteSet(S)
  PROVE  \E g : SumEq(f, S, g) /\ SumFunctionOnSet(f, S) = g[S]
<1>1. PICK g : DOMAIN g = SUBSET S /\ SumUpTo(f, S, g, Cardinality(S))
  BY FS_CardinalityType, SumSome
<1>2. \A s \in SUBSET S : g[s] = IF s = {} THEN 0 ELSE f[Pick(s)] + g[s \ {Pick(s)}]
  BY <1>1, FS_Subset DEF SumUpTo
<1>3. \E k : SumEq(f, S, k)
  <2> DEFINE h == [s \in SUBSET S |-> g[s]]
  <2>1. \A s \in SUBSET S : h[s] = IF s = {} THEN 0 ELSE f[Pick(s)] + h[s \ {Pick(s)}]
    BY <1>2
  <2>2. h = [s \in SUBSET S |-> IF s = {} THEN 0 ELSE f[Pick(s)] + h[s \ {Pick(s)}]]
    BY <2>1
  <2>3. SumEq(f, S, h)
    BY <2>2 DEF SumEq
  <2> QED BY <2>3
<1> DEFINE G == CHOOSE k : SumEq(f, S, k)
<1>4. SumEq(f, S, G)
  BY <1>3
<1>5. SumFunctionOnSet(f, S) = G[S]
  BY DEF SumEq, Pick, SumFunctionOnSet, FoldFunctionOnSet, MapThenFoldSet
<1> QED BY <1>4, <1>5

\* The sum of an empty set, and of one with a first element.
LEMMA SumEmpty == \A f : SumFunctionOnSet(f, {}) = 0
<1> SUFFICES ASSUME NEW f PROVE SumFunctionOnSet(f, {}) = 0
  OBVIOUS
<1>1. PICK g : SumEq(f, {}, g) /\ SumFunctionOnSet(f, {}) = g[{}]
  BY SumDefined, FS_EmptySet
<1>2. {} \in SUBSET {}
  OBVIOUS
<1> QED BY <1>1, <1>2 DEF SumEq

LEMMA SumValue ==
  ASSUME NEW f, NEW S, NEW g, SumEq(f, S, g), NEW s \in SUBSET S
  PROVE  g[s] = IF s = {} THEN 0 ELSE f[Pick(s)] + g[s \ {Pick(s)}]
<1> DEFINE e(t) == IF t = {} THEN 0 ELSE f[Pick(t)] + g[t \ {Pick(t)}]
<1>1. g = [t \in SUBSET S |-> e(t)]
  BY DEF SumEq
<1> HIDE DEF e
<1>2. g[s] = e(s)
  BY <1>1
<1> QED BY <1>2 DEF e

LEMMA SumUnfold ==
  ASSUME NEW f, NEW S, IsFiniteSet(S), S # {}
  PROVE  SumFunctionOnSet(f, S) = f[Pick(S)] + SumFunctionOnSet(f, S \ {Pick(S)})
<1> DEFINE T == S \ {Pick(S)}
<1>1. IsFiniteSet(T) /\ T \subseteq S
  BY FS_Subset
<1>2. PICK g : SumEq(f, S, g) /\ SumFunctionOnSet(f, S) = g[S]
  BY SumDefined
<1>3. PICK h : SumEq(f, T, h) /\ SumFunctionOnSet(f, T) = h[T]
  BY <1>1, SumDefined
<1> HIDE DEF T
<1> DEFINE Bad == {A \in SUBSET T : g[A] # h[A]}
<1>0. \A A : A \in Bad <=> A \in SUBSET T /\ g[A] # h[A]
  OBVIOUS
<1> HIDE DEF Bad
<1>4. ASSUME Bad # {} PROVE FALSE
  <2>1. PICK A \in Bad : \A B \in SUBSET A : B # A => B \notin Bad
    <3>1. Bad \subseteq SUBSET T
      BY <1>0
    <3> QED BY <1>1, <1>4, <3>1, SmallestMember
  <2>2. A \in SUBSET T /\ A \in SUBSET S /\ g[A] # h[A]
    BY <1>0, <1>1, <2>1
  <2>3. g[A] = IF A = {} THEN 0 ELSE f[Pick(A)] + g[A \ {Pick(A)}]
    BY <1>2, <2>2, SumValue
  <2>4. h[A] = IF A = {} THEN 0 ELSE f[Pick(A)] + h[A \ {Pick(A)}]
    BY <1>3, <2>2, SumValue
  <2>5. A # {}
    BY <2>2, <2>3, <2>4
  <2>6. A \ {Pick(A)} \in SUBSET A /\ A \ {Pick(A)} # A
    BY <2>5, PickIn
  <2>7. g[A \ {Pick(A)}] = h[A \ {Pick(A)}]
    BY <1>0, <2>1, <2>2, <2>6
  <2> QED BY <2>2, <2>3, <2>4, <2>5, <2>7
<1>5. g[T] = h[T]
  BY <1>0, <1>4
<1>6. g[S] = f[Pick(S)] + g[T]
  <2>1. S \in SUBSET S
    OBVIOUS
  <2> QED BY <1>2, <2>1, SumValue DEF T
<1>7. SumFunctionOnSet(f, S) = f[Pick(S)] + SumFunctionOnSet(f, T)
  BY <1>2, <1>3, <1>5, <1>6
<1> QED BY <1>7 DEF T

LEMMA SumNat ==
  ASSUME NEW S, IsFiniteSet(S), NEW f, \A x \in S : f[x] \in Nat
  PROVE  SumFunctionOnSet(f, S) \in Nat
<1> DEFINE Bad == {A \in SUBSET S : SumFunctionOnSet(f, A) \notin Nat}
<1>0. \A A : A \in Bad <=> A \in SUBSET S /\ SumFunctionOnSet(f, A) \notin Nat
  OBVIOUS
<1> HIDE DEF Bad
<1>1. ASSUME Bad # {} PROVE FALSE
  <2>1. PICK A \in Bad : \A B \in SUBSET A : B # A => B \notin Bad
    <3>1. Bad \subseteq SUBSET S
      BY <1>0
    <3> QED BY <1>1, <3>1, SmallestMember
  <2>2. A \in SUBSET S /\ SumFunctionOnSet(f, A) \notin Nat
    BY <1>0, <2>1
  <2>3. IsFiniteSet(A) /\ A # {}
    <3>1. SumFunctionOnSet(f, {}) \in Nat
      BY SumEmpty
    <3> QED BY <2>2, <3>1, FS_Subset
  <2>4. SumFunctionOnSet(f, A) = f[Pick(A)] + SumFunctionOnSet(f, A \ {Pick(A)})
    BY <2>3, SumUnfold
  <2>5. Pick(A) \in S /\ A \ {Pick(A)} \in SUBSET A /\ A \ {Pick(A)} # A
    BY <2>2, <2>3, PickIn
  <2>6. SumFunctionOnSet(f, A \ {Pick(A)}) \in Nat
    BY <1>0, <2>1, <2>2, <2>5
  <2> QED BY <2>2, <2>4, <2>5, <2>6
<1> QED BY <1>0, <1>1

\* Any element may be the first.
LEMMA SumTake ==
  ASSUME NEW S, IsFiniteSet(S), NEW f, \A x \in S : f[x] \in Nat, NEW x \in S
  PROVE  SumFunctionOnSet(f, S) = f[x] + SumFunctionOnSet(f, S \ {x})
<1> DEFINE Bad == {A \in SUBSET S : \E y \in A : SumFunctionOnSet(f, A) # f[y] + SumFunctionOnSet(f, A \ {y})}
<1>0. \A A : A \in Bad <=> A \in SUBSET S /\ \E y \in A : SumFunctionOnSet(f, A) # f[y] + SumFunctionOnSet(f, A \ {y})
  OBVIOUS
<1> HIDE DEF Bad
<1>1. ASSUME Bad # {} PROVE FALSE
  <2>1. PICK A \in Bad : \A B \in SUBSET A : B # A => B \notin Bad
    <3>1. Bad \subseteq SUBSET S
      BY <1>0
    <3> QED BY <1>1, <3>1, SmallestMember
  <2>2. A \in SUBSET S /\ \E y \in A : SumFunctionOnSet(f, A) # f[y] + SumFunctionOnSet(f, A \ {y})
    BY <1>0, <2>1
  <2>3. PICK y \in A : SumFunctionOnSet(f, A) # f[y] + SumFunctionOnSet(f, A \ {y})
    BY <2>2
  <2> DEFINE p == Pick(A)
  <2>4. p \in A /\ IsFiniteSet(A)
    BY <2>2, FS_Subset, PickIn
  <2>5. SumFunctionOnSet(f, A) = f[p] + SumFunctionOnSet(f, A \ {p})
    BY <2>4, SumUnfold
  <2> HIDE DEF p
  <2>6. p # y
    BY <2>3, <2>5
  <2>7. SumFunctionOnSet(f, A \ {p}) = f[y] + SumFunctionOnSet(f, (A \ {p}) \ {y})
    <3>1. A \ {p} \in SUBSET S /\ A \ {p} \in SUBSET A /\ A \ {p} # A /\ y \in A \ {p}
      BY <2>2, <2>4, <2>6
    <3>2. A \ {p} \notin Bad
      BY <2>1, <3>1
    <3> QED BY <1>0, <3>1, <3>2
  <2>8. SumFunctionOnSet(f, A \ {y}) = f[p] + SumFunctionOnSet(f, (A \ {y}) \ {p})
    <3>1. A \ {y} \in SUBSET S /\ A \ {y} \in SUBSET A /\ A \ {y} # A /\ p \in A \ {y}
      BY <2>2, <2>4, <2>6
    <3>2. A \ {y} \notin Bad
      BY <2>1, <3>1
    <3> QED BY <1>0, <3>1, <3>2
  <2>9. (A \ {y}) \ {p} = (A \ {p}) \ {y}
    OBVIOUS
  <2>10. f[p] \in Nat /\ f[y] \in Nat
    BY <2>2, <2>4
  <2>11. SumFunctionOnSet(f, (A \ {p}) \ {y}) \in Nat
    <3>1. (A \ {p}) \ {y} \subseteq S
      BY <2>2
    <3>2. IsFiniteSet((A \ {p}) \ {y}) /\ \A z \in (A \ {p}) \ {y} : f[z] \in Nat
      BY <3>1, FS_Subset
    <3> QED BY <3>2, SumNat
  <2> QED BY <2>3, <2>5, <2>7, <2>8, <2>9, <2>10, <2>11
<1> QED BY <1>0, <1>1

LEMMA SumPlus ==
  ASSUME NEW S, IsFiniteSet(S), NEW f, NEW h, NEW k,
         \A x \in S : f[x] \in Nat /\ h[x] \in Nat /\ k[x] = f[x] + h[x]
  PROVE  SumFunctionOnSet(k, S) = SumFunctionOnSet(f, S) + SumFunctionOnSet(h, S)
<1> DEFINE Holds(A) == SumFunctionOnSet(k, A) = SumFunctionOnSet(f, A) + SumFunctionOnSet(h, A)
           Bad == {A \in SUBSET S : ~Holds(A)}
<1>0. \A A : A \in Bad <=> A \in SUBSET S /\ ~Holds(A)
  OBVIOUS
<1> HIDE DEF Bad
<1>1. ASSUME Bad # {} PROVE FALSE
  <2>1. PICK A \in Bad : \A B \in SUBSET A : B # A => B \notin Bad
    <3>1. Bad \subseteq SUBSET S
      BY <1>0
    <3> QED BY <1>1, <3>1, SmallestMember
  <2>2. A \in SUBSET S /\ ~Holds(A)
    BY <1>0, <2>1
  <2>3. Holds({})
    BY SumEmpty
  <2>4. IsFiniteSet(A) /\ A # {}
    BY <2>2, <2>3, FS_Subset
  <2> DEFINE p == Pick(A)
             B == A \ {Pick(A)}
  <2>5. /\ SumFunctionOnSet(k, A) = k[p] + SumFunctionOnSet(k, B)
        /\ SumFunctionOnSet(f, A) = f[p] + SumFunctionOnSet(f, B)
        /\ SumFunctionOnSet(h, A) = h[p] + SumFunctionOnSet(h, B)
    BY <2>4, SumUnfold
  <2>6. p \in S /\ B \in SUBSET A /\ B # A
    BY <2>2, <2>4, PickIn
  <2> HIDE DEF p, B
  <2>7. Holds(B)
    BY <1>0, <2>1, <2>2, <2>6
  <2>8. SumFunctionOnSet(f, B) \in Nat /\ SumFunctionOnSet(h, B) \in Nat
    <3>1. IsFiniteSet(B) /\ \A x \in B : f[x] \in Nat /\ h[x] \in Nat
      BY <2>2, <2>4, <2>6, FS_Subset
    <3> QED BY <3>1, SumNat
  <2>9. f[p] \in Nat /\ h[p] \in Nat /\ k[p] = f[p] + h[p]
    BY <2>6
  <2>10. SumFunctionOnSet(k, B) \in Nat
    BY <2>7, <2>8
  <2> QED BY <2>2, <2>5, <2>7, <2>8, <2>9, <2>10
<1> QED BY <1>0, <1>1

LEMMA SumZero ==
  ASSUME NEW S, IsFiniteSet(S), NEW f, \A x \in S : f[x] = 0
  PROVE  SumFunctionOnSet(f, S) = 0
<1>1. SumFunctionOnSet(f, S) = SumFunctionOnSet(f, S) + SumFunctionOnSet(f, S)
  <2>1. \A x \in S : f[x] \in Nat /\ f[x] \in Nat /\ f[x] = f[x] + f[x]
    OBVIOUS
  <2> QED BY <2>1, SumPlus
<1>2. SumFunctionOnSet(f, S) \in Nat
  BY SumNat
<1>3. \A n \in Nat : n = n + n => n = 0
  OBVIOUS
<1> QED BY <1>1, <1>2, <1>3

LEMMA SumAgree ==
  ASSUME NEW S, IsFiniteSet(S), NEW f, NEW h, \A x \in S : f[x] \in Nat /\ h[x] = f[x]
  PROVE  SumFunctionOnSet(h, S) = SumFunctionOnSet(f, S)
<1> DEFINE z == [x \in S |-> 0]
<1>1. \A x \in S : f[x] \in Nat /\ z[x] \in Nat /\ h[x] = f[x] + z[x]
  OBVIOUS
<1>2. \A x \in S : z[x] = 0
  OBVIOUS
<1> HIDE DEF z
<1>3. SumFunctionOnSet(h, S) = SumFunctionOnSet(f, S) + SumFunctionOnSet(z, S)
  BY <1>1, SumPlus
<1>4. SumFunctionOnSet(z, S) = 0
  BY <1>2, SumZero
<1>5. SumFunctionOnSet(f, S) \in Nat
  BY SumNat
<1> QED BY <1>3, <1>4, <1>5

\* The sum of a function that is changed in one place.
LEMMA SumChange ==
  ASSUME NEW S, IsFiniteSet(S), NEW f, NEW h, NEW x \in S,
         \A y \in S : f[y] \in Nat /\ h[y] \in Nat,
         \A y \in S : y # x => h[y] = f[y]
  PROVE  SumFunctionOnSet(h, S) + f[x] = SumFunctionOnSet(f, S) + h[x]
<1> DEFINE T == S \ {x}
<1>1. IsFiniteSet(T) /\ \A y \in T : f[y] \in Nat /\ h[y] = f[y]
  BY FS_Subset
<1>2. SumFunctionOnSet(f, S) = f[x] + SumFunctionOnSet(f, T)
  BY SumTake
<1>3. SumFunctionOnSet(h, S) = h[x] + SumFunctionOnSet(h, T)
  BY SumTake
<1> HIDE DEF T
<1>4. SumFunctionOnSet(h, T) = SumFunctionOnSet(f, T)
  BY <1>1, SumAgree
<1>5. SumFunctionOnSet(f, T) \in Nat
  BY <1>1, SumNat
<1>6. f[x] \in Nat /\ h[x] \in Nat
  OBVIOUS
<1> QED BY <1>2, <1>3, <1>4, <1>5, <1>6

-----------------------------------------------------------------------------
(* What the depth and a running poll account for *)

\* The messages of a queue, waiting or with a worker.
Held == [q \in Queues |-> ready[q] + unacked[q]]

\* What is under way to any queue or in one of the queues of S.
Weight(S) == InFlight + SumFunctionOnSet(Held, S)

\* The queues before the k-th, and the others.
Read(k) == {QueueOrder[i] : i \in 1..(k - 1)}
Rest(k) == {QueueOrder[i] : i \in k..Len(QueueOrder)}

\* The depth in force, with what it cannot know of, accounts for everything.
DepthAccounts == Weight(Queues) <= depth + Prefetch * Len(QueueOrder) + blind + since

\* So does the running poll for the queues that it has read, up to the workers'
\* slots of those queues.
PollAccounts ==
    pos # 0 => Weight(Read(pos)) <= total + pollSince + pollBlind + Prefetch * (pos - 1)

\* A poll that has not ended has reached every queue so far.
NotYetBlind == pos <= Len(QueueOrder) => pollBlind = 0

Accounts == TypeOK /\ DepthAccounts /\ PollAccounts /\ NotYetBlind

\* The queues, read in order.
LEMMA OrderFacts ==
  /\ Len(QueueOrder) \in Nat
  /\ \A q : q \in Queues <=> \E i \in 1..Len(QueueOrder) : q = QueueOrder[i]
  /\ \A i, j \in 1..Len(QueueOrder) : QueueOrder[i] = QueueOrder[j] => i = j
<1>1. QueueOrder \in Seq(Queues)
  BY OrderAssumption
<1>2. DOMAIN QueueOrder = 1..Len(QueueOrder) /\ Len(QueueOrder) \in Nat
  BY <1>1
<1> QED BY <1>2, OrderAssumption DEF Queues, Range, IsInjective

LEMMA QueuesFinite == IsFiniteSet(Queues)
<1>1. QueueOrder \in Seq(Queues)
  BY OrderAssumption
<1>2. Len(QueueOrder) \in Nat /\ IsFiniteSet(1..Len(QueueOrder)) /\ QueueOrder \in [1..Len(QueueOrder) -> Queues]
  BY <1>1, FS_Interval
<1>3. QueueOrder \in Surjection(1..Len(QueueOrder), Queues)
  BY <1>2, OrderFacts DEF Surjection
<1> QED BY <1>2, <1>3, FS_Surjection

LEMMA PublishersFinite == IsFiniteSet(Publishers)
  BY ClientsAssumption, FS_AddElement DEF Publishers

LEMMA ReadSteps ==
  /\ Read(1) = {} /\ Read(Len(QueueOrder) + 1) = Queues /\ Rest(Len(QueueOrder) + 1) = {}
  /\ \A k \in 1..(Len(QueueOrder) + 1) : Read(k) \subseteq Queues /\ Rest(k) \subseteq Queues
  /\ \A k \in 1..Len(QueueOrder) :
        /\ QueueOrder[k] \in Read(k + 1) /\ Read(k + 1) \ {QueueOrder[k]} = Read(k)
        /\ QueueOrder[k] \in Rest(k) /\ Rest(k) \ {QueueOrder[k]} = Rest(k + 1)
<1> DEFINE L == Len(QueueOrder)
<1>1. L \in Nat
  BY OrderFacts
<1>2. \A q : q \in Queues <=> \E i \in 1..L : q = QueueOrder[i]
  BY OrderFacts
<1>3. \A i, j \in 1..L : QueueOrder[i] = QueueOrder[j] => i = j
  BY OrderFacts
<1>4. \A k, q : q \in Read(k) <=> \E i \in 1..(k - 1) : q = QueueOrder[i]
  BY DEF Read
<1>5. \A k, q : q \in Rest(k) <=> \E i \in k..L : q = QueueOrder[i]
  BY DEF Rest
<1> HIDE DEF L
<1>6. Read(1) = {} /\ Rest(L + 1) = {}
  BY <1>1, <1>4, <1>5
<1>7. (L + 1) - 1 = L
  BY <1>1
<1>8. Read(L + 1) = Queues
  BY <1>2, <1>4, <1>7
<1>9. ASSUME NEW k \in 1..(L + 1) PROVE Read(k) \subseteq Queues /\ Rest(k) \subseteq Queues
  <2>1. \A i \in 1..(k - 1) : i \in 1..L
    BY <1>1
  <2>2. \A i \in k..L : i \in 1..L
    BY <1>1
  <2> QED BY <1>2, <1>4, <1>5, <2>1, <2>2
<1>10. ASSUME NEW k \in 1..L
       PROVE  QueueOrder[k] \in Read(k + 1) /\ Read(k + 1) \ {QueueOrder[k]} = Read(k)
  <2>1. k \in Nat /\ (k + 1) - 1 = k /\ k \in 1..k
    BY <1>1
  <2>2. \A i \in 1..k : i \in 1..L
    BY <1>1
  <2>3. \A i : i \in 1..(k - 1) <=> i \in 1..k /\ i # k
    BY <2>1
  <2>4. \A q : q \in Read(k + 1) <=> \E i \in 1..k : q = QueueOrder[i]
    BY <1>4, <2>1
  <2>5. QueueOrder[k] \in Read(k + 1)
    BY <2>1, <2>4
  <2>6. \A q : q \in Read(k + 1) /\ q # QueueOrder[k] <=> q \in Read(k)
    BY <1>3, <1>4, <2>1, <2>2, <2>3, <2>4
  <2> QED BY <2>5, <2>6
<1>11. ASSUME NEW k \in 1..L
       PROVE  QueueOrder[k] \in Rest(k) /\ Rest(k) \ {QueueOrder[k]} = Rest(k + 1)
  <2>1. k \in Nat /\ k \in k..L
    BY <1>1
  <2>2. \A i \in k..L : i \in 1..L
    BY <1>1
  <2>3. \A i : i \in (k + 1)..L <=> i \in k..L /\ i # k
    BY <1>1, <2>1
  <2>5. QueueOrder[k] \in Rest(k)
    BY <1>5, <2>1
  <2>6. \A q : q \in Rest(k) /\ q # QueueOrder[k] <=> q \in Rest(k + 1)
    BY <1>3, <1>5, <2>1, <2>2, <2>3
  <2> QED BY <2>5, <2>6
<1> QED BY <1>6, <1>8, <1>9, <1>10, <1>11 DEF L

-----------------------------------------------------------------------------
(* Type correctness *)

Todo == [Publishers -> [Queues -> Nat]]

\* InFlight for any value of todo.
Flight(td) == SumFunction([p \in Publishers |-> SumFunction(td[p])])

LEMMA SumQueues ==
  ASSUME NEW f \in [Queues -> Nat]
  PROVE  SumFunction(f) = SumFunctionOnSet(f, Queues) /\ SumFunction(f) \in Nat
<1>1. SumFunction(f) = SumFunctionOnSet(f, Queues)
  BY DEF SumFunction
<1>2. \A q \in Queues : f[q] \in Nat
  OBVIOUS
<1>3. SumFunctionOnSet(f, Queues) \in Nat
  BY <1>2, QueuesFinite, SumNat
<1> QED BY <1>1, <1>3

LEMMA FlightSum ==
  ASSUME NEW td \in Todo
  PROVE  LET s == [p \in Publishers |-> SumFunction(td[p])]
         IN  /\ \A p \in Publishers : s[p] \in Nat /\ s[p] = SumFunction(td[p])
             /\ Flight(td) = SumFunctionOnSet(s, Publishers)
             /\ Flight(td) \in Nat
<1> DEFINE s == [p \in Publishers |-> SumFunction(td[p])]
<1>1. \A p \in Publishers : td[p] \in [Queues -> Nat]
  BY DEF Todo
<1>2. \A p \in Publishers : s[p] = SumFunction(td[p])
  OBVIOUS
<1>3. \A p \in Publishers : SumFunction(td[p]) \in Nat
  BY <1>1, SumQueues
<1>4. Flight(td) = SumFunctionOnSet(s, Publishers)
  BY DEF Flight, SumFunction
<1> HIDE DEF s
<1>5. SumFunctionOnSet(s, Publishers) \in Nat
  BY <1>2, <1>3, PublishersFinite, SumNat
<1>6. /\ \A p \in Publishers : s[p] \in Nat /\ s[p] = SumFunction(td[p])
      /\ Flight(td) = SumFunctionOnSet(s, Publishers)
      /\ Flight(td) \in Nat
  BY <1>2, <1>3, <1>4, <1>5
<1> QED BY <1>6 DEF s

\* What one publisher stores or publishes.
LEMMA FlightChange ==
  ASSUME NEW td \in Todo, NEW te \in Todo, NEW p \in Publishers,
         \A r \in Publishers : r # p => te[r] = td[r]
  PROVE  Flight(te) + SumFunction(td[p]) = Flight(td) + SumFunction(te[p])
<1> DEFINE s == [r \in Publishers |-> SumFunction(td[r])]
           t == [r \in Publishers |-> SumFunction(te[r])]
<1>1. /\ \A r \in Publishers : s[r] \in Nat /\ s[r] = SumFunction(td[r])
      /\ Flight(td) = SumFunctionOnSet(s, Publishers)
  BY FlightSum
<1>2. /\ \A r \in Publishers : t[r] \in Nat /\ t[r] = SumFunction(te[r])
      /\ Flight(te) = SumFunctionOnSet(t, Publishers)
  BY FlightSum
<1> HIDE DEF s, t
<1>3. \A r \in Publishers : r # p => t[r] = s[r]
  BY <1>1, <1>2
<1>4. \A r \in Publishers : s[r] \in Nat /\ t[r] \in Nat
  BY <1>1, <1>2
<1>5. SumFunctionOnSet(t, Publishers) + s[p] = SumFunctionOnSet(s, Publishers) + t[p]
  BY <1>3, <1>4, PublishersFinite, SumChange
<1> QED BY <1>1, <1>2, <1>5

LEMMA NothingSum == Nothing \in [Queues -> Nat] /\ SumFunction(Nothing) = 0
<1>1. Nothing \in [Queues -> Nat] /\ \A q \in Queues : Nothing[q] = 0
  BY DEF Nothing
<1>2. SumFunctionOnSet(Nothing, Queues) = 0
  BY <1>1, QueuesFinite, SumZero
<1> QED BY <1>1, <1>2, SumQueues

\* One message.
LEMMA OneSum ==
  ASSUME NEW q \in Queues
  PROVE  [Nothing EXCEPT ![q] = 1] \in [Queues -> Nat] /\ SumFunction([Nothing EXCEPT ![q] = 1]) = 1
<1> DEFINE m == [Nothing EXCEPT ![q] = 1]
<1>1. m \in [Queues -> Nat] /\ m[q] = 1 /\ \A r \in Queues : r # q => m[r] = Nothing[r]
  BY DEF Nothing
<1>2. Nothing[q] = 0
  BY DEF Nothing
<1> HIDE DEF m
<1>3. \A r \in Queues : Nothing[r] \in Nat /\ m[r] \in Nat
  BY <1>1, NothingSum
<1>4. SumFunctionOnSet(m, Queues) + Nothing[q] = SumFunctionOnSet(Nothing, Queues) + m[q]
  BY <1>1, <1>3, QueuesFinite, SumChange
<1>5. SumFunction(m) = SumFunctionOnSet(m, Queues) /\ SumFunction(m) \in Nat
  BY <1>1, SumQueues
<1>6. SumFunctionOnSet(Nothing, Queues) = 0
  BY NothingSum, SumQueues
<1>7. SumFunction(m) = 1
  BY <1>1, <1>2, <1>4, <1>5, <1>6
<1> QED BY <1>1, <1>7 DEF m

\* One message less.
LEMMA OneLessSum ==
  ASSUME NEW f \in [Queues -> Nat], NEW q \in Queues, f[q] > 0
  PROVE  /\ [f EXCEPT ![q] = @ - 1] \in [Queues -> Nat]
         /\ SumFunction([f EXCEPT ![q] = @ - 1]) + 1 = SumFunction(f)
<1> DEFINE m == [f EXCEPT ![q] = @ - 1]
<1>1. m \in [Queues -> Nat] /\ m[q] = f[q] - 1 /\ \A r \in Queues : r # q => m[r] = f[r]
  OBVIOUS
<1> HIDE DEF m
<1>2. \A r \in Queues : f[r] \in Nat /\ m[r] \in Nat
  BY <1>1
<1>3. SumFunctionOnSet(m, Queues) + f[q] = SumFunctionOnSet(f, Queues) + m[q]
  BY <1>1, <1>2, QueuesFinite, SumChange
<1>4. SumFunction(m) = SumFunctionOnSet(m, Queues) /\ SumFunction(m) \in Nat
  BY <1>1, SumQueues
<1>5. SumFunction(f) = SumFunctionOnSet(f, Queues) /\ SumFunction(f) \in Nat
  BY SumQueues
<1>6. SumFunction(m) + 1 = SumFunction(f)
  BY <1>1, <1>2, <1>3, <1>4, <1>5
<1> QED BY <1>1, <1>6 DEF m

LEMMA TodoIn == TypeOK => todo \in Todo /\ InFlight \in Nat /\ InFlight = Flight(todo)
<1> SUFFICES ASSUME TypeOK PROVE todo \in Todo /\ InFlight \in Nat /\ InFlight = Flight(todo)
  OBVIOUS
<1>1. todo \in Todo
  BY DEF TypeOK, Todo
<1>2. InFlight = Flight(todo)
  BY DEF InFlight, Flight
<1>3. Flight(todo) \in Nat
  BY <1>1, FlightSum
<1> QED BY <1>1, <1>2, <1>3

\* A request, a batch or a poll of the scheduler arrives.
Arrive ==
    \/ \E c \in Clients, priority \in Priorities, q \in Queues : Create(c, priority, q)
    \/ \E c \in Clients, m \in Batches : CreateBatch(c, m)
    \/ \E m \in Batches : SchedPoll(m)

LEMMA Stores ==
  ASSUME Arrive
  PROVE  \E p \in Publishers, m \in [Queues -> Nat], k \in Nat : SumFunction(m) = k /\ Store(p, m, k)
<1>1. ASSUME NEW c \in Clients, NEW priority \in Priorities, NEW q \in Queues, Create(c, priority, q)
      PROVE  \E p \in Publishers, m \in [Queues -> Nat], k \in Nat : SumFunction(m) = k /\ Store(p, m, k)
  <2>1. Store(c, [Nothing EXCEPT ![q] = 1], 1)
    BY <1>1 DEF Create
  <2>2. c \in Publishers
    BY DEF Publishers
  <2> QED BY <2>1, <2>2, OneSum
<1>2. \A m \in Batches : m \in [Queues -> Nat] /\ SumFunction(m) \in Nat
  BY BoundsAssumption DEF Batches
<1>3. ASSUME NEW c \in Clients, NEW m \in Batches, CreateBatch(c, m)
      PROVE  \E p \in Publishers, n \in [Queues -> Nat], k \in Nat : SumFunction(n) = k /\ Store(p, n, k)
  <2>1. c \in Publishers /\ Store(c, m, SumFunction(m))
    BY <1>3 DEF CreateBatch, Publishers
  <2> QED BY <1>2, <2>1
<1>4. ASSUME NEW m \in Batches, SchedPoll(m)
      PROVE  \E p \in Publishers, n \in [Queues -> Nat], k \in Nat : SumFunction(n) = k /\ Store(p, n, k)
  <2>1. Scheduler \in Publishers /\ Store(Scheduler, m, SumFunction(m))
    BY <1>4 DEF SchedPoll, Publishers
  <2> QED BY <1>2, <2>1
<1> QED BY <1>1, <1>3, <1>4 DEF Arrive

LEMMA InitTyped == Init => TypeOK
<1> SUFFICES ASSUME Init PROVE TypeOK
  OBVIOUS
<1>1. Len(QueueOrder) \in Nat /\ Nothing \in [Queues -> Nat]
  BY OrderFacts, NothingSum
<1>2. Nothing \in [Queues -> 0..Prefetch]
  BY PrefetchAssumption DEF Nothing
<1> QED BY <1>1, <1>2, BoundsAssumption DEF Init, TypeOK

LEMMA StepTyped == TypeOK /\ [Next]_vars => TypeOK'
<1> SUFFICES ASSUME TypeOK, [Next]_vars PROVE TypeOK'
  OBVIOUS
<1>1. CASE Arrive
  <2>1. PICK p \in Publishers, m \in [Queues -> Nat], k \in Nat : SumFunction(m) = k /\ Store(p, m, k)
    BY <1>1, Stores
  <2>2. todo' \in [Publishers -> [Queues -> Nat]]
    BY <2>1 DEF Store, TypeOK
  <2>3. arrived' \in 0..MaxArrivals
    BY <2>1, BoundsAssumption DEF Store, TypeOK
  <2>4. checking' \subseteq Clients
    BY <1>1 DEF Arrive, Create, CreateBatch, SchedPoll, TypeOK
  <2> QED BY <2>1, <2>2, <2>3, <2>4 DEF Store, TypeOK
<1>2. ASSUME NEW p \in Publishers, NEW q \in Queues, Publish(p, q) \/ PublishError(p, q) PROVE TypeOK'
  <2>1. todo' = [todo EXCEPT ![p][q] = @ - 1] /\ todo[p][q] > 0
    BY <1>2 DEF Publish, PublishError
  <2>2. todo' \in [Publishers -> [Queues -> Nat]]
    BY <2>1 DEF TypeOK
  <2>3. ready' \in [Queues -> Nat]
    <3>1. ready \in [Queues -> Nat] /\ ready[q] + 1 \in Nat
      BY DEF TypeOK
    <3>2. ready' = ready \/ ready' = [ready EXCEPT ![q] = @ + 1]
      BY <1>2 DEF Publish, PublishError
    <3> QED BY <3>1, <3>2
  <2> QED BY <1>2, <2>2, <2>3 DEF Publish, PublishError, TypeOK, pollVars
<1>3. ASSUME NEW q \in Queues, Deliver(q) PROVE TypeOK'
  BY <1>3, PrefetchAssumption DEF Deliver, TypeOK, pollVars
<1>4. ASSUME NEW q \in Queues, Settle(q) PROVE TypeOK'
  BY <1>4, PrefetchAssumption DEF Settle, TypeOK, pollVars
<1>5. ASSUME NEW q \in Queues, Requeue(q) PROVE TypeOK'
  BY <1>5, PrefetchAssumption DEF Requeue, TypeOK, pollVars
<1>6. CASE ConnectionLost
  <2>1. \A q \in Queues : ready[q] + unacked[q] \in Nat
    BY PrefetchAssumption DEF TypeOK
  <2>2. ready' \in [Queues -> Nat]
    BY <1>6, <2>1 DEF ConnectionLost
  <2>3. unacked' \in [Queues -> 0..Prefetch]
    BY <1>6, PrefetchAssumption DEF ConnectionLost, Nothing
  <2>4. faults' \in 0..MaxFaults
    BY <1>6, BoundsAssumption DEF ConnectionLost, Fault, TypeOK
  <2> QED BY <1>6, <2>2, <2>3, <2>4 DEF ConnectionLost, TypeOK, pollVars
<1>7. CASE PollOpen
  <2>1. pollSince' \in Nat
    BY <1>7, TodoIn DEF PollOpen
  <2>2. pos' \in 0..(Len(QueueOrder) + 1)
    BY <1>7, OrderFacts DEF PollOpen
  <2> QED BY <1>7, <2>1, <2>2 DEF PollOpen, TypeOK, loadVars
<1>8. CASE PollRead
  <2>1. QueueOrder[pos] \in Queues /\ pos' \in 0..(Len(QueueOrder) + 1)
    BY <1>8, OrderFacts DEF PollRead, Reading
  <2>2. total' \in Nat
    BY <1>8, <2>1 DEF PollRead, Added, TypeOK
  <2> QED BY <1>8, <2>1, <2>2 DEF PollRead, TypeOK, loadVars
<1>9. CASE PollBreak
  <2>1. pos' \in 0..(Len(QueueOrder) + 1) /\ pos \in 1..(Len(QueueOrder) + 1)
    BY <1>9, OrderFacts DEF PollBreak, Reading
  <2>2. Unread \subseteq Queues
    BY <2>1, ReadSteps DEF Unread, Rest
  <2>3. IsFiniteSet(Unread) /\ \A q \in Unread : ready[q] \in Nat
    BY <2>2, QueuesFinite, FS_Subset DEF TypeOK
  <2>4. pollBlind' \in Nat
    BY <1>9, <2>3, SumNat DEF PollBreak
  <2>5. faults' \in 0..MaxFaults
    BY <1>9, BoundsAssumption DEF PollBreak, Fault, TypeOK
  <2> QED BY <1>9, <2>1, <2>4, <2>5 DEF PollBreak, TypeOK, loadVars
<1>10. CASE PollStore
  <2>1. 0 \in 0..(Len(QueueOrder) + 1)
    BY OrderFacts
  <2> QED BY <1>10, <2>1 DEF PollStore, TypeOK, loadVars
<1>11. CASE UNCHANGED vars
  BY <1>11 DEF vars, loadVars, pollVars, TypeOK
<1>12. ASSUME NEW c \in Clients, Insert(c) \/ InsertFails(c) PROVE TypeOK'
  <2>1. todo' \in [Publishers -> [Queues -> Nat]]
    BY <1>12, NothingSum DEF Insert, InsertFails, TypeOK
  <2>2. checking' \subseteq Clients
    BY <1>12 DEF Insert, InsertFails, TypeOK
  <2> QED BY <1>12, <2>1, <2>2 DEF Insert, InsertFails, TypeOK, pollVars
<1>13. CASE Restart
  <2>1. \A q \in Queues : ready[q] + unacked[q] \in Nat
    BY PrefetchAssumption DEF TypeOK
  <2>2. ready' \in [Queues -> Nat]
    BY <1>13, <2>1 DEF Restart
  <2>3. unacked' \in [Queues -> 0..Prefetch] /\ todo' \in [Publishers -> [Queues -> Nat]]
    BY <1>13, PrefetchAssumption DEF Restart, Nothing
  <2>4. faults' \in 0..MaxFaults
    BY <1>13, BoundsAssumption DEF Restart, Fault, TypeOK
  <2>5. blind' \in Nat
    BY <1>13, <2>2, SumQueues DEF Restart
  <2>6. 0 \in 0..(Len(QueueOrder) + 1)
    BY OrderFacts
  <2> QED BY <1>13, <2>2, <2>3, <2>4, <2>5, <2>6 DEF Restart, TypeOK
<1> QED BY <1>1, <1>2, <1>3, <1>4, <1>5, <1>6, <1>7, <1>8, <1>9, <1>10, <1>11, <1>12, <1>13
        DEF Next, Requests, Proceed, Broker, Poller, Arrive

\* Types hold in every state: no queue has more than Prefetch deliveries under way,
\* no publisher publishes what it has not stored, the poller stays in its loop.
THEOREM BackpressureTyped == Spec => []TypeOK
  BY InitTyped, StepTyped, PTL DEF Spec

-----------------------------------------------------------------------------
(* What the steps do to the weight *)

LEMMA HeldTyped ==
  TypeOK => \A q \in Queues : Held[q] \in Nat /\ ready[q] \in Nat /\ unacked[q] \in Nat
                              /\ unacked[q] <= Prefetch /\ Held[q] = ready[q] + unacked[q]
  BY PrefetchAssumption DEF TypeOK, Held

LEMMA HeldTypedNext ==
  ASSUME TypeOK'
  PROVE  \A q \in Queues : Held'[q] \in Nat /\ Held'[q] = ready'[q] + unacked'[q]
                           /\ ready'[q] \in Nat /\ unacked'[q] \in Nat
<1>1. ready' \in [Queues -> Nat] /\ unacked' \in [Queues -> 0..Prefetch]
  BY DEF TypeOK
<1>2. \A q \in Queues : ready'[q] \in Nat /\ unacked'[q] \in Nat
  BY <1>1, PrefetchAssumption
<1>3. \A q \in Queues : Held'[q] = ready'[q] + unacked'[q]
  BY DEF Held
<1> QED BY <1>2, <1>3

LEMMA HeldSum ==
  ASSUME TypeOK, NEW S \in SUBSET Queues
  PROVE  SumFunctionOnSet(Held, S) \in Nat
<1>1. IsFiniteSet(S) /\ \A q \in S : Held[q] \in Nat
  BY HeldTyped, QueuesFinite, FS_Subset
<1> QED BY <1>1, SumNat

LEMMA LoadIsWeight == TypeOK => Load = Weight(Queues) /\ Load \in Nat
<1> SUFFICES ASSUME TypeOK PROVE Load = Weight(Queues) /\ Load \in Nat
  OBVIOUS
<1>1. SumFunctionOnSet(Held, Queues) = SumFunctionOnSet(ready, Queues) + SumFunctionOnSet(unacked, Queues)
  BY HeldTyped, QueuesFinite, SumPlus
<1>2. ready \in [Queues -> Nat] /\ unacked \in [Queues -> Nat]
  BY PrefetchAssumption DEF TypeOK
<1>3. SumFunction(ready) = SumFunctionOnSet(ready, Queues) /\ SumFunction(ready) \in Nat
  BY <1>2, SumQueues
<1>4. SumFunction(unacked) = SumFunctionOnSet(unacked, Queues) /\ SumFunction(unacked) \in Nat
  BY <1>2, SumQueues
<1>5. InFlight \in Nat
  BY TodoIn
<1> QED BY <1>1, <1>3, <1>4, <1>5 DEF Load, Weight

LEMMA StoreWeight ==
  ASSUME TypeOK, TypeOK', NEW p \in Publishers, NEW m \in [Queues -> Nat], NEW k \in Nat,
         SumFunction(m) = k, Store(p, m, k), NEW S \in SUBSET Queues
  PROVE  Weight(S)' = Weight(S) + k
<1>1. todo \in Todo /\ InFlight \in Nat /\ InFlight = Flight(todo)
  BY TodoIn
<1>2. todo' \in Todo /\ InFlight' = Flight(todo')
  BY DEF TypeOK, Todo, InFlight, Flight
<1>3. todo[p] = Nothing /\ todo'[p] = m /\ \A r \in Publishers : r # p => todo'[r] = todo[r]
  BY <1>1 DEF Store, Todo
<1>4. Flight(todo') + SumFunction(Nothing) = Flight(todo) + SumFunction(m)
  BY <1>1, <1>2, <1>3, FlightChange
<1>5. Flight(todo') \in Nat
  BY <1>2, FlightSum
<1>6. InFlight' = InFlight + k
  BY <1>1, <1>2, <1>4, <1>5, NothingSum
<1>7. Held' = Held
  BY DEF Store, Held
<1>8. SumFunctionOnSet(Held, S) \in Nat
  BY HeldSum
<1>9. Weight(S)' = InFlight' + SumFunctionOnSet(Held', S)
  BY DEF Weight
<1> QED BY <1>1, <1>6, <1>7, <1>8, <1>9 DEF Weight

LEMMA SumGrows ==
  ASSUME NEW S, IsFiniteSet(S), NEW f, NEW h, NEW q, NEW d \in Nat,
         \A y \in S : f[y] \in Nat /\ h[y] \in Nat,
         \A y \in S : y # q => h[y] = f[y],
         q \in S => h[q] <= f[q] + d
  PROVE  SumFunctionOnSet(h, S) <= SumFunctionOnSet(f, S) + d
<1>1. SumFunctionOnSet(h, S) \in Nat /\ SumFunctionOnSet(f, S) \in Nat
  BY SumNat
<1>2. CASE q \in S
  <2>1. SumFunctionOnSet(h, S) + f[q] = SumFunctionOnSet(f, S) + h[q]
    BY <1>2, SumChange
  <2>2. f[q] \in Nat /\ h[q] \in Nat /\ h[q] <= f[q] + d
    BY <1>2
  <2>3. \A a, b, c, e \in Nat : a + c = b + e /\ e <= c + d => a <= b + d
    OBVIOUS
  <2> QED BY <1>1, <2>1, <2>2, <2>3
<1>3. CASE q \notin S
  <2>1. SumFunctionOnSet(h, S) = SumFunctionOnSet(f, S)
    BY <1>3, SumAgree
  <2> QED BY <1>1, <2>1
<1> QED BY <1>2, <1>3

LEMMA PublishedFlight ==
  ASSUME TypeOK, TypeOK', NEW p \in Publishers, NEW q \in Queues, Publish(p, q) \/ PublishError(p, q)
  PROVE  InFlight' \in Nat /\ InFlight' + 1 = InFlight
<1>1. todo \in Todo /\ InFlight \in Nat /\ InFlight = Flight(todo)
  BY TodoIn
<1>2. todo' \in Todo /\ InFlight' = Flight(todo')
  BY DEF TypeOK, Todo, InFlight, Flight
<1>3. todo' = [todo EXCEPT ![p][q] = @ - 1] /\ todo[p][q] > 0
  BY DEF Publish, PublishError
<1>4. todo[p] \in [Queues -> Nat] /\ todo'[p] = [todo[p] EXCEPT ![q] = @ - 1]
  BY <1>1, <1>3 DEF Todo
<1>5. \A r \in Publishers : r # p => todo'[r] = todo[r]
  BY <1>1, <1>3 DEF Todo
<1>6. SumFunction(todo'[p]) + 1 = SumFunction(todo[p])
  BY <1>3, <1>4, OneLessSum
<1>7. SumFunction(todo'[p]) \in Nat
  BY <1>2, SumQueues DEF Todo
<1>8. Flight(todo') + SumFunction(todo[p]) = Flight(todo) + SumFunction(todo'[p])
  BY <1>1, <1>2, <1>5, FlightChange
<1>9. Flight(todo') \in Nat
  BY <1>2, FlightSum
<1>10. \A a, b, c, e \in Nat : a + 1 = b /\ c + b = e + a => c + 1 = e
  OBVIOUS
<1>11. SumFunction(todo[p]) \in Nat
  BY <1>4, SumQueues
<1> QED BY <1>1, <1>2, <1>6, <1>7, <1>8, <1>9, <1>10, <1>11

\* Publishers, the broker and the workers move messages or let them go.
Move ==
    \/ \E p \in Publishers : Proceed(p)
    \/ Broker

\* A request that was let in ends without a notification to publish.
LEMMA ForgottenFlight ==
  ASSUME TypeOK, TypeOK', NEW c \in Clients, InsertFails(c)
  PROVE  InFlight' \in Nat /\ InFlight' <= InFlight
<1>1. todo \in Todo /\ InFlight \in Nat /\ InFlight = Flight(todo)
  BY TodoIn
<1>2. todo' \in Todo /\ InFlight' = Flight(todo')
  BY DEF TypeOK, Todo, InFlight, Flight
<1>3. c \in Publishers
  BY DEF Publishers
<1>4. todo'[c] = Nothing /\ \A r \in Publishers : r # c => todo'[r] = todo[r]
  BY <1>1, <1>3 DEF InsertFails, Todo
<1>5. Flight(todo') + SumFunction(todo[c]) = Flight(todo) + SumFunction(Nothing)
  BY <1>1, <1>2, <1>3, <1>4, FlightChange
<1>6. Flight(todo') \in Nat
  BY <1>2, FlightSum
<1>7. SumFunction(todo[c]) \in Nat
  BY <1>1, <1>3, SumQueues DEF Todo
<1>8. \A a, b, d \in Nat : a + b = d + 0 => a <= d
  OBVIOUS
<1> QED BY <1>1, <1>2, <1>5, <1>6, <1>7, <1>8, NothingSum

\* Nobody has anything to publish.
LEMMA NoFlight ==
  ASSUME NEW td \in Todo, \A p \in Publishers : td[p] = Nothing
  PROVE  Flight(td) = 0
<1> DEFINE s == [p \in Publishers |-> SumFunction(td[p])]
<1>1. \A p \in Publishers : s[p] = 0
  BY NothingSum
<1>2. Flight(td) = SumFunctionOnSet(s, Publishers)
  BY FlightSum
<1> HIDE DEF s
<1> QED BY <1>1, <1>2, PublishersFinite, SumZero

LEMMA MoveWeight ==
  ASSUME TypeOK, TypeOK', Move, NEW S \in SUBSET Queues
  PROVE  Weight(S)' <= Weight(S)
<1>1. InFlight \in Nat /\ SumFunctionOnSet(Held, S) \in Nat
  BY TodoIn, HeldSum
<1>2. IsFiniteSet(S) /\ \A q \in S : Held[q] \in Nat /\ q \in Queues
  BY HeldTyped, QueuesFinite, FS_Subset
<1>3. \A q \in Queues : Held'[q] \in Nat /\ Held'[q] = ready'[q] + unacked'[q]
                        /\ ready'[q] \in Nat /\ unacked'[q] \in Nat
  BY HeldTypedNext
<1>4. SumFunctionOnSet(Held', S) \in Nat
  BY <1>2, <1>3, SumNat
<1>5. Weight(S)' = InFlight' + SumFunctionOnSet(Held', S)
  BY DEF Weight
<1>6. \A q \in Queues : Held[q] = ready[q] + unacked[q] /\ ready[q] \in Nat /\ unacked[q] \in Nat
  BY HeldTyped
<1>7. ASSUME NEW p \in Publishers, NEW q \in Queues, Publish(p, q) PROVE Weight(S)' <= Weight(S)
  <2>1. InFlight' \in Nat /\ InFlight' + 1 = InFlight
    BY <1>7, PublishedFlight
  <2>2. ready'[q] = ready[q] + 1 /\ unacked' = unacked /\ \A r \in Queues : r # q => ready'[r] = ready[r]
    BY <1>7 DEF Publish, TypeOK
  <2>3. Held'[q] <= Held[q] + 1 /\ \A r \in Queues : r # q => Held'[r] = Held[r]
    BY <1>3, <1>6, <2>2
  <2>4. SumFunctionOnSet(Held', S) <= SumFunctionOnSet(Held, S) + 1
    BY <1>2, <1>3, <2>3, SumGrows
  <2>5. \A a, b, c, d \in Nat : a + 1 = d /\ b <= c + 1 => a + b <= d + c
    OBVIOUS
  <2> QED BY <1>1, <1>4, <1>5, <2>1, <2>4, <2>5 DEF Weight
<1>8. ASSUME NEW p \in Publishers, NEW q \in Queues, PublishError(p, q) PROVE Weight(S)' <= Weight(S)
  <2>1. InFlight' \in Nat /\ InFlight' + 1 = InFlight
    BY <1>8, PublishedFlight
  <2>2. Held' = Held
    BY <1>8 DEF PublishError, Held
  <2>3. \A a, b, d \in Nat : a + 1 = d => a + b <= d + b
    OBVIOUS
  <2> QED BY <1>1, <1>5, <2>1, <2>2, <2>3 DEF Weight
<1>9. ASSUME InFlight' = InFlight, Held' = Held PROVE Weight(S)' <= Weight(S)
  <2>1. Weight(S)' = Weight(S) /\ Weight(S) \in Nat
    BY <1>1, <1>5, <1>9 DEF Weight
  <2> QED BY <2>1
<1>10. ASSUME NEW q \in Queues, Deliver(q) \/ Requeue(q) PROVE Weight(S)' <= Weight(S)
  <2>1. InFlight' = InFlight
    BY <1>10 DEF Deliver, Requeue, InFlight
  <2>2. \A r \in Queues : r # q => ready'[r] = ready[r] /\ unacked'[r] = unacked[r]
    BY <1>10 DEF Deliver, Requeue, TypeOK
  <2>3. \/ ready'[q] = ready[q] - 1 /\ unacked'[q] = unacked[q] + 1
        \/ ready'[q] = ready[q] + 1 /\ unacked'[q] = unacked[q] - 1
    BY <1>10 DEF Deliver, Requeue, TypeOK
  <2>4. \A r \in Queues : ready'[r] + unacked'[r] = ready[r] + unacked[r]
    <3>1. \A a, b \in Nat : (a - 1) + (b + 1) = a + b /\ (a + 1) + (b - 1) = a + b
      OBVIOUS
    <3>2. ready'[q] + unacked'[q] = ready[q] + unacked[q]
      BY <1>6, <2>3, <3>1
    <3> QED BY <2>2, <3>2
  <2>5. Held' = Held
    BY <2>4 DEF Held
  <2> QED BY <1>9, <2>1, <2>5
<1>11. ASSUME NEW q \in Queues, Settle(q) PROVE Weight(S)' <= Weight(S)
  <2>1. InFlight' = InFlight /\ ready' = ready
    BY <1>11 DEF Settle, InFlight
  <2>2. unacked'[q] = unacked[q] - 1 /\ \A r \in Queues : r # q => unacked'[r] = unacked[r]
    BY <1>11 DEF Settle, TypeOK
  <2>3. Held'[q] <= Held[q] + 0 /\ \A r \in Queues : r # q => Held'[r] = Held[r]
    BY <1>3, <1>6, <2>1, <2>2
  <2>4. SumFunctionOnSet(Held', S) <= SumFunctionOnSet(Held, S) + 0
    BY <1>2, <1>3, <2>3, SumGrows
  <2>5. \A a, b, c \in Nat : b <= c + 0 => a + b <= a + c
    OBVIOUS
  <2> QED BY <1>1, <1>4, <1>5, <2>1, <2>4, <2>5 DEF Weight
<1>12. CASE ConnectionLost
  <2>1. InFlight' = InFlight
    BY <1>12 DEF ConnectionLost, InFlight
  <2>2. \A r \in Queues : ready'[r] = ready[r] + unacked[r] /\ unacked'[r] = 0
    BY <1>12 DEF ConnectionLost, Nothing
  <2>3. \A r \in Queues : ready'[r] + unacked'[r] = ready[r] + unacked[r]
    BY <1>6, <2>2
  <2>4. Held' = Held
    BY <2>3 DEF Held
  <2> QED BY <1>9, <2>1, <2>4
<1>13. ASSUME NEW c \in Clients, Insert(c) PROVE Weight(S)' <= Weight(S)
  <2>1. InFlight' = InFlight /\ Held' = Held
    BY <1>13 DEF Insert, InFlight, Held
  <2> QED BY <1>9, <2>1
<1>14. ASSUME NEW c \in Clients, InsertFails(c) PROVE Weight(S)' <= Weight(S)
  <2>1. InFlight' \in Nat /\ InFlight' <= InFlight
    BY <1>14, ForgottenFlight
  <2>2. Held' = Held
    BY <1>14 DEF InsertFails, Held
  <2>3. \A a, b, d \in Nat : a <= d => a + b <= d + b
    OBVIOUS
  <2> QED BY <1>1, <1>5, <2>1, <2>2, <2>3 DEF Weight
<1> QED BY <1>7, <1>8, <1>10, <1>11, <1>12, <1>13, <1>14 DEF Move, Proceed, Broker

LEMMA WeightNat ==
  ASSUME TypeOK, NEW S \in SUBSET Queues
  PROVE  Weight(S) \in Nat
  BY TodoIn, HeldSum DEF Weight

LEMMA TimesNext ==
  /\ \A k \in Nat : Prefetch * k \in Nat /\ Prefetch * (k + 1) = Prefetch * k + Prefetch
  /\ Prefetch * 0 = 0 /\ Prefetch \in Nat
  BY PrefetchAssumption

LEMMA ReadNext ==
  ASSUME TypeOK, NEW k \in 1..Len(QueueOrder)
  PROVE  /\ SumFunctionOnSet(Held, Read(k + 1)) = Held[QueueOrder[k]] + SumFunctionOnSet(Held, Read(k))
         /\ SumFunctionOnSet(ready, Rest(k)) = ready[QueueOrder[k]] + SumFunctionOnSet(ready, Rest(k + 1))
<1>1. k \in 1..(Len(QueueOrder) + 1) /\ k + 1 \in 1..(Len(QueueOrder) + 1)
  BY OrderFacts
<1>2. Read(k + 1) \subseteq Queues /\ Rest(k) \subseteq Queues
  BY <1>1, ReadSteps
<1>3. IsFiniteSet(Read(k + 1)) /\ IsFiniteSet(Rest(k))
  BY <1>2, QueuesFinite, FS_Subset
<1>4. \A q \in Read(k + 1) : Held[q] \in Nat
  BY <1>2, HeldTyped
<1>5. \A q \in Rest(k) : ready[q] \in Nat
  BY <1>2, HeldTyped
<1>6. QueueOrder[k] \in Read(k + 1) /\ Read(k + 1) \ {QueueOrder[k]} = Read(k)
  BY ReadSteps
<1>7. QueueOrder[k] \in Rest(k) /\ Rest(k) \ {QueueOrder[k]} = Rest(k + 1)
  BY ReadSteps
<1>8. SumFunctionOnSet(Held, Read(k + 1)) = Held[QueueOrder[k]] + SumFunctionOnSet(Held, Read(k))
  BY <1>3, <1>4, <1>6, SumTake
<1>9. SumFunctionOnSet(ready, Rest(k)) = ready[QueueOrder[k]] + SumFunctionOnSet(ready, Rest(k + 1))
  BY <1>3, <1>5, <1>7, SumTake
<1> QED BY <1>8, <1>9

LEMMA RestNat ==
  ASSUME TypeOK, NEW k \in 1..(Len(QueueOrder) + 1)
  PROVE  SumFunctionOnSet(Held, Read(k)) \in Nat /\ SumFunctionOnSet(ready, Rest(k)) \in Nat
<1>1. Read(k) \subseteq Queues /\ Rest(k) \subseteq Queues
  BY ReadSteps
<1>2. IsFiniteSet(Read(k)) /\ IsFiniteSet(Rest(k))
  BY <1>1, QueuesFinite, FS_Subset
<1>3. (\A q \in Read(k) : Held[q] \in Nat) /\ \A q \in Rest(k) : ready[q] \in Nat
  BY <1>1, HeldTyped
<1> QED BY <1>2, <1>3, SumNat

\* What a poll that stops before the k-th queue misses.
LEMMA Missed ==
  ASSUME TypeOK, NEW k \in 1..(Len(QueueOrder) + 1)
  PROVE  SumFunctionOnSet(Held, Queues) + Prefetch * (k - 1)
            <= SumFunctionOnSet(Held, Read(k)) + SumFunctionOnSet(ready, Rest(k)) + Prefetch * Len(QueueOrder)
<1> DEFINE L == Len(QueueOrder)
           W(j) == SumFunctionOnSet(Held, Read(j))
           V(j) == SumFunctionOnSet(ready, Rest(j))
           A == SumFunctionOnSet(Held, Queues)
           P(j) == Prefetch * j
           Holds(j) == A + P(j - 1) <= W(j) + V(j) + P(L)
           Bad == {n \in Nat : \E j \in 1..(L + 1) : j + n = L + 1 /\ ~Holds(j)}
<1>1. L \in Nat
  BY OrderFacts
<1>2. \A j \in 1..(L + 1) : W(j) \in Nat /\ V(j) \in Nat
  BY RestNat
<1>3. A \in Nat /\ W(L + 1) = A /\ V(L + 1) = 0
  <2>1. L + 1 \in 1..(L + 1)
    BY <1>1
  <2>2. Read(L + 1) = Queues /\ Rest(L + 1) = {}
    BY ReadSteps
  <2> QED BY <1>2, <2>1, <2>2, SumEmpty
<1>4. \A j \in Nat : P(j) \in Nat /\ P(j + 1) = P(j) + Prefetch
  BY TimesNext
<1>5. \A j \in 1..L : /\ Held[QueueOrder[j]] \in Nat /\ ready[QueueOrder[j]] \in Nat
                      /\ Held[QueueOrder[j]] <= ready[QueueOrder[j]] + Prefetch
                      /\ W(j + 1) = Held[QueueOrder[j]] + W(j)
                      /\ V(j) = ready[QueueOrder[j]] + V(j + 1)
  <2> SUFFICES ASSUME NEW j \in 1..L
               PROVE  /\ Held[QueueOrder[j]] \in Nat /\ ready[QueueOrder[j]] \in Nat
                      /\ Held[QueueOrder[j]] <= ready[QueueOrder[j]] + Prefetch
                      /\ W(j + 1) = Held[QueueOrder[j]] + W(j)
                      /\ V(j) = ready[QueueOrder[j]] + V(j + 1)
    OBVIOUS
  <2>1. QueueOrder[j] \in Queues
    BY OrderFacts
  <2>2. W(j + 1) = Held[QueueOrder[j]] + W(j) /\ V(j) = ready[QueueOrder[j]] + V(j + 1)
    BY ReadNext
  <2>3. Held[QueueOrder[j]] \in Nat /\ ready[QueueOrder[j]] \in Nat /\ unacked[QueueOrder[j]] \in Nat
        /\ unacked[QueueOrder[j]] <= Prefetch
        /\ Held[QueueOrder[j]] = ready[QueueOrder[j]] + unacked[QueueOrder[j]]
    BY <2>1, HeldTyped
  <2> HIDE DEF W, V
  <2>4. Held[QueueOrder[j]] <= ready[QueueOrder[j]] + Prefetch
    BY <2>3, TimesNext
  <2> QED BY <2>2, <2>3, <2>4
<1>6. \A n : n \in Bad <=> n \in Nat /\ \E j \in 1..(L + 1) : j + n = L + 1 /\ ~Holds(j)
  OBVIOUS
<1>7. \A j : Holds(j) <=> A + P(j - 1) <= W(j) + V(j) + P(L)
  OBVIOUS
<1> HIDE DEF L, W, V, A, P, Holds, Bad
<1>8. Holds(L + 1)
  <2>1. P(L) \in Nat
    BY <1>1, <1>4
  <2>2. (L + 1) - 1 = L
    BY <1>1
  <2>3. A + P(L) <= A + 0 + P(L)
    BY <1>3, <2>1
  <2> QED BY <1>3, <1>7, <2>2, <2>3
<1>9. ASSUME NEW j \in 1..L, Holds(j + 1) PROVE Holds(j)
  <2>1. j \in Nat /\ j - 1 \in Nat /\ (j + 1) - 1 = j /\ (j - 1) + 1 = j /\ j \in 1..(L + 1) /\ j + 1 \in 1..(L + 1)
    BY <1>1
  <2>2. A + P(j) <= W(j + 1) + V(j + 1) + P(L)
    BY <1>7, <1>9, <2>1
  <2>3. P(j) = P(j - 1) + Prefetch /\ P(j - 1) \in Nat /\ P(L) \in Nat
    BY <1>1, <1>4, <2>1
  <2>4. W(j) \in Nat /\ V(j) \in Nat /\ V(j + 1) \in Nat
    BY <1>2, <2>1
  <2>5. \A a, pj, w, v, v1, pl, h, r, f \in Nat :
           a + (pj + f) <= (h + w) + v1 + pl /\ v = r + v1 /\ h <= r + f => a + pj <= w + v + pl
    OBVIOUS
  <2>6. A + (P(j - 1) + Prefetch) <= (Held[QueueOrder[j]] + W(j)) + V(j + 1) + P(L)
    BY <1>5, <2>2, <2>3
  <2>7. /\ Held[QueueOrder[j]] \in Nat /\ ready[QueueOrder[j]] \in Nat /\ V(j) = ready[QueueOrder[j]] + V(j + 1)
        /\ Held[QueueOrder[j]] <= ready[QueueOrder[j]] + Prefetch
    BY <1>5
  <2>8. Prefetch \in Nat
    BY TimesNext
  <2>9. A + P(j - 1) <= W(j) + V(j) + P(L)
    BY ONLY <1>3, <2>3, <2>4, <2>5, <2>6, <2>7, <2>8
  <2> QED BY <1>7, <2>9
<1>10. ASSUME Bad # {} PROVE FALSE
  <2>1. PICK n \in Bad : n = 0 \/ n - 1 \notin Bad
    <3>1. Bad \subseteq Nat
      BY <1>6
    <3> QED BY <1>10, <3>1, LeastNat
  <2>2. n \in Nat
    BY <1>6
  <2>3. PICK j \in 1..(L + 1) : j + n = L + 1 /\ ~Holds(j)
    BY <1>6
  <2>4. n # 0
    BY <1>1, <1>8, <2>3
  <2>5. n - 1 \in Nat /\ j \in 1..L /\ j + 1 \in 1..(L + 1) /\ (j + 1) + (n - 1) = L + 1
    BY <1>1, <2>2, <2>3, <2>4
  <2>6. Holds(j + 1)
    BY <1>6, <2>1, <2>4, <2>5
  <2> QED BY <1>9, <2>3, <2>5, <2>6
<1>11. Holds(k)
  <2>1. k \in 1..(L + 1)
    BY DEF L
  <2>2. (L + 1) - k \in Nat /\ k + ((L + 1) - k) = L + 1
    BY <1>1, <2>1
  <2> QED BY <1>6, <1>10, <2>1, <2>2
<1> QED BY <1>11 DEF Holds, A, P, W, V, L

-----------------------------------------------------------------------------
(* The accounts *)

\* A poll that has reached its end, or was broken off, accounts for everything.
LEMMA PolledAll ==
  ASSUME TypeOK, PollAccounts, Done
  PROVE  Weight(Queues) <= total + Prefetch * Len(QueueOrder) + pollBlind + pollSince
<1>1. pos = Len(QueueOrder) + 1 /\ Len(QueueOrder) \in Nat
  BY OrderFacts DEF Done
<1>2. Read(pos) = Queues /\ pos # 0 /\ pos - 1 = Len(QueueOrder)
  BY <1>1, ReadSteps
<1>3. Weight(Queues) <= total + pollSince + pollBlind + Prefetch * Len(QueueOrder)
  BY <1>2 DEF PollAccounts
<1>4. Weight(Queues) \in Nat /\ Prefetch * Len(QueueOrder) \in Nat
  BY <1>1, WeightNat, TimesNext
<1>5. total \in Nat /\ pollSince \in Nat /\ pollBlind \in Nat
  BY DEF TypeOK
<1> QED BY <1>3, <1>4, <1>5

LEMMA WeightPrimed ==
  /\ \A S : Weight(S)' = InFlight' + SumFunctionOnSet(Held', S)
  /\ DepthAccounts' <=>
        InFlight' + SumFunctionOnSet(Held', Queues) <= depth' + Prefetch * Len(QueueOrder) + blind' + since'
  /\ PollAccounts' <=>
        (pos' # 0 => InFlight' + SumFunctionOnSet(Held', Read(pos'))
                        <= total' + pollSince' + pollBlind' + Prefetch * (pos' - 1))
  BY DEF Weight, DepthAccounts, PollAccounts

LEMMA ArriveAccounts ==
  ASSUME Accounts, TypeOK', Arrive
  PROVE  DepthAccounts' /\ PollAccounts' /\ NotYetBlind'
<1> USE DEF Accounts
<1>1. PICK p \in Publishers, m \in [Queues -> Nat], k \in Nat : SumFunction(m) = k /\ Store(p, m, k)
  BY Stores
<1>2. /\ depth' = depth /\ blind' = blind /\ since' = since + k /\ pos' = pos /\ total' = total
      /\ pollBlind' = pollBlind /\ (pos # 0 => pollSince' = pollSince + k)
  BY <1>1 DEF Store
<1>3. \A S \in SUBSET Queues : Weight(S)' = Weight(S) + k
  BY <1>1, StoreWeight
<1>4. depth \in Nat /\ blind \in Nat /\ since \in Nat /\ total \in Nat /\ pollSince \in Nat /\ pollBlind \in Nat
      /\ pos \in 0..(Len(QueueOrder) + 1)
  BY DEF TypeOK
<1>5. Len(QueueOrder) \in Nat /\ Prefetch * Len(QueueOrder) \in Nat
  BY OrderFacts, TimesNext
<1>6. DepthAccounts'
  <2>1. Weight(Queues) \in Nat /\ Weight(Queues)' = Weight(Queues) + k
    BY <1>3, WeightNat
  <2>2. Weight(Queues) <= depth + Prefetch * Len(QueueOrder) + blind + since
    BY DEF DepthAccounts
  <2>3. Weight(Queues) + k <= depth + Prefetch * Len(QueueOrder) + blind + (since + k)
    BY <1>4, <1>5, <2>1, <2>2
  <2> QED BY <1>2, <2>1, <2>3, WeightPrimed
<1>7. ASSUME pos # 0 PROVE PollAccounts'
  <2>1. PICK S : S = Read(pos)
    OBVIOUS
  <2>2. pos \in 1..(Len(QueueOrder) + 1) /\ pos - 1 \in Nat
    BY <1>4, <1>5, <1>7
  <2>3. S \in SUBSET Queues /\ Prefetch * (pos - 1) \in Nat
    BY <2>1, <2>2, ReadSteps, TimesNext
  <2>4. Weight(S) \in Nat /\ Weight(S)' = Weight(S) + k
    BY <1>3, <2>3, WeightNat
  <2>5. Weight(S) <= total + pollSince + pollBlind + Prefetch * (pos - 1)
    BY <1>7, <2>1 DEF PollAccounts
  <2>6. Weight(S) + k <= total + (pollSince + k) + pollBlind + Prefetch * (pos - 1)
    BY <1>4, <2>3, <2>4, <2>5
  <2>7. InFlight' + SumFunctionOnSet(Held', S) = Weight(S) + k
    BY <2>4, WeightPrimed
  <2>8. S = Read(pos')
    BY <1>2, <2>1
  <2>9. total' = total /\ pollBlind' = pollBlind /\ pollSince' = pollSince + k /\ pos' = pos
    BY <1>2, <1>7
  <2>10. InFlight' + SumFunctionOnSet(Held', Read(pos')) <= total' + pollSince' + pollBlind' + Prefetch * (pos' - 1)
    BY <2>6, <2>7, <2>8, <2>9
  <2> QED BY <2>10, WeightPrimed
<1>8. ASSUME pos = 0 PROVE PollAccounts'
  BY <1>2, <1>8, WeightPrimed
<1>9. NotYetBlind'
  BY <1>2 DEF NotYetBlind
<1> QED BY <1>6, <1>7, <1>8, <1>9

LEMMA MoveAccounts ==
  ASSUME Accounts, TypeOK', Move
  PROVE  DepthAccounts' /\ PollAccounts' /\ NotYetBlind'
<1> USE DEF Accounts
<1>1. /\ depth' = depth /\ blind' = blind /\ since' = since /\ pos' = pos /\ total' = total
      /\ pollBlind' = pollBlind /\ pollSince' = pollSince
  BY DEF Move, Proceed, Insert, InsertFails, Broker, Publish, PublishError, Deliver, Settle, Requeue,
         ConnectionLost, pollVars
<1>2. \A S \in SUBSET Queues : Weight(S)' <= Weight(S)
  BY MoveWeight
<1>3. depth \in Nat /\ blind \in Nat /\ since \in Nat /\ total \in Nat /\ pollSince \in Nat /\ pollBlind \in Nat
      /\ pos \in 0..(Len(QueueOrder) + 1)
  BY DEF TypeOK
<1>4. Len(QueueOrder) \in Nat /\ Prefetch * Len(QueueOrder) \in Nat
  BY OrderFacts, TimesNext
<1>5. \A S \in SUBSET Queues : Weight(S) \in Nat /\ Weight(S)' \in Nat
  <2> SUFFICES ASSUME NEW S \in SUBSET Queues PROVE Weight(S) \in Nat /\ Weight(S)' \in Nat
    OBVIOUS
  <2>1. IsFiniteSet(S) /\ \A q \in S : q \in Queues
    BY QueuesFinite, FS_Subset
  <2>2. \A q \in Queues : Held'[q] \in Nat
    BY HeldTypedNext
  <2>3. SumFunctionOnSet(Held', S) \in Nat
    BY <2>1, <2>2, SumNat
  <2>4. InFlight' \in Nat
    <3>1. todo' \in Todo /\ InFlight' = Flight(todo')
      BY DEF TypeOK, Todo, InFlight, Flight
    <3> QED BY <3>1, FlightSum
  <2>5. Weight(S)' \in Nat
    BY <2>3, <2>4, WeightPrimed
  <2> QED BY <2>5, WeightNat
<1>6. DepthAccounts'
  <2>1. Weight(Queues)' <= Weight(Queues) /\ Weight(Queues) \in Nat /\ Weight(Queues)' \in Nat
    BY <1>2, <1>5
  <2>2. Weight(Queues) <= depth + Prefetch * Len(QueueOrder) + blind + since
    BY DEF DepthAccounts
  <2>3. Weight(Queues)' <= depth + Prefetch * Len(QueueOrder) + blind + since
    BY <1>3, <1>4, <2>1, <2>2
  <2> QED BY <1>1, <2>3, WeightPrimed
<1>7. ASSUME pos # 0 PROVE PollAccounts'
  <2>1. PICK S : S = Read(pos)
    OBVIOUS
  <2>2. pos \in 1..(Len(QueueOrder) + 1) /\ pos - 1 \in Nat
    BY <1>3, <1>4, <1>7
  <2>3. S \in SUBSET Queues /\ Prefetch * (pos - 1) \in Nat
    BY <2>1, <2>2, ReadSteps, TimesNext
  <2>4. Weight(S) \in Nat /\ Weight(S)' \in Nat /\ Weight(S)' <= Weight(S)
    BY <1>2, <1>5, <2>3
  <2>5. Weight(S) <= total + pollSince + pollBlind + Prefetch * (pos - 1)
    BY <1>7, <2>1 DEF PollAccounts
  <2>6. Weight(S)' <= total + pollSince + pollBlind + Prefetch * (pos - 1)
    BY <1>3, <2>3, <2>4, <2>5
  <2>7. S = Read(pos')
    BY <1>1, <2>1
  <2> QED BY <1>1, <2>6, <2>7, WeightPrimed
<1>8. ASSUME pos = 0 PROVE PollAccounts'
  BY <1>1, <1>8, WeightPrimed
<1>9. NotYetBlind'
  BY <1>1 DEF NotYetBlind
<1> QED BY <1>6, <1>7, <1>8, <1>9

LEMMA PollerAccounts ==
  ASSUME Accounts, TypeOK', Poller
  PROVE  DepthAccounts' /\ PollAccounts' /\ NotYetBlind'
<1> USE DEF Accounts
<1> DEFINE L == Len(QueueOrder)
<1>1. InFlight' = InFlight /\ Held' = Held /\ \A S : Weight(S)' = Weight(S)
  <2>1. UNCHANGED loadVars
    BY DEF Poller, PollOpen, PollRead, PollBreak, PollStore
  <2>2. InFlight' = InFlight /\ Held' = Held
    BY <2>1 DEF loadVars, InFlight, Held
  <2> QED BY <2>2, WeightPrimed DEF Weight
<1>2. /\ depth \in Nat /\ blind \in Nat /\ since \in Nat /\ total \in Nat /\ pollSince \in Nat
      /\ pollBlind \in Nat /\ pos \in 0..(L + 1) /\ L \in Nat /\ InFlight \in Nat
  BY TodoIn, OrderFacts DEF TypeOK
<1>3. DepthAccounts' <=> Weight(Queues) <= depth' + Prefetch * L + blind' + since'
  BY <1>1, WeightPrimed DEF Weight
<1>4. PollAccounts' <=> (pos' # 0 => Weight(Read(pos')) <= total' + pollSince' + pollBlind' + Prefetch * (pos' - 1))
  BY <1>1, WeightPrimed DEF Weight
<1>5. ASSUME depth' = depth, blind' = blind, since' = since PROVE DepthAccounts'
  BY <1>3, <1>5 DEF DepthAccounts
<1>6. CASE PollOpen
  <2>1. /\ pos = 0 /\ pos' = 1 /\ total' = 0 /\ pollSince' = InFlight /\ pollBlind' = pollBlind
        /\ depth' = depth /\ blind' = blind /\ since' = since
    BY <1>6 DEF PollOpen
  <2>2. pollBlind = 0
    BY <1>2, <2>1 DEF NotYetBlind
  <2>3. Weight(Read(1)) = InFlight
    <3>1. SumFunctionOnSet(Held, Read(1)) = 0
      BY ReadSteps, SumEmpty
    <3>2. InFlight + 0 = InFlight
      BY <1>2
    <3> QED BY <3>1, <3>2 DEF Weight
  <2>4. 1 - 1 = 0 /\ InFlight <= 0 + InFlight + 0 + 0
    BY <1>2
  <2>5. PollAccounts'
    BY <1>4, <2>1, <2>2, <2>3, <2>4, TimesNext
  <2>6. NotYetBlind'
    BY <2>1, <2>2 DEF NotYetBlind
  <2> QED BY <1>5, <2>1, <2>5, <2>6
<1>7. ASSUME Reading
      PROVE  /\ pos \in 1..L /\ pos - 1 \in Nat /\ (pos - 1) + 1 = pos /\ (pos + 1) - 1 = pos /\ pos # 0
             /\ pos \in 1..(L + 1) /\ pollBlind = 0
             /\ Weight(Read(pos)) <= total + pollSince + 0 + Prefetch * (pos - 1)
             /\ Weight(Read(pos)) \in Nat /\ Prefetch * (pos - 1) \in Nat
             /\ Prefetch * pos = Prefetch * (pos - 1) + Prefetch
  <2>1. /\ pos \in 1..L /\ pos - 1 \in Nat /\ (pos - 1) + 1 = pos /\ (pos + 1) - 1 = pos /\ pos # 0
        /\ pos \in 1..(L + 1) /\ pos <= L
    BY <1>2, <1>7 DEF Reading
  <2>2. pollBlind = 0
    BY <2>1 DEF NotYetBlind
  <2>3. Weight(Read(pos)) <= total + pollSince + 0 + Prefetch * (pos - 1)
    BY <2>1, <2>2 DEF PollAccounts
  <2>4. Weight(Read(pos)) \in Nat
    BY <2>1, ReadSteps, WeightNat
  <2>5. Prefetch * (pos - 1) \in Nat /\ Prefetch * ((pos - 1) + 1) = Prefetch * (pos - 1) + Prefetch
    BY <2>1, TimesNext
  <2> QED BY <2>1, <2>2, <2>3, <2>4, <2>5
<1>8. CASE PollRead
  <2>1. /\ pos' = pos + 1 /\ total' = total + ready[QueueOrder[pos]] /\ pollSince' = pollSince
        /\ pollBlind' = pollBlind /\ depth' = depth /\ blind' = blind /\ since' = since /\ Reading
    BY <1>8 DEF PollRead, Added
  <2>2. QueueOrder[pos] \in Queues
    BY <1>7, <2>1, OrderFacts
  <2> DEFINE h == Held[QueueOrder[pos]]
             r == ready[QueueOrder[pos]]
             u == unacked[QueueOrder[pos]]
             s == SumFunctionOnSet(Held, Read(pos))
  <2>3. h \in Nat /\ r \in Nat /\ u \in Nat /\ u <= Prefetch /\ h = r + u
    BY <2>2, HeldTyped
  <2>4. Weight(Read(pos + 1)) = InFlight + (h + s) /\ Weight(Read(pos)) = InFlight + s
    BY <1>7, <2>1, ReadNext DEF Weight
  <2>5. s \in Nat
    BY <1>7, <2>1, RestNat
  <2> HIDE DEF h, u, s
  <2>6. InFlight + s <= total + pollSince + 0 + Prefetch * (pos - 1)
    BY <1>7, <2>1, <2>4
  <2>7. \A f, w, t, ps, pm, a, b, c \in Nat :
           f + w <= t + ps + 0 + pm /\ a <= c => f + ((b + a) + w) <= (t + b) + ps + 0 + (pm + c)
    OBVIOUS
  <2>8. InFlight + ((r + u) + s) <= (total + r) + pollSince + 0 + (Prefetch * (pos - 1) + Prefetch)
    BY <1>2, <1>7, <2>1, <2>3, <2>5, <2>6, <2>7, TimesNext
  <2>9. Weight(Read(pos + 1)) <= (total + r) + pollSince + 0 + Prefetch * pos
    BY <1>7, <2>1, <2>3, <2>4, <2>8
  <2>10. PollAccounts'
    BY <1>4, <1>7, <2>1, <2>9
  <2>11. NotYetBlind'
    BY <1>7, <2>1 DEF NotYetBlind
  <2> QED BY <1>5, <2>1, <2>10, <2>11
<1>9. CASE PollBreak
  <2>1. /\ pos' = L + 1 /\ total' = total /\ pollSince' = pollSince
        /\ pollBlind' = SumFunctionOnSet(ready, Rest(pos)) /\ depth' = depth /\ blind' = blind /\ since' = since
        /\ Reading
    BY <1>9 DEF PollBreak, Unread, Rest
  <2> DEFINE w == SumFunctionOnSet(Held, Queues)
             s == SumFunctionOnSet(Held, Read(pos))
             v == SumFunctionOnSet(ready, Rest(pos))
             a == Prefetch * (pos - 1)
             b == Prefetch * L
  <2>2. w + a <= s + v + b
    BY <1>7, <2>1, Missed
  <2>3. w \in Nat /\ s \in Nat /\ v \in Nat /\ a \in Nat /\ b \in Nat
    BY <1>2, <1>7, <2>1, HeldSum, RestNat, TimesNext
  <2>4. Weight(Queues) = InFlight + w /\ Weight(Read(pos)) = InFlight + s
    BY DEF Weight
  <2>5. InFlight + s <= total + pollSince + 0 + a
    BY <1>7, <2>1, <2>4
  <2>6. Read(L + 1) = Queues /\ (L + 1) - 1 = L /\ ~(L + 1 <= L)
    BY <1>2, ReadSteps
  <2> HIDE DEF w, s, a
  <2>7. \A i, x, y, z, c, d, t, ps \in Nat :
           x + c <= y + z + d /\ i + y <= t + ps + 0 + c => i + x <= t + ps + z + d
    OBVIOUS
  <2>8. InFlight + w <= total + pollSince + v + b
    BY <1>2, <2>2, <2>3, <2>5, <2>7
  <2>9. PollAccounts'
    BY <1>4, <2>1, <2>4, <2>6, <2>8
  <2>10. NotYetBlind'
    BY <2>1, <2>6 DEF NotYetBlind
  <2> QED BY <1>5, <2>1, <2>9, <2>10
<1>10. CASE PollStore
  <2>1. /\ Done /\ depth' = total /\ since' = pollSince /\ blind' = pollBlind /\ pos' = 0 /\ pollBlind' = 0
    BY <1>10 DEF PollStore
  <2>2. DepthAccounts'
    BY <1>3, <2>1, PolledAll
  <2>3. PollAccounts' /\ NotYetBlind'
    BY <1>4, <2>1 DEF NotYetBlind
  <2> QED BY <2>2, <2>3
<1> QED BY <1>6, <1>8, <1>9, <1>10 DEF Poller

\* What the new process finds in the queues is what its depth of 0 does not show.
LEMMA RestartAccounts ==
  ASSUME Accounts, TypeOK', Restart
  PROVE  DepthAccounts' /\ PollAccounts' /\ NotYetBlind'
<1>1. /\ depth' = 0 /\ since' = 0 /\ pos' = 0 /\ pollBlind' = 0 /\ blind' = SumFunction(ready')
      /\ todo' = [p \in Publishers |-> Nothing] /\ unacked' = Nothing
  BY DEF Restart
<1>2. InFlight' = 0
  <2>1. todo' \in Todo /\ InFlight' = Flight(todo')
    BY DEF TypeOK, Todo, InFlight, Flight
  <2>2. \A p \in Publishers : todo'[p] = Nothing
    BY <1>1
  <2> QED BY <2>1, <2>2, NoFlight
<1>3. ready' \in [Queues -> Nat]
  BY DEF TypeOK
<1>4. SumFunction(ready') = SumFunctionOnSet(ready', Queues) /\ SumFunction(ready') \in Nat
  BY <1>3, SumQueues
<1>5. SumFunctionOnSet(Held', Queues) = SumFunctionOnSet(ready', Queues)
  <2>1. \A q \in Queues : unacked'[q] = 0
    BY <1>1 DEF Nothing
  <2>2. \A q \in Queues : ready'[q] \in Nat /\ Held'[q] = ready'[q]
    BY <1>3, <2>1, HeldTypedNext
  <2> QED BY <2>2, QueuesFinite, SumAgree
<1>6. Prefetch * Len(QueueOrder) \in Nat
  BY OrderFacts, TimesNext
<1>7. \A b, k \in Nat : 0 + b <= 0 + k + b + 0
  OBVIOUS
<1>8. DepthAccounts'
  BY <1>1, <1>2, <1>4, <1>5, <1>6, <1>7, WeightPrimed
<1>9. PollAccounts' /\ NotYetBlind'
  BY <1>1, WeightPrimed DEF NotYetBlind
<1> QED BY <1>8, <1>9

\* At every moment the depth in force, the workers' slots, what arrived since the
\* poll behind it began and what that poll did not reach account for everything
\* under way, however publishers, workers, the poller and failures interleave, and
\* in a restarted process over whatever the queues hold.
THEOREM DepthAccountsForLoad == Spec => []Accounts
<1>1. Init => Accounts
  <2> SUFFICES ASSUME Init, TypeOK PROVE DepthAccounts /\ PollAccounts /\ NotYetBlind
    BY InitTyped DEF Accounts
  <2>1. PollAccounts /\ NotYetBlind
    BY DEF Init, PollAccounts, NotYetBlind
  <2>2. InFlight = 0
    BY TodoIn, NoFlight DEF Init
  <2>3. SumFunctionOnSet(Held, Queues) = 0
    <3>1. \A q \in Queues : Held[q] = 0
      BY DEF Init, Held, Nothing
    <3> QED BY <3>1, QueuesFinite, SumZero
  <2>4. Weight(Queues) = 0
    BY <2>2, <2>3 DEF Weight
  <2>5. Prefetch * Len(QueueOrder) \in Nat
    BY OrderFacts, TimesNext
  <2>6. 0 <= 0 + Prefetch * Len(QueueOrder) + 0 + 0
    BY <2>5
  <2> QED BY <2>1, <2>4, <2>6 DEF Init, DepthAccounts
<1>2. Accounts /\ TypeOK' /\ [Next]_vars => Accounts'
  <2> SUFFICES ASSUME Accounts, TypeOK', [Next]_vars PROVE DepthAccounts' /\ PollAccounts' /\ NotYetBlind'
    BY DEF Accounts
  <2>1. CASE UNCHANGED vars
    <3>1. UNCHANGED <<InFlight, Held, depth, blind, since, pos, total, pollSince, pollBlind>>
      BY <2>1 DEF vars, loadVars, pollVars, InFlight, Held
    <3>2. DepthAccounts' /\ PollAccounts'
      BY <3>1, WeightPrimed DEF Accounts, DepthAccounts, PollAccounts, Weight
    <3> QED BY <3>1, <3>2 DEF Accounts, NotYetBlind
  <2> QED BY <2>1, ArriveAccounts, MoveAccounts, PollerAccounts, RestartAccounts DEF Next, Requests, Arrive, Move
<1>3. TypeOK /\ [Next]_vars => TypeOK'
  BY StepTyped
<1>4. Accounts => TypeOK
  BY DEF Accounts
<1> QED BY <1>1, <1>2, <1>3, <1>4, PTL DEF Spec

\* However old and incomplete the depth is, and in a process that has just been
\* started, a request that passes checkBackpressure finds no more in the system
\* than its threshold, the workers' slots and what the depth could not know of.
THEOREM AdmissionIsBounded == Spec => AdmissionBound
<1>1. Accounts /\ TypeOK' /\ [Next]_vars =>
        [\A c \in Clients, priority \in Priorities, q \in Queues :
            Create(c, priority, q) =>
               Load' <= Threshold(priority) + Prefetch * Len(QueueOrder) + blind + since']_vars
  <2> SUFFICES ASSUME Accounts, TypeOK',
                      NEW c \in Clients, NEW priority \in Priorities, NEW q \in Queues,
                      Create(c, priority, q)
               PROVE  Load' <= Threshold(priority) + Prefetch * Len(QueueOrder) + blind + since'
    OBVIOUS
  <2>1. Arrive
    BY DEF Arrive
  <2>2. DepthAccounts'
    BY <2>1, ArriveAccounts
  <2>3. depth' = depth /\ blind' = blind /\ ~(depth > Threshold(priority))
    BY DEF Create, Store, checkBackpressure
  <2>4. Threshold(priority) \in Nat
    BY ThresholdAssumption DEF Threshold, Priorities
  <2>5. depth \in Nat /\ blind \in Nat /\ since' \in Nat
    BY DEF Accounts, TypeOK
  <2>6. Prefetch * Len(QueueOrder) \in Nat
    BY OrderFacts, TimesNext
  <2>7. (Load = Weight(Queues) /\ Load \in Nat)'
    BY LoadIsWeight, PTL
  <2>8. Load' \in Nat /\ Load' <= depth + Prefetch * Len(QueueOrder) + blind + since'
    BY <2>2, <2>3, <2>7 DEF DepthAccounts
  <2> QED BY <2>3, <2>4, <2>5, <2>6, <2>8
<1>2. Accounts => TypeOK
  BY DEF Accounts
<1> QED BY <1>1, <1>2, DepthAccountsForLoad, PTL DEF Spec, AdmissionBound
=============================================================================
