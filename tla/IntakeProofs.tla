----------------------------- MODULE IntakeProofs -----------------------------
(* What gets into the table of notifications, for any number of requests, any  *)
(* size of batch and any number of failures.                                   *)
EXTENDS Intake, SequenceTheorems, FiniteSetTheorems, WellFoundedInduction, TLAPS

-----------------------------------------------------------------------------
(* Texts *)

\* Induction over the subsets of a finite set: a set of them has a member with
\* no smaller one in it.
LEMMA SmallestMember ==
  ASSUME NEW S, IsFiniteSet(S), NEW F, F \subseteq SUBSET S, F # {}
  PROVE  \E A \in F : \A B \in SUBSET A : B # A => B \notin F
<1>1. F \subseteq FiniteSubsetsOf(S)
  BY FS_Subset DEF FiniteSubsetsOf
<1>2. \E A \in F : \A B \in F : ~(<<B, A>> \in StrictSubsetOrdering(S))
  <2>1. IsWellFoundedOn(StrictSubsetOrdering(S), FiniteSubsetsOf(S))
    BY FS_StrictSubsetOrderingWellFounded
  <2> QED BY <1>1, <2>1, WFMin
<1>3. \A A, B \in F : B \subseteq A /\ B # A => <<B, A>> \in StrictSubsetOrdering(S)
  BY DEF StrictSubsetOrdering
<1> QED BY <1>2, <1>3

\* Induction over the natural numbers, in the same form.
LEMMA LeastNat ==
  ASSUME NEW B, B \subseteq Nat, B # {}
  PROVE  \E m \in B : m = 0 \/ m - 1 \notin B
<1>1. PICK n \in B : TRUE
  OBVIOUS
<1> DEFINE D == {m \in B : m \in 0..n}
           F == {0..m : m \in D}
<1>2. \A A : A \in F <=> \E m \in D : A = 0..m
  OBVIOUS
<1>3. n \in D
  BY <1>1
<1>4. \A m \in D : m \in B /\ m \in Nat /\ m <= n
  BY <1>1
<1>5. \A m \in Nat : m \in B /\ m <= n => m \in D
  BY <1>1
<1>10. n \in Nat
  BY <1>1
<1> HIDE DEF F, D
<1>6. F \subseteq SUBSET (0..n)
  <2> SUFFICES ASSUME NEW m \in D PROVE 0..m \subseteq 0..n
    BY <1>2
  <2> QED BY <1>4, <1>10
<1>7. F # {}
  BY <1>2, <1>3
<1>8. PICK A \in F : \A C \in SUBSET A : C # A => C \notin F
  <2>1. IsFiniteSet(0..n)
    BY <1>10, FS_Interval
  <2> QED BY <2>1, <1>6, <1>7, SmallestMember
<1>9. PICK m \in D : A = 0..m
  BY <1>2
<1>11. ASSUME m # 0, m - 1 \in B PROVE FALSE
  <2>1. m \in Nat /\ m - 1 \in Nat /\ m - 1 <= n
    BY <1>4, <1>10, <1>11
  <2>2. 0..(m - 1) \in F
    BY <1>2, <1>5, <1>11, <2>1
  <2>3. 0..(m - 1) \in SUBSET A
    BY <1>9, <2>1
  <2>4. m \in A /\ m \notin 0..(m - 1)
    BY <1>9, <2>1
  <2> QED BY <1>8, <2>2, <2>3, <2>4
<1> QED BY <1>4, <1>11


\* g is the concatenation of the first i members of s, for each i.
IsFlat(s, g) == g = [i \in 1..Len(s) |-> IF i = 1 THEN s[i] ELSE g[i - 1] \o s[i]]

\* The same for the first n.
FlatUpTo(T, s, g, n) ==
    /\ g \in [1..n -> Seq(T)]
    /\ \A i \in 1..n : g[i] = IF i = 1 THEN s[i] ELSE g[i - 1] \o s[i]

LEMMA FlatOneMore ==
  ASSUME NEW T, NEW s \in Seq(Seq(T)), NEW n \in Nat, n + 1 <= Len(s), NEW g, FlatUpTo(T, s, g, n)
  PROVE  \E h : FlatUpTo(T, s, h, n + 1)
<1> DEFINE x == IF n = 0 THEN s[1] ELSE g[n] \o s[n + 1]
           h == [i \in 1..(n + 1) |-> IF i = n + 1 THEN x ELSE g[i]]
<1>1. s[n + 1] \in Seq(T)
  OBVIOUS
<1>2. x \in Seq(T)
  <2>1. CASE n = 0
    BY <1>1, <2>1
  <2>2. CASE n # 0
    <3>1. g[n] \in Seq(T)
      BY <2>2 DEF FlatUpTo
    <3> QED BY <1>1, <2>2, <3>1
  <2> QED BY <2>1, <2>2
<1> HIDE DEF x
<1>3. h[n + 1] = x /\ \A i \in 1..n : h[i] = g[i]
  <2>1. n + 1 \in 1..(n + 1) /\ \A i \in 1..n : i \in 1..(n + 1) /\ i # n + 1
    OBVIOUS
  <2> QED BY <2>1
<1>4. h \in [1..(n + 1) -> Seq(T)]
  BY <1>2 DEF FlatUpTo
<1> HIDE DEF h
<1>5. ASSUME NEW i \in 1..(n + 1) PROVE h[i] = IF i = 1 THEN s[i] ELSE h[i - 1] \o s[i]
  <2>1. CASE i = n + 1
    <3>1. CASE n = 0
      BY <1>3, <2>1, <3>1 DEF x
    <3>2. CASE n # 0
      <4>1. i # 1 /\ i - 1 = n /\ n \in 1..n
        BY <2>1, <3>2
      <4>2. h[n] = g[n]
        BY <1>3, <4>1
      <4> QED BY <1>3, <2>1, <3>2, <4>1, <4>2 DEF x
    <3> QED BY <3>1, <3>2
  <2>2. CASE i # n + 1
    <3>1. i \in 1..n /\ (i # 1 => i - 1 \in 1..n)
      BY <2>2
    <3>2. g[i] = IF i = 1 THEN s[i] ELSE g[i - 1] \o s[i]
      BY <3>1 DEF FlatUpTo
    <3> QED BY <1>3, <3>1, <3>2
  <2> QED BY <2>1, <2>2
<1> QED BY <1>4, <1>5 DEF FlatUpTo

LEMMA FlatSome ==
  ASSUME NEW T, NEW s \in Seq(Seq(T))
  PROVE  \E g : FlatUpTo(T, s, g, Len(s))
<1> DEFINE Good(n) == \E g : FlatUpTo(T, s, g, n)
           Bad == {n \in Nat : n <= Len(s) /\ ~Good(n)}
<1>1. Good(0)
  <2> DEFINE g == [i \in 1..0 |-> <<>>]
  <2>1. FlatUpTo(T, s, g, 0)
    BY DEF FlatUpTo
  <2> QED BY <2>1
<1>2. \A n \in Nat : n + 1 <= Len(s) /\ Good(n) => Good(n + 1)
  BY FlatOneMore
<1>3. Len(s) \in Nat
  OBVIOUS
<1> HIDE DEF Good
<1>4. ASSUME Bad # {} PROVE FALSE
  <2>1. PICK n \in Bad : n = 0 \/ n - 1 \notin Bad
    BY <1>4, LeastNat
  <2>2. n \in Nat /\ n <= Len(s) /\ ~Good(n) /\ n # 0
    BY <1>1
  <2>3. n - 1 \in Nat /\ (n - 1) + 1 = n /\ n - 1 <= Len(s)
    BY <1>3, <2>2
  <2>4. Good(n - 1)
    BY <2>1, <2>2, <2>3
  <2> QED BY <1>2, <2>2, <2>3, <2>4
<1>5. Good(Len(s))
  BY <1>3, <1>4
<1> QED BY <1>5 DEF Good

\* FlattenSeq is such a concatenation.
LEMMA FlattenDefined ==
  ASSUME NEW T, NEW s \in Seq(Seq(T)), s # <<>>
  PROVE  \E g : FlatUpTo(T, s, g, Len(s)) /\ FlattenSeq(s) = g[Len(s)]
<1> DEFINE n == Len(s)
<1>1. n \in Nat /\ n # 0
  OBVIOUS
<1>2. PICK f : FlatUpTo(T, s, f, n)
  BY FlatSome
<1>3. f = [i \in 1..n |-> IF i = 1 THEN s[i] ELSE f[i - 1] \o s[i]]
  BY <1>2 DEF FlatUpTo
<1>4. \E k : IsFlat(s, k)
  BY <1>3 DEF IsFlat
<1> DEFINE G == CHOOSE k : IsFlat(s, k)
<1>5. IsFlat(s, G)
  BY <1>4
<1>6. FlattenSeq(s) = G[n]
  BY <1>1 DEF FlattenSeq, IsFlat
<1> HIDE DEF G
<1>7. \A i \in 1..n : G[i] = IF i = 1 THEN s[i] ELSE G[i - 1] \o s[i]
  BY <1>5 DEF IsFlat
<1>8. DOMAIN G = 1..n /\ G = [i \in 1..n |-> G[i]]
  BY <1>5 DEF IsFlat
<1> DEFINE Bad == {i \in Nat : i \in 1..n /\ G[i] # f[i]}
<1>9. ASSUME Bad # {} PROVE FALSE
  <2>1. PICK i \in Bad : i = 0 \/ i - 1 \notin Bad
    BY <1>9, LeastNat
  <2>2. i \in 1..n /\ G[i] # f[i]
    OBVIOUS
  <2>3. f[i] = IF i = 1 THEN s[i] ELSE f[i - 1] \o s[i]
    BY <1>2, <2>2 DEF FlatUpTo
  <2>4. G[i] = IF i = 1 THEN s[i] ELSE G[i - 1] \o s[i]
    BY <1>7, <2>2
  <2>5. i # 1
    BY <2>2, <2>3, <2>4
  <2>6. i - 1 \in 1..n /\ i # 0 /\ i - 1 \in Nat
    BY <1>1, <2>2, <2>5
  <2>7. G[i - 1] = f[i - 1]
    BY <2>1, <2>6
  <2> QED BY <2>2, <2>3, <2>4, <2>5, <2>7
<1>10. \A i \in 1..n : G[i] = f[i]
  BY <1>9
<1>11. n \in 1..n
  BY <1>1
<1>12. FlattenSeq(s) = f[n]
  BY <1>6, <1>10, <1>11
<1> QED BY <1>2, <1>12

LEMMA FlattenEmpty == FlattenSeq(<<>>) = <<>>
<1>1. Len(<<>>) = 0
  OBVIOUS
<1> QED BY <1>1, Zenon DEF FlattenSeq

LEMMA FlattenType ==
  ASSUME NEW T, NEW s \in Seq(Seq(T))
  PROVE  FlattenSeq(s) \in Seq(T)
<1>1. CASE s = <<>>
  <2>1. <<>> \in Seq(T)
    OBVIOUS
  <2> QED BY <1>1, <2>1, FlattenEmpty
<1>2. CASE s # <<>>
  <2>1. PICK g : FlatUpTo(T, s, g, Len(s)) /\ FlattenSeq(s) = g[Len(s)]
    BY <1>2, FlattenDefined
  <2>2. Len(s) \in 1..Len(s)
    BY <1>2
  <2> QED BY <2>1, <2>2 DEF FlatUpTo
<1> QED BY <1>1, <1>2

LEMMA FlattenAppend ==
  ASSUME NEW T, NEW s \in Seq(Seq(T)), NEW x \in Seq(T)
  PROVE  FlattenSeq(Append(s, x)) = FlattenSeq(s) \o x
<1> DEFINE t == Append(s, x)
           n == Len(s)
<1>1. /\ t \in Seq(Seq(T)) /\ Len(t) = n + 1 /\ t[n + 1] = x /\ t # <<>> /\ n \in Nat
      /\ \A i \in 1..n : t[i] = s[i]
  BY AppendProperties
<1> HIDE DEF t
<1>2. PICK g : FlatUpTo(T, t, g, n + 1) /\ FlattenSeq(t) = g[n + 1]
  BY <1>1, FlattenDefined
<1>3. \A i \in 1..(n + 1) : g[i] = IF i = 1 THEN t[i] ELSE g[i - 1] \o t[i]
  BY <1>2 DEF FlatUpTo
<1>4. CASE s = <<>>
  <2>1. n = 0 /\ n + 1 = 1 /\ 1 \in 1..1
    BY <1>4
  <2>2. g[1] = x
    BY <1>1, <1>3, <2>1
  <2>3. FlattenSeq(s) \o x = x
    BY <1>4, FlattenEmpty
  <2> QED BY <1>2, <2>1, <2>2, <2>3 DEF t
<1>5. CASE s # <<>>
  <2>1. n # 0
    BY <1>5
  <2>2. PICK f : FlatUpTo(T, s, f, n) /\ FlattenSeq(s) = f[n]
    BY <1>5, FlattenDefined
  <2>3. \A i \in 1..n : f[i] = IF i = 1 THEN s[i] ELSE f[i - 1] \o s[i]
    BY <2>2 DEF FlatUpTo
  <2> DEFINE Bad == {i \in Nat : i \in 1..n /\ g[i] # f[i]}
  <2>4. ASSUME Bad # {} PROVE FALSE
    <3>1. PICK i \in Bad : i = 0 \/ i - 1 \notin Bad
      BY <2>4, LeastNat
    <3>2. i \in 1..n /\ i \in 1..(n + 1) /\ g[i] # f[i] /\ t[i] = s[i]
      BY <1>1
    <3>3. f[i] = IF i = 1 THEN s[i] ELSE f[i - 1] \o s[i]
      BY <2>3, <3>2
    <3>4. g[i] = IF i = 1 THEN t[i] ELSE g[i - 1] \o t[i]
      BY <1>3, <3>2
    <3>5. i # 1
      BY <3>2, <3>3, <3>4
    <3>6. i - 1 \in 1..n /\ i # 0 /\ i - 1 \in Nat
      BY <1>1, <3>2, <3>5
    <3>7. g[i - 1] = f[i - 1]
      BY <3>1, <3>6
    <3> QED BY <3>2, <3>3, <3>4, <3>5, <3>7
  <2>5. \A i \in 1..n : g[i] = f[i]
    BY <2>4
  <2>6. n \in 1..n /\ n + 1 \in 1..(n + 1) /\ n + 1 # 1 /\ (n + 1) - 1 = n
    BY <1>1, <2>1
  <2>7. g[n + 1] = g[n] \o x
    BY <1>1, <1>3, <2>6
  <2>8. FlattenSeq(t) = FlattenSeq(s) \o x
    BY <1>2, <2>2, <2>5, <2>6, <2>7
  <2> QED BY <2>8 DEF t
<1> QED BY <1>4, <1>5

\* Induction over sequences, in the form of LeastNat.
LEMMA ShortestSeq ==
  ASSUME NEW S, NEW B, B \subseteq Seq(S), B # {}, <<>> \notin B
  PROVE  \E s \in Seq(S), x \in S : Append(s, x) \in B /\ s \notin B
<1> DEFINE N == {n \in Nat : \E s \in B : Len(s) = n}
<1>1. N \subseteq Nat /\ \A n : n \in N <=> n \in Nat /\ \E s \in B : Len(s) = n
  OBVIOUS
<1> HIDE DEF N
<1>2. N # {}
  <2>1. PICK s \in B : TRUE
    OBVIOUS
  <2>2. Len(s) \in Nat
    OBVIOUS
  <2> QED BY <1>1, <2>2
<1>3. PICK n \in N : n = 0 \/ n - 1 \notin N
  BY <1>1, <1>2, LeastNat
<1>4. PICK t \in B : Len(t) = n
  BY <1>1
<1>5. t \in Seq(S) /\ t # <<>>
  OBVIOUS
<1>6. PICK s \in Seq(S), x \in S : t = Append(s, x)
  BY <1>5, SequenceEmptyOrAppend
<1>7. Len(t) = Len(s) + 1 /\ Len(s) \in Nat
  BY <1>6, AppendProperties
<1>8. n # 0 /\ n - 1 = Len(s)
  BY <1>4, <1>7
<1>9. s \notin B
  BY <1>1, <1>3, <1>7, <1>8
<1> QED BY <1>4, <1>6, <1>9

\* Every member replaced by what e says.
Expand(text, e) == FlattenSeq([i \in DOMAIN text |-> e[text[i]]])

\* e gives a text over V for every member of S.
Spelling(S, V, e) == e \in [S -> Seq(V)]

LEMMA Images ==
  ASSUME NEW S, NEW V, NEW e, Spelling(S, V, e), NEW text \in Seq(S)
  PROVE  [i \in DOMAIN text |-> e[text[i]]] \in Seq(Seq(V))
<1>0. e \in [S -> Seq(V)]
  BY DEF Spelling
<1> USE <1>0
<1>1. Len(text) \in Nat /\ DOMAIN text = 1..Len(text) /\ \A i \in 1..Len(text) : text[i] \in S
  OBVIOUS
<1>2. [i \in DOMAIN text |-> e[text[i]]] \in [1..Len(text) -> Seq(V)]
  BY <1>1
<1> QED BY <1>1, <1>2, SeqDef

LEMMA ExpandType ==
  ASSUME NEW S, NEW V, NEW e, Spelling(S, V, e), NEW text \in Seq(S)
  PROVE  Expand(text, e) \in Seq(V)
<1>0. e \in [S -> Seq(V)]
  BY DEF Spelling
<1> USE <1>0
<1> DEFINE p == [i \in DOMAIN text |-> e[text[i]]]
<1>1. p \in Seq(Seq(V))
  BY Images
<1> HIDE DEF p
<1>2. FlattenSeq(p) \in Seq(V)
  BY <1>1, FlattenType
<1> QED BY <1>2 DEF Expand, p

LEMMA ExpandEmpty == \A e : Expand(<<>>, e) = <<>>
<1> SUFFICES ASSUME NEW e PROVE Expand(<<>>, e) = <<>>
  OBVIOUS
<1>1. [i \in DOMAIN <<>> |-> e[<<>>[i]]] = <<>>
  OBVIOUS
<1> QED BY <1>1, FlattenEmpty DEF Expand

LEMMA ExpandAppend ==
  ASSUME NEW S, NEW V, NEW e, Spelling(S, V, e), NEW text \in Seq(S), NEW x \in S
  PROVE  Expand(Append(text, x), e) = Expand(text, e) \o e[x]
<1>0. e \in [S -> Seq(V)]
  BY DEF Spelling
<1> USE <1>0
<1> DEFINE t == Append(text, x)
           f == [i \in DOMAIN text |-> e[text[i]]]
           g == [i \in DOMAIN t |-> e[t[i]]]
           n == Len(text)
<1>1. /\ t \in Seq(S) /\ Len(t) = n + 1 /\ t[n + 1] = x /\ n \in Nat
      /\ \A i \in 1..n : t[i] = text[i]
  BY AppendProperties
<1>2. DOMAIN text = 1..n /\ DOMAIN t = 1..(n + 1)
  BY <1>1
<1>3. f \in Seq(Seq(V)) /\ g \in Seq(Seq(V)) /\ e[x] \in Seq(V)
  <2>1. f \in Seq(Seq(V))
    BY Images
  <2>2. e[x] \in Seq(V)
    OBVIOUS
  <2>3. t \in Seq(S)
    BY <1>1
  <2> HIDE DEF t
  <2>4. g \in Seq(Seq(V))
    BY <2>3, Images
  <2> QED BY <2>1, <2>2, <2>4
<1>4. DOMAIN f = 1..n /\ DOMAIN g = 1..(n + 1) /\ (\A i \in 1..n : f[i] = e[text[i]])
      /\ \A i \in 1..(n + 1) : g[i] = e[t[i]]
  BY <1>2
<1> HIDE DEF f, g, t
<1>5. Len(f) = n /\ Len(g) = n + 1
  BY <1>1, <1>3, <1>4, LenProperties
<1>6. g = Append(f, e[x])
  <2> DEFINE h == Append(f, e[x])
  <2>1. h \in Seq(Seq(V)) /\ Len(h) = n + 1 /\ h[n + 1] = e[x] /\ \A i \in 1..n : h[i] = f[i]
    BY <1>3, <1>5, AppendProperties
  <2> HIDE DEF h
  <2>2. \A i \in 1..(n + 1) : h[i] = g[i]
    <3> SUFFICES ASSUME NEW i \in 1..(n + 1) PROVE h[i] = g[i]
      OBVIOUS
    <3>1. CASE i = n + 1
      BY <1>1, <1>4, <2>1, <3>1
    <3>2. CASE i # n + 1
      <4>1. i \in 1..n
        BY <1>1, <3>2
      <4>2. h[i] = f[i] /\ f[i] = e[text[i]] /\ t[i] = text[i]
        BY <1>1, <1>4, <2>1, <4>1
      <4>3. g[i] = e[t[i]]
        BY <1>4
      <4> QED BY <4>2, <4>3
    <3> QED BY <3>1, <3>2
  <2>3. h = g
    BY <1>3, <1>5, <2>1, <2>2, SeqEqual
  <2> QED BY <2>3 DEF h
<1>7. FlattenSeq(g) = FlattenSeq(f) \o e[x]
  BY <1>3, <1>6, FlattenAppend
<1> QED BY <1>7 DEF Expand, f, g, t

LEMMA ConcatAppend ==
  ASSUME NEW S, NEW a \in Seq(S), NEW b \in Seq(S), NEW x \in S
  PROVE  a \o Append(b, x) = Append(a \o b, x)
<1>1. Append(b, x) = b \o <<x>> /\ <<x>> \in Seq(S) /\ a \o b \in Seq(S)
  BY AppendIsConcat
<1>2. Append(a \o b, x) = (a \o b) \o <<x>>
  BY <1>1, AppendIsConcat
<1> QED BY <1>1, <1>2, ConcatAssociative

LEMMA ExpandConcat ==
  ASSUME NEW S, NEW V, NEW e, Spelling(S, V, e), NEW a \in Seq(S), NEW b \in Seq(S)
  PROVE  Expand(a \o b, e) = Expand(a, e) \o Expand(b, e)
<1>0. e \in [S -> Seq(V)]
  BY DEF Spelling
<1> DEFINE Holds(s) == Expand(a \o s, e) = Expand(a, e) \o Expand(s, e)
           Bad == {s \in Seq(S) : ~Holds(s)}
<1>1. Holds(<<>>)
  <2>1. a \o <<>> = a
    OBVIOUS
  <2>3. Expand(a, e) \in Seq(V)
    BY ExpandType
  <2>2. Expand(a, e) \o <<>> = Expand(a, e)
    BY <2>3, ConcatEmptySeq
  <2> QED BY <2>1, <2>2, ExpandEmpty
<1>2. ASSUME NEW s \in Seq(S), NEW x \in S, Holds(s) PROVE Holds(Append(s, x))
  <2>1. a \o Append(s, x) = Append(a \o s, x) /\ a \o s \in Seq(S)
    BY ConcatAppend
  <2>2. Expand(Append(a \o s, x), e) = Expand(a \o s, e) \o e[x]
    <3> DEFINE u == a \o s
    <3>1. u \in Seq(S) /\ x \in S /\ Spelling(S, V, e)
      BY <2>1
    <3> HIDE DEF u
    <3>2. Expand(Append(u, x), e) = Expand(u, e) \o e[x]
      BY ONLY <3>1, ExpandAppend
    <3> QED BY <3>2 DEF u
  <2>3. Expand(Append(s, x), e) = Expand(s, e) \o e[x]
    BY ExpandAppend
  <2>4. Expand(a, e) \in Seq(V) /\ Expand(s, e) \in Seq(V) /\ e[x] \in Seq(V)
    BY <1>0, ExpandType
  <2>5. (Expand(a, e) \o Expand(s, e)) \o e[x] = Expand(a, e) \o (Expand(s, e) \o e[x])
    <3> DEFINE u == Expand(a, e)
               v == Expand(s, e)
               w == e[x]
    <3>1. u \in Seq(V) /\ v \in Seq(V) /\ w \in Seq(V)
      BY <2>4
    <3> HIDE DEF u, v, w
    <3>2. (u \o v) \o w = u \o (v \o w)
      BY ONLY <3>1, SMT
    <3> QED BY <3>2 DEF u, v, w
  <2> QED BY <1>2, <2>1, <2>2, <2>3, <2>5
<1>3. \A s : s \in Bad <=> s \in Seq(S) /\ ~Holds(s)
  OBVIOUS
<1> HIDE DEF Holds, Bad
<1>4. Bad = {}
  <2> SUFFICES ASSUME Bad # {} PROVE FALSE
    OBVIOUS
  <2>1. Bad \subseteq Seq(S) /\ <<>> \notin Bad
    BY <1>1, <1>3
  <2>2. PICK s \in Seq(S), x \in S : Append(s, x) \in Bad /\ s \notin Bad
    BY <2>1, ShortestSeq
  <2> QED BY <1>2, <1>3, <2>2
<1>5. Holds(b)
  BY <1>3, <1>4
<1> QED BY <1>5 DEF Holds

\* Members that stand for themselves stay.
LEMMA ExpandSelf ==
  ASSUME NEW S, NEW e, Spelling(S, S, e), NEW text \in Seq(S),
         \A i \in DOMAIN text : e[text[i]] = <<text[i]>>
  PROVE  Expand(text, e) = text
<1>0. e \in [S -> Seq(S)]
  BY DEF Spelling
<1> USE <1>0
<1> DEFINE Stays(s) == \A i \in DOMAIN s : e[s[i]] = <<s[i]>>
           Holds(s) == Stays(s) => Expand(s, e) = s
           Bad == {s \in Seq(S) : ~Holds(s)}
<1>1. Holds(<<>>)
  BY ExpandEmpty
<1>2. ASSUME NEW s \in Seq(S), NEW x \in S, Holds(s) PROVE Holds(Append(s, x))
  <2> SUFFICES ASSUME Stays(Append(s, x)) PROVE Expand(Append(s, x), e) = Append(s, x)
    OBVIOUS
  <2>1. /\ Len(Append(s, x)) = Len(s) + 1 /\ Append(s, x)[Len(s) + 1] = x /\ Len(s) \in Nat
        /\ \A i \in 1..Len(s) : Append(s, x)[i] = s[i]
        /\ DOMAIN s = 1..Len(s) /\ DOMAIN Append(s, x) = 1..(Len(s) + 1)
    BY AppendProperties
  <2>2. Stays(s)
    <3> SUFFICES ASSUME NEW i \in DOMAIN s PROVE e[s[i]] = <<s[i]>>
      OBVIOUS
    <3>1. i \in DOMAIN Append(s, x) /\ Append(s, x)[i] = s[i]
      BY <2>1
    <3> QED BY <3>1
  <2>3. e[x] = <<x>>
    <3>1. Len(s) + 1 \in DOMAIN Append(s, x)
      BY <2>1
    <3> QED BY <2>1, <3>1
  <2>4. Expand(Append(s, x), e) = Expand(s, e) \o e[x]
    BY ExpandAppend
  <2>5. Append(s, x) = s \o <<x>>
    BY AppendIsConcat
  <2> QED BY <1>2, <2>2, <2>3, <2>4, <2>5
<1>3. \A s : s \in Bad <=> s \in Seq(S) /\ ~Holds(s)
  OBVIOUS
<1> HIDE DEF Holds, Bad
<1>4. Bad = {}
  <2> SUFFICES ASSUME Bad # {} PROVE FALSE
    OBVIOUS
  <2>1. Bad \subseteq Seq(S) /\ <<>> \notin Bad
    BY <1>1, <1>3
  <2>2. PICK s \in Seq(S), x \in S : Append(s, x) \in Bad /\ s \notin Bad
    BY <2>1, ShortestSeq
  <2> QED BY <1>2, <1>3, <2>2
<1>5. Holds(text)
  BY <1>3, <1>4
<1> QED BY <1>5 DEF Holds

\* So concatenations flatten to concatenations, a sequence cut into its members
\* flattens to itself, and empty members leave no trace.
LEMMA FlattenConcat ==
  ASSUME NEW T, NEW p \in Seq(Seq(T)), NEW q \in Seq(Seq(T))
  PROVE  FlattenSeq(p \o q) = FlattenSeq(p) \o FlattenSeq(q)
<1> DEFINE U == Seq(T)
           e == [y \in U |-> y]
<1>1. Spelling(U, T, e)
  BY DEF Spelling
<1>2. ASSUME NEW s \in Seq(U) PROVE Expand(s, e) = FlattenSeq(s)
  <2>1. \A i \in DOMAIN s : s[i] \in U
    OBVIOUS
  <2>2. [i \in DOMAIN s |-> e[s[i]]] = [i \in DOMAIN s |-> s[i]]
    BY <2>1
  <2>3. s = [i \in DOMAIN s |-> s[i]]
    OBVIOUS
  <2> QED BY <2>2, <2>3 DEF Expand
<1>3. p \in Seq(U) /\ q \in Seq(U) /\ p \o q \in Seq(U)
  OBVIOUS
<1> HIDE DEF U, e
<1>4. Expand(p \o q, e) = Expand(p, e) \o Expand(q, e)
  BY <1>1, <1>3, ExpandConcat
<1> QED BY <1>2, <1>3, <1>4

LEMMA FlattenSingles ==
  ASSUME NEW T, NEW s \in Seq(T)
  PROVE  FlattenSeq([i \in DOMAIN s |-> <<s[i]>>]) = s
<1> DEFINE e == [y \in T |-> <<y>>]
<1>1. Spelling(T, T, e)
  BY DEF Spelling
<1>2. \A i \in DOMAIN s : e[s[i]] = <<s[i]>>
  OBVIOUS
<1> HIDE DEF e
<1>3. Expand(s, e) = s
  BY <1>1, <1>2, ExpandSelf
<1>4. [i \in DOMAIN s |-> e[s[i]]] = [i \in DOMAIN s |-> <<s[i]>>]
  BY <1>2
<1> QED BY <1>3, <1>4 DEF Expand

LEMMA FlattenFirst ==
  ASSUME NEW T, NEW p \in Seq(Seq(T)), p # <<>>, \A i \in 2..Len(p) : p[i] = <<>>
  PROVE  FlattenSeq(p) = p[1]
<1> DEFINE n == Len(p)
<1>1. n \in Nat /\ n \in 1..n /\ 1 \in 1..n /\ p[1] \in Seq(T)
  OBVIOUS
<1>2. PICK g : FlatUpTo(T, p, g, n) /\ FlattenSeq(p) = g[n]
  BY FlattenDefined
<1>3. \A i \in 1..n : g[i] = IF i = 1 THEN p[i] ELSE g[i - 1] \o p[i]
  BY <1>2 DEF FlatUpTo
<1> DEFINE Bad == {i \in Nat : i \in 1..n /\ g[i] # p[1]}
<1>4. ASSUME Bad # {} PROVE FALSE
  <2>1. PICK i \in Bad : i = 0 \/ i - 1 \notin Bad
    BY <1>4, LeastNat
  <2>2. i \in 1..n /\ g[i] # p[1] /\ i # 1
    BY <1>1, <1>3
  <2>3. i \in 2..n /\ i - 1 \in 1..n /\ i - 1 \in Nat /\ i # 0
    BY <1>1, <2>2
  <2>4. g[i - 1] = p[1]
    BY <2>1, <2>3
  <2>5. g[i] = p[1] \o <<>>
    BY <1>3, <2>2, <2>3, <2>4
  <2>6. p[1] \o <<>> = p[1]
    BY <1>1, ConcatEmptySeq
  <2> QED BY <2>2, <2>5, <2>6
<1> QED BY <1>1, <1>2, <1>4

-----------------------------------------------------------------------------
(* Replacing *)

\* What a template is written with: placeholders and plain characters.
Tokens == Names \cup Plain

\* c is s followed by t.
Joined(T, s, t, c) ==
    /\ c \in Seq(T) /\ Len(c) = Len(s) + Len(t)
    /\ \A i \in 1..Len(s) : c[i] = s[i]
    /\ \A i \in 1..Len(t) : c[Len(s) + i] = t[i]

LEMMA ConcatPlaces ==
  ASSUME NEW T, NEW s \in Seq(T), NEW t \in Seq(T)
  PROVE  Joined(T, s, t, s \o t)
<1>1. Len(s) \in Nat /\ Len(t) \in Nat
  OBVIOUS
<1>2. /\ s \o t \in Seq(T) /\ Len(s \o t) = Len(s) + Len(t)
      /\ \A i \in 1..Len(s) + Len(t) : (s \o t)[i] = IF i <= Len(s) THEN s[i] ELSE t[i - Len(s)]
  BY ConcatProperties
<1>3. ASSUME NEW i \in 1..Len(t) PROVE (s \o t)[Len(s) + i] = t[i]
  <2>1. Len(s) + i \in 1..Len(s) + Len(t) /\ ~(Len(s) + i <= Len(s)) /\ (Len(s) + i) - Len(s) = i
    BY <1>1
  <2> QED BY <1>2, <2>1
<1>4. ASSUME NEW i \in 1..Len(s) PROVE (s \o t)[i] = s[i]
  <2>1. i \in 1..Len(s) + Len(t) /\ i <= Len(s)
    BY <1>1
  <2> QED BY <1>2, <2>1
<1> QED BY <1>2, <1>3, <1>4 DEF Joined

\* Braces are only at the ends of a placeholder.
LEMMA PatternPlaces ==
  ASSUME NEW name \in Seq(Plain)
  PROVE  LET p == Pattern(name)
             n == Len(name)
         IN  /\ n \in Nat /\ p \in Seq(Chars) /\ Len(p) = n + 4 /\ DOMAIN p = 1..(n + 4)
             /\ p[1] = LBrace /\ p[2] = LBrace /\ p[n + 3] = RBrace /\ p[n + 4] = RBrace
             /\ \A i \in 1..n : p[i + 2] = name[i] /\ name[i] \in Plain
             /\ \A i \in 3..(n + 4) : p[i] # LBrace
<1> DEFINE n == Len(name)
           l == <<LBrace, LBrace>>
           r == <<RBrace, RBrace>>
           p == Pattern(name)
<1>1. LBrace \in Chars /\ RBrace \in Chars /\ LBrace # RBrace /\ LBrace \notin Plain
  BY TextsAssumption DEF Plain
<1>2. name \in Seq(Chars) /\ n \in Nat /\ \A i \in 1..n : name[i] \in Plain
  <2>1. Plain \subseteq Chars
    BY DEF Plain
  <2>2. n \in Nat /\ \A i \in 1..n : name[i] \in Plain
    OBVIOUS
  <2>3. name \in Seq(Chars)
    BY <2>1
  <2> QED BY <2>2, <2>3
<1>3. l \in Seq(Chars) /\ Len(l) = 2 /\ l[1] = LBrace /\ l[2] = LBrace
      /\ r \in Seq(Chars) /\ Len(r) = 2 /\ r[1] = RBrace /\ r[2] = RBrace
  BY <1>1
<1> HIDE DEF l, r, n
<1>4. p = (l \o name) \o r
  BY DEF Pattern, l, r
<1> DEFINE h == l \o name
<1>5. /\ h \in Seq(Chars) /\ Len(h) = 2 + n
      /\ \A i \in 1..2 : h[i] = l[i]
      /\ \A i \in 1..n : h[2 + i] = name[i]
  <2>1. Joined(Chars, l, name, l \o name)
    BY <1>2, <1>3, ConcatPlaces
  <2> QED BY <1>3, <2>1 DEF n, Joined
<1>6. p = h \o r
  BY <1>4
<1> HIDE DEF h, p
<1>7. Joined(Chars, h, r, p)
  BY <1>3, <1>5, <1>6, ConcatPlaces
<1>12. Len(p) = n + 4 /\ p[1] = h[1] /\ p[2] = h[2] /\ p[n + 3] = r[1] /\ p[n + 4] = r[2]
  <2>1. /\ 1 \in 1..Len(h) /\ 2 \in 1..Len(h) /\ 1 \in 1..Len(r) /\ 2 \in 1..Len(r)
        /\ Len(h) + 1 = n + 3 /\ Len(h) + 2 = n + 4 /\ Len(h) + Len(r) = n + 4
    BY <1>2, <1>3, <1>5
  <2> QED BY <1>7, <2>1 DEF Joined
<1>13. ASSUME NEW i \in 1..n PROVE p[i + 2] = name[i]
  <2>1. i + 2 \in 1..Len(h) /\ i + 2 = 2 + i
    BY <1>2, <1>5
  <2> QED BY <1>5, <1>7, <2>1 DEF Joined
<1>8. /\ p[1] = LBrace /\ p[2] = LBrace /\ p[n + 3] = RBrace /\ p[n + 4] = RBrace
      /\ \A i \in 1..n : p[i + 2] = name[i]
  <2>1. 1 \in 1..2 /\ 2 \in 1..2
    OBVIOUS
  <2> QED BY <1>3, <1>5, <1>12, <1>13, <2>1
<1>9. ASSUME NEW i \in 3..(n + 4) PROVE p[i] # LBrace
  <2>1. CASE i \in {n + 3, n + 4}
    BY <1>1, <1>8, <2>1
  <2>2. CASE i \notin {n + 3, n + 4}
    <3>1. i - 2 \in 1..n /\ (i - 2) + 2 = i
      BY <1>2, <2>2
    <3> QED BY <1>1, <1>2, <1>8, <3>1
  <2> QED BY <2>1, <2>2
<1>10. DOMAIN p = 1..(n + 4)
  BY <1>7, <1>12 DEF Joined
<1>11. /\ n \in Nat /\ p \in Seq(Chars) /\ Len(p) = n + 4 /\ DOMAIN p = 1..(n + 4)
       /\ p[1] = LBrace /\ p[2] = LBrace /\ p[n + 3] = RBrace /\ p[n + 4] = RBrace
       /\ \A i \in 1..n : p[i + 2] = name[i] /\ name[i] \in Plain
       /\ \A i \in 3..(n + 4) : p[i] # LBrace
  BY <1>2, <1>7, <1>8, <1>9, <1>10, <1>12 DEF Joined
<1> QED BY <1>11 DEF n, p

\* What Matches says, place by place.
LEMMA MatchPlaces ==
  ASSUME NEW name \in Seq(Plain), NEW text \in Seq(Chars), NEW i \in Int
  PROVE  /\ Matches(text, i, name) <=>
               \A j \in 1..(Len(name) + 4) : i + j - 1 \in 1..Len(text) /\ text[i + j - 1] = Pattern(name)[j]
         /\ Matches(text, i, name) => i \in 1..Len(text) /\ i + Len(name) + 3 <= Len(text)
<1>1. Len(name) \in Nat /\ DOMAIN Pattern(name) = 1..(Len(name) + 4)
  BY PatternPlaces, Zenon
<1>2. DOMAIN text = 1..Len(text) /\ Len(text) \in Nat
  OBVIOUS
<1>3. Matches(text, i, name) <=>
        \A j \in 1..(Len(name) + 4) : i + j - 1 \in 1..Len(text) /\ text[i + j - 1] = Pattern(name)[j]
  BY <1>1, <1>2 DEF Matches
<1>4. ASSUME Matches(text, i, name) PROVE i \in 1..Len(text) /\ i + Len(name) + 3 <= Len(text)
  <2>1. 1 \in 1..(Len(name) + 4) /\ Len(name) + 4 \in 1..(Len(name) + 4)
    BY <1>1
  <2>2. i + 1 - 1 \in 1..Len(text) /\ i + (Len(name) + 4) - 1 \in 1..Len(text)
    BY <1>3, <1>4, <2>1
  <2> QED BY <1>1, <1>2, <2>2
<1> QED BY <1>3, <1>4

\* No {{name}} of text \o word begins in text and ends in word.
Apart(text, word, name) ==
    \A i \in 1..Len(text) : Matches(text \o word, i, name) => i + Len(name) + 3 <= Len(text)

LEMMA WordTyped == ASSUME NEW t \in Tokens PROVE Word(t) \in Seq(Chars)
<1>1. CASE t \in Names
  <2>1. t \in Seq(Plain)
    BY <1>1, TextsAssumption
  <2>2. Pattern(t) \in Seq(Chars)
    BY <2>1, PatternPlaces, Zenon
  <2> QED BY <1>1, <2>2 DEF Word
<1>2. CASE t \notin Names
  BY <1>2 DEF Word, Tokens, Plain
<1> QED BY <1>1, <1>2

\* { is only at the first two places of {{name}}, and } at the last two, so what
\* comes before a placeholder or a plain character makes no new {{name}} with it.
LEMMA WordApart ==
  ASSUME NEW name \in Seq(Plain), NEW text \in Seq(Chars), NEW t \in Tokens
  PROVE  Apart(text, Word(t), name)
<1> DEFINE c == text \o Word(t)
           m == Len(text)
           n == Len(name)
           p == Pattern(name)
<1> SUFFICES ASSUME NEW i \in 1..m, Matches(c, i, name), ~(i + n + 3 <= m) PROVE FALSE
  BY DEF Apart
<1>1. Word(t) \in Seq(Chars)
  BY WordTyped
<1>2. Joined(Chars, text, Word(t), c)
  BY <1>1, ConcatPlaces
<1>3. c \in Seq(Chars) /\ m \in Nat /\ n \in Nat /\ i \in Int
  BY <1>2 DEF Joined
<1>4. /\ p[n + 4] = RBrace
      /\ \A j \in 3..(n + 4) : p[j] # LBrace
  BY PatternPlaces, Zenon
<1> HIDE DEF c
<1>5. /\ \A j \in 1..(n + 4) : i + j - 1 \in 1..Len(c) /\ c[i + j - 1] = p[j]
      /\ i + n + 3 <= Len(c)
  BY <1>3, MatchPlaces
<1> HIDE DEF m, n, p
<1>6. CASE t \in Names
  <2>1. t \in Seq(Plain) /\ Word(t) = Pattern(t)
    BY <1>6, TextsAssumption DEF Word
  <2>2. Len(t) \in Nat /\ Len(Pattern(t)) = Len(t) + 4 /\ Pattern(t)[1] = LBrace /\ Pattern(t)[2] = LBrace
    BY <2>1, PatternPlaces, Zenon
  <2>3. c[m + 1] = LBrace /\ c[m + 2] = LBrace
    <3>1. 1 \in 1..Len(Word(t)) /\ 2 \in 1..Len(Word(t))
      BY <2>1, <2>2
    <3> QED BY <1>2, <2>1, <2>2, <3>1 DEF Joined, m
  <2>4. CASE i = m
    <3>1. 3 \in 1..(n + 4) /\ i + 3 - 1 = m + 2 /\ 3 \in 3..(n + 4)
      BY <1>3, <2>4
    <3> QED BY <1>4, <1>5, <2>3, <3>1
  <2>5. CASE i # m
    <3> DEFINE j == m + 2 - i
    <3>1. j \in 3..(n + 4) /\ j \in 1..(n + 4) /\ i + j - 1 = m + 1
      BY <1>3, <2>5
    <3> HIDE DEF j
    <3> QED BY <1>4, <1>5, <2>3, <3>1
  <2> QED BY <2>4, <2>5
<1>7. CASE t \notin Names
  <2>1. Word(t) = <<t>> /\ t # RBrace
    BY <1>7 DEF Word, Tokens, Plain
  <2>2. Len(c) = m + 1 /\ c[m + 1] = t
    <3>1. Len(Word(t)) = 1 /\ 1 \in 1..1 /\ Word(t)[1] = t
      BY <2>1
    <3> QED BY <1>2, <3>1 DEF Joined, m
  <2>3. n + 4 \in 1..(n + 4) /\ i + (n + 4) - 1 = m + 1
    BY <1>3, <1>5, <2>2
  <2> QED BY <1>4, <1>5, <2>1, <2>2, <2>3
<1> QED BY <1>6, <1>7

\* The occurrences in text \o word are those in text and those in word.
LEMMA MatchApart ==
  ASSUME NEW name \in Seq(Plain), NEW text \in Seq(Chars), NEW word \in Seq(Chars), Apart(text, word, name)
  PROVE  /\ \A i \in Int : i <= Len(text) => (Matches(text \o word, i, name) <=> Matches(text, i, name))
         /\ \A i \in Int : i >= 1 => (Matches(text \o word, Len(text) + i, name) <=> Matches(word, i, name))
<1> DEFINE c == text \o word
           m == Len(text)
           w == Len(word)
           n == Len(name)
           p == Pattern(name)
<1>1. Joined(Chars, text, word, c)
  BY ConcatPlaces
<1>2. c \in Seq(Chars) /\ Len(c) = m + w /\ m \in Nat /\ n \in Nat /\ w \in Nat
  BY <1>1 DEF Joined
<1>3. /\ \A i \in 1..m : c[i] = text[i]
      /\ \A i \in 1..w : c[m + i] = word[i]
  BY <1>1 DEF Joined
<1>4. \A i \in 1..m : Matches(c, i, name) => i + n + 3 <= m
  BY DEF Apart
<1> HIDE DEF c
<1>5. \A i \in Int :
         /\ Matches(c, i, name) <=> \A j \in 1..(n + 4) : i + j - 1 \in 1..Len(c) /\ c[i + j - 1] = p[j]
         /\ Matches(text, i, name) <=> \A j \in 1..(n + 4) : i + j - 1 \in 1..m /\ text[i + j - 1] = p[j]
         /\ Matches(word, i, name) <=> \A j \in 1..(n + 4) : i + j - 1 \in 1..w /\ word[i + j - 1] = p[j]
  BY <1>2, MatchPlaces
<1>6. \A i \in Int : Matches(c, i, name) => i \in 1..Len(c)
  BY <1>2, MatchPlaces
<1> HIDE DEF m, n, p, w
<1>7. ASSUME NEW i \in Int, i <= m PROVE Matches(c, i, name) <=> Matches(text, i, name)
  <2>1. ASSUME Matches(c, i, name) PROVE Matches(text, i, name)
    <3>1. i \in 1..m
      BY <1>2, <1>6, <1>7, <2>1
    <3>2. i + n + 3 <= m
      BY <1>4, <2>1, <3>1
    <3> SUFFICES ASSUME NEW j \in 1..(n + 4) PROVE i + j - 1 \in 1..m /\ text[i + j - 1] = p[j]
      BY <1>5
    <3>3. i + j - 1 \in 1..m
      BY <1>2, <3>1, <3>2
    <3>4. c[i + j - 1] = p[j]
      BY <1>5, <2>1
    <3> QED BY <1>3, <3>3, <3>4
  <2>2. ASSUME Matches(text, i, name) PROVE Matches(c, i, name)
    <3> SUFFICES ASSUME NEW j \in 1..(n + 4) PROVE i + j - 1 \in 1..Len(c) /\ c[i + j - 1] = p[j]
      BY <1>5
    <3>1. i + j - 1 \in 1..m /\ text[i + j - 1] = p[j]
      BY <1>5, <2>2
    <3>2. i + j - 1 \in 1..Len(c)
      BY <1>2, <3>1
    <3> QED BY <1>3, <3>1, <3>2
  <2> QED BY <2>1, <2>2
<1>8. ASSUME NEW i \in Int, i >= 1 PROVE Matches(c, m + i, name) <=> Matches(word, i, name)
  <2>1. \A j \in 1..(n + 4) : /\ (m + i) + j - 1 = m + (i + j - 1) /\ i + j - 1 \in Int /\ i + j - 1 >= 1
                              /\ (m + (i + j - 1) \in 1..Len(c) <=> i + j - 1 \in 1..w)
    BY <1>2, <1>8
  <2>2. m + i \in Int
    BY <1>2
  <2>3. ASSUME Matches(c, m + i, name) PROVE Matches(word, i, name)
    <3> SUFFICES ASSUME NEW j \in 1..(n + 4) PROVE i + j - 1 \in 1..w /\ word[i + j - 1] = p[j]
      BY <1>5
    <3>1. (m + i) + j - 1 \in 1..Len(c) /\ c[(m + i) + j - 1] = p[j]
      BY <1>5, <2>2, <2>3
    <3>2. c[m + (i + j - 1)] = p[j] /\ i + j - 1 \in 1..w
      BY <2>1, <3>1
    <3> QED BY <1>3, <3>2
  <2>4. ASSUME Matches(word, i, name) PROVE Matches(c, m + i, name)
    <3> SUFFICES ASSUME NEW j \in 1..(n + 4)
                 PROVE  (m + i) + j - 1 \in 1..Len(c) /\ c[(m + i) + j - 1] = p[j]
      BY <1>5, <2>2
    <3>1. i + j - 1 \in 1..w /\ word[i + j - 1] = p[j]
      BY <1>5, <2>4
    <3>2. c[m + (i + j - 1)] = p[j]
      BY <1>3, <3>1
    <3> QED BY <2>1, <3>1, <3>2
  <2> QED BY <2>3, <2>4
<1> QED BY <1>7, <1>8 DEF c, m

\* What ReplaceAll makes of one place.
Piece(text, i, name, value) ==
    IF Matches(text, i, name) THEN value
    ELSE IF Inside(text, i, name) THEN <<>> ELSE <<text[i]>>

Pieces(text, name, value) == [i \in DOMAIN text |-> Piece(text, i, name, value)]

LEMMA PiecesTyped ==
  ASSUME NEW text \in Seq(Chars), NEW name, NEW value \in Seq(Chars)
  PROVE  /\ Pieces(text, name, value) \in Seq(Seq(Chars))
         /\ Len(Pieces(text, name, value)) = Len(text)
         /\ \A i \in 1..Len(text) : Pieces(text, name, value)[i] = Piece(text, i, name, value)
         /\ Substitute(text, name, value) = FlattenSeq(Pieces(text, name, value))
<1> DEFINE p == Pieces(text, name, value)
           n == Len(text)
<1>1. n \in Nat /\ DOMAIN text = 1..n /\ \A i \in 1..n : text[i] \in Chars
  OBVIOUS
<1>2. \A i \in 1..n : Piece(text, i, name, value) \in Seq(Chars)
  BY <1>1 DEF Piece
<1>3. p \in [1..n -> Seq(Chars)]
  BY <1>1, <1>2 DEF Pieces
<1>4. p \in Seq(Seq(Chars)) /\ Len(p) = n
  <2>1. p \in Seq(Seq(Chars))
    BY <1>1, <1>3, SeqDef
  <2> HIDE DEF p
  <2> QED BY <1>1, <1>3, <2>1, LenProperties
<1>5. \A i \in 1..n : p[i] = Piece(text, i, name, value)
  BY <1>1 DEF Pieces
<1>6. Substitute(text, name, value) = FlattenSeq(p)
  BY DEF Substitute, Pieces, Piece
<1> QED BY <1>4, <1>5, <1>6

LEMMA SubstituteTyped ==
  ASSUME NEW text \in Seq(Chars), NEW name, NEW value \in Seq(Chars)
  PROVE  Substitute(text, name, value) \in Seq(Chars)
<1>1. /\ Pieces(text, name, value) \in Seq(Seq(Chars))
      /\ Substitute(text, name, value) = FlattenSeq(Pieces(text, name, value))
  BY PiecesTyped
<1> QED BY <1>1, FlattenType

\* Places of text are replaced as in text alone, and places of word as in word.
LEMMA PieceApart ==
  ASSUME NEW name \in Seq(Plain), NEW text \in Seq(Chars), NEW word \in Seq(Chars), NEW value,
         Apart(text, word, name)
  PROVE  /\ \A i \in 1..Len(text) : Piece(text \o word, i, name, value) = Piece(text, i, name, value)
         /\ \A i \in 1..Len(word) : Piece(text \o word, Len(text) + i, name, value) = Piece(word, i, name, value)
<1> DEFINE c == text \o word
           m == Len(text)
           w == Len(word)
           n == Len(name)
<1>1. /\ \A i \in Int : i <= m => (Matches(c, i, name) <=> Matches(text, i, name))
      /\ \A i \in Int : i >= 1 => (Matches(c, m + i, name) <=> Matches(word, i, name))
  BY MatchApart, Zenon
<1>2. Joined(Chars, text, word, c)
  BY ConcatPlaces
<1>3. /\ m \in Nat /\ n \in Nat /\ w \in Nat
      /\ \A i \in 1..m : c[i] = text[i]
      /\ \A i \in 1..w : c[m + i] = word[i]
  BY <1>2 DEF Joined
<1>4. Len(Pattern(name)) = n + 4
  BY PatternPlaces, Zenon
<1>5. ASSUME NEW i \in Int, i <= m, Matches(text, i, name) PROVE i + n + 3 <= m
  BY <1>5, MatchPlaces
<1>6. ASSUME NEW i \in Int, Matches(word, i, name) PROVE i >= 1
  BY <1>6, MatchPlaces
<1> HIDE DEF c, m, w, n
<1>7. ASSUME NEW i \in 1..m PROVE Piece(c, i, name, value) = Piece(text, i, name, value)
  <2>1. i \in Int /\ i <= m /\ \A k \in 1..(n + 3) : i - k \in Int /\ i - k <= m
    BY <1>3
  <2>2. Matches(c, i, name) <=> Matches(text, i, name)
    BY <1>1, <2>1
  <2>3. \A k \in 1..(n + 3) : Matches(c, i - k, name) <=> Matches(text, i - k, name)
    BY <1>1, <2>1
  <2>4. (n + 4) - 1 = n + 3
    BY <1>3
  <2>5. Inside(c, i, name) <=> Inside(text, i, name)
    BY <1>4, <2>3, <2>4 DEF Inside
  <2> QED BY <1>3, <2>2, <2>5 DEF Piece
<1>8. ASSUME NEW i \in 1..w PROVE Piece(c, m + i, name, value) = Piece(word, i, name, value)
  <2>1. i \in Int /\ i >= 1 /\ \A k \in 1..(n + 3) : i - k \in Int /\ (m + i) - k = m + (i - k)
    BY <1>3
  <2>2. Matches(c, m + i, name) <=> Matches(word, i, name)
    BY <1>1, <2>1
  <2>3. ASSUME NEW k \in 1..(n + 3) PROVE Matches(c, (m + i) - k, name) <=> Matches(word, i - k, name)
    <3>1. CASE i - k >= 1
      BY <1>1, <2>1, <3>1
    <3>2. CASE ~(i - k >= 1)
      <4>1. ~Matches(word, i - k, name)
        BY <1>6, <2>1, <3>2
      <4>2. (m + i) - k \in Int /\ (m + i) - k <= m /\ ~((m + i) - k + n + 3 <= m)
        BY <1>3, <2>1, <3>2
      <4>3. ~Matches(text, (m + i) - k, name)
        BY <1>5, <4>2
      <4> QED BY <1>1, <4>1, <4>2, <4>3
    <3> QED BY <3>1, <3>2
  <2>4. (n + 4) - 1 = n + 3
    BY <1>3
  <2>5. Inside(c, m + i, name) <=> Inside(word, i, name)
    BY <1>4, <2>3, <2>4 DEF Inside
  <2> QED BY <1>3, <2>2, <2>5 DEF Piece
<1> QED BY <1>7, <1>8 DEF c, m, w

LEMMA SubstituteConcat ==
  ASSUME NEW name \in Seq(Plain), NEW text \in Seq(Chars), NEW word \in Seq(Chars), NEW value \in Seq(Chars),
         Apart(text, word, name)
  PROVE  Substitute(text \o word, name, value) = Substitute(text, name, value) \o Substitute(word, name, value)
<1> DEFINE c == text \o word
           m == Len(text)
           w == Len(word)
           p == Pieces(text, name, value)
           q == Pieces(word, name, value)
           r == Pieces(c, name, value)
<1>1. c \in Seq(Chars) /\ Len(c) = m + w /\ m \in Nat /\ w \in Nat
  <2>1. Joined(Chars, text, word, c)
    BY ConcatPlaces
  <2> QED BY <2>1 DEF Joined
<1>2. /\ \A i \in 1..m : Piece(c, i, name, value) = Piece(text, i, name, value)
      /\ \A i \in 1..w : Piece(c, m + i, name, value) = Piece(word, i, name, value)
  BY PieceApart
<1>3. /\ p \in Seq(Seq(Chars)) /\ Len(p) = m /\ \A i \in 1..m : p[i] = Piece(text, i, name, value)
      /\ Substitute(text, name, value) = FlattenSeq(p)
  BY PiecesTyped, Zenon
<1>4. /\ q \in Seq(Seq(Chars)) /\ Len(q) = w /\ \A i \in 1..w : q[i] = Piece(word, i, name, value)
      /\ Substitute(word, name, value) = FlattenSeq(q)
  BY PiecesTyped, Zenon
<1>5. /\ r \in Seq(Seq(Chars)) /\ Len(r) = Len(c) /\ \A i \in 1..Len(c) : r[i] = Piece(c, i, name, value)
      /\ Substitute(c, name, value) = FlattenSeq(r)
  BY <1>1, PiecesTyped, Zenon
<1> HIDE DEF c, m, w, p, q, r
<1> DEFINE s == p \o q
<1>6. Joined(Seq(Chars), p, q, s)
  BY <1>3, <1>4, ConcatPlaces
<1>7. FlattenSeq(s) = FlattenSeq(p) \o FlattenSeq(q)
  BY <1>3, <1>4, FlattenConcat
<1> HIDE DEF s
<1>8. s \in Seq(Seq(Chars)) /\ Len(s) = m + w /\ Len(r) = m + w
  BY <1>1, <1>3, <1>4, <1>5, <1>6 DEF Joined
<1>9. ASSUME NEW i \in 1..(m + w) PROVE s[i] = r[i]
  <2>1. r[i] = Piece(c, i, name, value)
    BY <1>1, <1>5
  <2>2. CASE i \in 1..m
    BY <1>2, <1>3, <1>6, <2>1, <2>2 DEF Joined
  <2>3. CASE i \notin 1..m
    <3>1. PICK k \in 1..w : i = m + k
      <4>1. i - m \in 1..w /\ i = m + (i - m)
        BY <1>1, <2>3
      <4> QED BY <4>1
    <3>2. s[m + k] = q[k]
      BY <1>3, <1>4, <1>6 DEF Joined
    <3> QED BY <1>2, <1>4, <2>1, <3>1, <3>2
  <2> QED BY <2>2, <2>3
<1>10. s = r
  BY <1>5, <1>8, <1>9, SeqEqual
<1> QED BY <1>3, <1>4, <1>5, <1>7, <1>10 DEF c

LEMMA NothingToReplace ==
  ASSUME NEW text \in Seq(Chars), NEW name, NEW value \in Seq(Chars), \A i \in Int : ~Matches(text, i, name)
  PROVE  Substitute(text, name, value) = text
<1>1. Len(text) \in Nat /\ DOMAIN text = 1..Len(text)
  OBVIOUS
<1>2. ASSUME NEW i \in DOMAIN text, NEW k \in 1..(Len(Pattern(name)) - 1) PROVE ~Matches(text, i - k, name)
  BY <1>1
<1>3. \A i \in DOMAIN text : Piece(text, i, name, value) = <<text[i]>>
  BY <1>1, <1>2 DEF Piece, Inside
<1>4. Pieces(text, name, value) = [i \in DOMAIN text |-> <<text[i]>>]
  BY <1>3 DEF Pieces
<1>5. FlattenSeq([i \in DOMAIN text |-> <<text[i]>>]) = text
  BY FlattenSingles
<1>6. Substitute(text, name, value) = FlattenSeq(Pieces(text, name, value))
  BY PiecesTyped
<1> QED BY <1>4, <1>5, <1>6

\* {{t}} contains {{name}} only if t is name.
LEMMA MatchInPattern ==
  ASSUME NEW name \in Seq(Plain), NEW t \in Seq(Plain), NEW i \in Int, Matches(Pattern(t), i, name)
  PROVE  i = 1 /\ t = name
<1> DEFINE n == Len(name)
           m == Len(t)
           p == Pattern(name)
           q == Pattern(t)
<1>1. /\ n \in Nat /\ p[1] = LBrace /\ p[2] = LBrace /\ p[n + 3] = RBrace
      /\ \A j \in 1..n : p[j + 2] = name[j] /\ name[j] \in Plain
  BY PatternPlaces, Zenon
<1>2. /\ m \in Nat /\ q \in Seq(Chars) /\ Len(q) = m + 4 /\ q[m + 3] = RBrace
      /\ \A j \in 1..m : q[j + 2] = t[j] /\ t[j] \in Plain
      /\ \A j \in 3..(m + 4) : q[j] # LBrace
  BY PatternPlaces, Zenon
<1>3. RBrace \notin Plain
  BY DEF Plain
<1> HIDE DEF q
<1>4. /\ \A j \in 1..(n + 4) : i + j - 1 \in 1..(m + 4) /\ q[i + j - 1] = p[j]
      /\ i \in 1..(m + 4)
  <2>1. Matches(q, i, name)
    BY DEF q
  <2> QED BY <1>2, <2>1, MatchPlaces
<1> HIDE DEF n, m, p
<1>5. i = 1
  <2>1. 2 \in 1..(n + 4) /\ i + 2 - 1 = i + 1 /\ (i # 1 => i + 1 \in 3..(m + 4))
    BY <1>1, <1>2, <1>4
  <2> QED BY <1>1, <1>2, <1>4, <2>1
<1>6. \A j \in 1..(n + 4) : j \in 1..(m + 4) /\ q[j] = p[j]
  <2> SUFFICES ASSUME NEW j \in 1..(n + 4) PROVE j \in 1..(m + 4) /\ q[j] = p[j]
    OBVIOUS
  <2>1. i + j - 1 = j
    BY <1>1, <1>5
  <2> QED BY <1>4, <2>1
<1>7. n + 4 <= m + 4
  <2>1. n + 4 \in 1..(n + 4)
    BY <1>1
  <2>2. n + 4 \in 1..(m + 4)
    BY <1>6, <2>1
  <2> QED BY <1>1, <1>2, <2>2
<1>8. n = m
  <2> SUFFICES ASSUME n # m PROVE FALSE
    OBVIOUS
  <2>1. n + 1 \in 1..m /\ (n + 1) + 2 = n + 3 /\ n + 3 \in 1..(n + 4)
    BY <1>1, <1>2, <1>7
  <2>2. q[n + 3] = t[n + 1] /\ t[n + 1] \in Plain
    BY <1>2, <2>1
  <2> QED BY <1>1, <1>3, <1>6, <2>1, <2>2
<1>9. \A j \in 1..n : t[j] = name[j]
  <2> SUFFICES ASSUME NEW j \in 1..n PROVE t[j] = name[j]
    OBVIOUS
  <2>1. j + 2 \in 1..(n + 4) /\ j \in 1..m
    BY <1>1, <1>8
  <2>2. q[j + 2] = p[j + 2]
    BY <1>6, <2>1
  <2>3. q[j + 2] = t[j]
    BY <1>2, <2>1
  <2>4. p[j + 2] = name[j]
    BY <1>1
  <2> QED BY <2>2, <2>3, <2>4
<1>10. t = name
  BY <1>8, <1>9, SeqEqual DEF n, m
<1> QED BY <1>5, <1>10

\* {{name}} itself becomes the value.
LEMMA SubstituteSelf ==
  ASSUME NEW name \in Seq(Plain), NEW value \in Seq(Chars)
  PROVE  Substitute(Pattern(name), name, value) = value
<1> DEFINE q == Pattern(name)
           n == Len(name)
           p == Pieces(q, name, value)
<1>1. n \in Nat /\ q \in Seq(Chars) /\ Len(q) = n + 4
  BY PatternPlaces, Zenon
<1>2. Matches(q, 1, name)
  <2>1. \A j \in 1..(n + 4) : 1 + j - 1 \in 1..Len(q) /\ q[1 + j - 1] = Pattern(name)[j]
    <3> SUFFICES ASSUME NEW j \in 1..(n + 4) PROVE 1 + j - 1 \in 1..Len(q) /\ q[1 + j - 1] = Pattern(name)[j]
      OBVIOUS
    <3>1. 1 + j - 1 = j
      BY <1>1
    <3> QED BY <1>1, <3>1
  <2> HIDE DEF q
  <2>2. Matches(q, 1, name) <=>
          \A j \in 1..(Len(name) + 4) : 1 + j - 1 \in 1..Len(q) /\ q[1 + j - 1] = Pattern(name)[j]
    <3>1. 1 \in Int
      OBVIOUS
    <3> QED BY <1>1, <3>1, MatchPlaces, Zenon
  <2> QED BY <2>1, <2>2, Zenon
<1>3. ASSUME NEW i \in 2..(n + 4) PROVE Piece(q, i, name, value) = <<>>
  <2>1. ~Matches(q, i, name)
    BY <1>1, MatchInPattern
  <2>2. i - 1 \in 1..((n + 4) - 1) /\ i - (i - 1) = 1
    BY <1>1
  <2>3. Inside(q, i, name)
    BY <1>1, <1>2, <2>2 DEF Inside
  <2> QED BY <2>1, <2>3 DEF Piece
<1>4. Piece(q, 1, name, value) = value
  BY <1>2 DEF Piece
<1> HIDE DEF q
<1>5. /\ p \in Seq(Seq(Chars)) /\ Len(p) = Len(q)
      /\ \A i \in 1..Len(q) : p[i] = Piece(q, i, name, value)
      /\ Substitute(q, name, value) = FlattenSeq(p)
  BY <1>1, PiecesTyped
<1> HIDE DEF p
<1>6. p # <<>> /\ p[1] = value /\ \A i \in 2..Len(p) : p[i] = <<>>
  <2>1. Len(p) = n + 4 /\ 1 \in 1..Len(q) /\ \A i \in 2..Len(p) : i \in 1..Len(q) /\ i \in 2..(n + 4)
    BY <1>1, <1>5
  <2>2. p # <<>>
    BY <1>1, <2>1
  <2>3. p[1] = value
    BY <1>4, <1>5, <2>1
  <2>4. \A i \in 2..Len(p) : p[i] = <<>>
    BY <1>3, <1>5, <2>1
  <2> QED BY <2>2, <2>3, <2>4
<1>7. FlattenSeq(p) = p[1]
  BY <1>5, <1>6, FlattenFirst
<1> QED BY <1>5, <1>6, <1>7 DEF q

LEMMA SubstituteWord ==
  ASSUME NEW name \in Names, NEW value \in Seq(Chars), NEW t \in Tokens
  PROVE  Substitute(Word(t), name, value) = IF t = name THEN value ELSE Word(t)
<1>1. name \in Seq(Plain) /\ Word(t) \in Seq(Chars)
  BY TextsAssumption, WordTyped
<1>2. CASE t = name
  BY <1>1, <1>2, SubstituteSelf DEF Word
<1>3. CASE t # name
  <2>1. ASSUME NEW i \in Int, Matches(Word(t), i, name) PROVE FALSE
    <3>1. CASE t \in Names
      <4>1. t \in Seq(Plain) /\ Word(t) = Pattern(t)
        BY <3>1, TextsAssumption DEF Word
      <4> QED BY <1>1, <1>3, <2>1, <4>1, MatchInPattern
    <3>2. CASE t \notin Names
      <4>1. Len(Word(t)) = 1
        BY <3>2 DEF Word
      <4>2. i \in 1..Len(Word(t)) /\ i + Len(name) + 3 <= Len(Word(t)) /\ Len(name) \in Nat
        BY <1>1, <2>1, MatchPlaces
      <4> QED BY <4>1, <4>2
    <3> QED BY <3>1, <3>2
  <2>2. Substitute(Word(t), name, value) = Word(t)
    BY <1>1, <2>1, NothingToReplace
  <2> QED BY <1>3, <2>2
<1> QED BY <1>2, <1>3

\* One expansion after another is an expansion.
Composed(e, d, c) == \A x \in Tokens : c[x] = Expand(e[x], d)

LEMMA ExpandTwice ==
  ASSUME NEW V, NEW e, Spelling(Tokens, Tokens, e), NEW d, Spelling(Tokens, V, d),
         NEW c, Spelling(Tokens, V, c), Composed(e, d, c), NEW text \in Seq(Tokens)
  PROVE  Expand(Expand(text, e), d) = Expand(text, c)
<1>0. e \in [Tokens -> Seq(Tokens)] /\ d \in [Tokens -> Seq(V)] /\ c \in [Tokens -> Seq(V)]
  BY DEF Spelling
<1> DEFINE Holds(s) == Expand(Expand(s, e), d) = Expand(s, c)
           Bad == {s \in Seq(Tokens) : ~Holds(s)}
<1>1. Holds(<<>>)
  BY ExpandEmpty
<1>2. ASSUME NEW s \in Seq(Tokens), NEW x \in Tokens, Holds(s) PROVE Holds(Append(s, x))
  <2>1. Expand(Append(s, x), e) = Expand(s, e) \o e[x] /\ Expand(Append(s, x), c) = Expand(s, c) \o c[x]
    <3>1. Expand(Append(s, x), e) = Expand(s, e) \o e[x]
      BY ExpandAppend
    <3>2. Expand(Append(s, x), c) = Expand(s, c) \o c[x]
      BY ExpandAppend
    <3> QED BY <3>1, <3>2
  <2>2. Expand(s, e) \in Seq(Tokens) /\ e[x] \in Seq(Tokens)
    BY <1>0, ExpandType
  <2>3. Expand(Expand(s, e) \o e[x], d) = Expand(Expand(s, e), d) \o Expand(e[x], d)
    <3> DEFINE u == Expand(s, e)
               w == e[x]
    <3>1. u \in Seq(Tokens) /\ w \in Seq(Tokens)
      BY <2>2
    <3> HIDE DEF u, w, Holds, Bad
    <3>3. Spelling(Tokens, V, d)
      OBVIOUS
    <3>2. Expand(u \o w, d) = Expand(u, d) \o Expand(w, d)
      BY ONLY <3>1, <3>3, ExpandConcat
    <3> QED BY <3>2 DEF u, w
  <2> QED BY <1>2, <2>1, <2>3 DEF Composed
<1>3. \A s : s \in Bad <=> s \in Seq(Tokens) /\ ~Holds(s)
  OBVIOUS
<1> HIDE DEF Holds, Bad
<1>4. Bad = {}
  <2> SUFFICES ASSUME Bad # {} PROVE FALSE
    OBVIOUS
  <2>1. Bad \subseteq Seq(Tokens) /\ <<>> \notin Bad
    BY <1>1, <1>3
  <2>2. PICK s \in Seq(Tokens), x \in Tokens : Append(s, x) \in Bad /\ s \notin Bad
    BY <2>1, ShortestSeq
  <2> QED BY <1>2, <1>3, <2>2
<1>5. Holds(text)
  BY <1>3, <1>4
<1> QED BY <1>5 DEF Holds

-----------------------------------------------------------------------------
(* Spelling *)

Words == [t \in Tokens |-> Word(t)]

LEMMA WordsTyped == Spelling(Tokens, Chars, Words)
  BY WordTyped DEF Words, Spelling

LEMMA SpellExpands == ASSUME NEW u \in Seq(Tokens) PROVE Spell(u) = Expand(u, Words)
<1>1. \A i \in DOMAIN u : u[i] \in Tokens
  OBVIOUS
<1>2. \A i \in DOMAIN u : Words[u[i]] = Word(u[i])
  BY <1>1 DEF Words
<1>3. [i \in DOMAIN u |-> Words[u[i]]] = [i \in DOMAIN u |-> Word(u[i])]
  BY <1>2
<1> QED BY <1>3 DEF Spell, Expand

LEMMA SpellTyped == ASSUME NEW u \in Seq(Tokens) PROVE Spell(u) \in Seq(Chars)
<1>1. Expand(u, Words) \in Seq(Chars)
  BY WordsTyped, ExpandType
<1> QED BY <1>1, SpellExpands

LEMMA SpellAppend ==
  ASSUME NEW u \in Seq(Tokens), NEW t \in Tokens
  PROVE  Spell(Append(u, t)) = Spell(u) \o Word(t)
<1>1. Append(u, t) \in Seq(Tokens)
  OBVIOUS
<1>2. Expand(Append(u, t), Words) = Expand(u, Words) \o Words[t]
  BY WordsTyped, ExpandAppend
<1>3. Words[t] = Word(t)
  BY DEF Words
<1> QED BY <1>1, <1>2, <1>3, SpellExpands

LEMMA SpellConcat ==
  ASSUME NEW u \in Seq(Tokens), NEW v \in Seq(Tokens)
  PROVE  Spell(u \o v) = Spell(u) \o Spell(v)
<1>1. u \o v \in Seq(Tokens)
  OBVIOUS
<1>2. Expand(u \o v, Words) = Expand(u, Words) \o Expand(v, Words)
  BY WordsTyped, ExpandConcat
<1> QED BY <1>1, <1>2, SpellExpands

LEMMA PlainIsWritten == ASSUME NEW v \in Seq(Plain) PROVE v \in Seq(Tokens) /\ v \in Seq(Chars)
<1>1. Plain \subseteq Tokens /\ Plain \subseteq Chars
  BY DEF Tokens, Plain
<1>2. v \in Seq(Tokens)
  BY <1>1
<1>3. v \in Seq(Chars)
  BY <1>1
<1> QED BY <1>2, <1>3

\* Plain text is written as it is.
LEMMA SpellPlain == ASSUME NEW v \in Seq(Plain) PROVE Spell(v) = v
<1>1. \A i \in DOMAIN v : v[i] \in Plain
  OBVIOUS
<1>2. \A x \in Plain : x \notin Names
  BY TextsAssumption DEF Plain
<1>3. \A i \in DOMAIN v : Word(v[i]) = <<v[i]>>
  BY <1>1, <1>2 DEF Word
<1>4. [i \in DOMAIN v |-> Word(v[i])] = [i \in DOMAIN v |-> <<v[i]>>]
  BY <1>3
<1>5. FlattenSeq([i \in DOMAIN v |-> <<v[i]>>]) = v
  BY FlattenSingles
<1> QED BY <1>4, <1>5 DEF Spell

LEMMA SpellOne == ASSUME NEW t \in Tokens PROVE Spell(<<t>>) = Word(t)
<1>1. <<>> \in Seq(Tokens) /\ Append(<<>>, t) = <<t>>
  OBVIOUS
<1>2. Spell(<<t>>) = Spell(<<>>) \o Word(t)
  BY <1>1, SpellAppend
<1>3. Spell(<<>>) = <<>>
  BY <1>1, SpellExpands, ExpandEmpty
<1>4. <<>> \o Word(t) = Word(t)
  BY WordTyped, ConcatEmptySeq
<1> QED BY <1>2, <1>3, <1>4

-----------------------------------------------------------------------------
(* Rendering *)

\* One variable put in, and the variables of S put in at once.
Replacing(name, value) == [t \in Tokens |-> IF t = name THEN value ELSE <<t>>]
Together(S, variables) == [t \in Tokens |-> IF t \in S THEN variables[t] ELSE <<t>>]

LEMMA ReplacingTyped ==
  ASSUME NEW name, NEW value \in Seq(Tokens)
  PROVE  Spelling(Tokens, Tokens, Replacing(name, value))
<1>1. \A t \in Tokens : <<t>> \in Seq(Tokens)
  OBVIOUS
<1> QED BY <1>1 DEF Replacing, Spelling

\* ReplaceAll of {{name}} by a plain value replaces the placeholder in a template
\* that is written with placeholders and plain characters, and nothing else.
LEMMA SubstituteSpelled ==
  ASSUME NEW u \in Seq(Tokens), NEW name \in Names, NEW value \in Seq(Plain)
  PROVE  Substitute(Spell(u), name, value) = Spell(Expand(u, Replacing(name, value)))
<1> DEFINE d == Replacing(name, value)
           Holds(s) == Substitute(Spell(s), name, value) = Spell(Expand(s, d))
           Bad == {s \in Seq(Tokens) : ~Holds(s)}
<1>1. value \in Seq(Tokens) /\ value \in Seq(Chars) /\ name \in Seq(Plain)
  BY PlainIsWritten, TextsAssumption
<1>2. Spelling(Tokens, Tokens, d)
  BY <1>1, ReplacingTyped
<1>3. ASSUME NEW t \in Tokens PROVE Spell(d[t]) = Substitute(Word(t), name, value)
  <2>1. Substitute(Word(t), name, value) = IF t = name THEN value ELSE Word(t)
    BY <1>1, SubstituteWord
  <2>2. d[t] = IF t = name THEN value ELSE <<t>>
    BY DEF Replacing
  <2> QED BY <2>1, <2>2, SpellPlain, SpellOne
<1> HIDE DEF d
<1>4. Holds(<<>>)
  <2>1. <<>> \in Seq(Tokens) /\ <<>> \in Seq(Plain)
    OBVIOUS
  <2>2. Spell(<<>>) = <<>>
    BY <2>1, SpellPlain
  <2>3. DOMAIN <<>> = {} /\ <<>> \in Seq(Chars)
    OBVIOUS
  <2>4. Pieces(<<>>, name, value) = <<>>
    <3>1. Pieces(<<>>, name, value) \in Seq(Seq(Chars)) /\ Len(Pieces(<<>>, name, value)) = Len(<<>>)
      BY <1>1, <2>3, PiecesTyped
    <3> QED BY <3>1
  <2>5. Substitute(<<>>, name, value) = <<>>
    BY <1>1, <2>3, <2>4, PiecesTyped, FlattenEmpty
  <2>6. Expand(<<>>, d) = <<>>
    BY ExpandEmpty
  <2> QED BY <2>2, <2>5, <2>6
<1>5. ASSUME NEW s \in Seq(Tokens), NEW t \in Tokens, Holds(s) PROVE Holds(Append(s, t))
  <2>1. Spell(Append(s, t)) = Spell(s) \o Word(t) /\ Spell(s) \in Seq(Chars) /\ Word(t) \in Seq(Chars)
    BY SpellAppend, SpellTyped, WordTyped
  <2>2. Substitute(Spell(s) \o Word(t), name, value)
           = Substitute(Spell(s), name, value) \o Substitute(Word(t), name, value)
    <3>1. Apart(Spell(s), Word(t), name)
      BY <1>1, <2>1, WordApart
    <3> QED BY <1>1, <2>1, <3>1, SubstituteConcat
  <2>3. Expand(Append(s, t), d) = Expand(s, d) \o d[t] /\ Expand(s, d) \in Seq(Tokens) /\ d[t] \in Seq(Tokens)
    <3>1. Expand(Append(s, t), d) = Expand(s, d) \o d[t]
      BY <1>2, ExpandAppend
    <3>2. Expand(s, d) \in Seq(Tokens)
      BY <1>2, ExpandType
    <3> QED BY <1>2, <3>1, <3>2 DEF Spelling
  <2>4. Spell(Expand(s, d) \o d[t]) = Spell(Expand(s, d)) \o Spell(d[t])
    BY <2>3, SpellConcat
  <2> QED BY <1>3, <1>5, <2>1, <2>2, <2>3, <2>4
<1>6. \A s : s \in Bad <=> s \in Seq(Tokens) /\ ~Holds(s)
  OBVIOUS
<1> HIDE DEF Holds, Bad
<1>7. Bad = {}
  <2> SUFFICES ASSUME Bad # {} PROVE FALSE
    OBVIOUS
  <2>1. Bad \subseteq Seq(Tokens) /\ <<>> \notin Bad
    BY <1>4, <1>6
  <2>2. PICK s \in Seq(Tokens), t \in Tokens : Append(s, t) \in Bad /\ s \notin Bad
    BY <2>1, ShortestSeq
  <2> QED BY <1>5, <1>6, <2>2
<1>8. Holds(u)
  BY <1>6, <1>7
<1> QED BY <1>8 DEF Holds, d

LEMMA PlainValue ==
  ASSUME NEW variables \in Variables, NoBraces(variables), NEW name \in Given(variables)
  PROVE  name \in Names /\ variables[name] \in Seq(Plain)
<1>1. name \in Names /\ variables[name] \in Seq(Chars)
  BY DEF Given, Variables
<1>2. \A i \in DOMAIN variables[name] : variables[name][i] \in Plain
  BY DEF NoBraces, Range
<1> DEFINE v == variables[name]
<1>3. v \in Seq(Chars) /\ \A i \in DOMAIN v : v[i] \in Plain
  BY <1>1, <1>2
<1> HIDE DEF v
<1>4. v \in Seq(Plain)
  <2>1. Len(v) \in Nat /\ v \in [1..Len(v) -> Plain]
    BY <1>3
  <2> QED BY <2>1, SeqDef
<1> QED BY <1>1, <1>4 DEF v

LEMMA TogetherTyped ==
  ASSUME NEW variables \in Variables, NoBraces(variables), NEW S \in SUBSET Given(variables)
  PROVE  Spelling(Tokens, Tokens, Together(S, variables))
<1>1. \A t \in Tokens : <<t>> \in Seq(Tokens)
  OBVIOUS
<1>2. \A t \in S : variables[t] \in Seq(Tokens)
  BY PlainValue, PlainIsWritten
<1> QED BY <1>1, <1>2 DEF Together, Spelling

LEMMA AllAtOnceSpells ==
  ASSUME NEW source \in Seq(Tokens), NEW variables \in Variables, NoBraces(variables)
  PROVE  AllAtOnce(source, variables) = Spell(Expand(source, Together(Given(variables), variables)))
<1> DEFINE e == Together(Given(variables), variables)
           c == [t \in Tokens |-> IF t \in Given(variables) THEN variables[t] ELSE Word(t)]
<1>1. Spelling(Tokens, Tokens, e)
  BY TogetherTyped
<1>2. \A t \in Tokens : c[t] = Spell(e[t]) /\ c[t] \in Seq(Chars)
  <2> SUFFICES ASSUME NEW t \in Tokens PROVE c[t] = Spell(e[t]) /\ c[t] \in Seq(Chars)
    OBVIOUS
  <2>1. CASE t \in Given(variables)
    <3>1. e[t] = variables[t] /\ c[t] = variables[t]
      BY <2>1 DEF Together
    <3>2. variables[t] \in Seq(Plain)
      BY <2>1, PlainValue
    <3> QED BY <3>1, <3>2, SpellPlain, PlainIsWritten
  <2>2. CASE t \notin Given(variables)
    <3>1. e[t] = <<t>> /\ c[t] = Word(t)
      BY <2>2 DEF Together
    <3> QED BY <3>1, SpellOne, WordTyped
  <2> QED BY <2>1, <2>2
<1>3. Spelling(Tokens, Chars, c)
  BY <1>2 DEF Spelling
<1>4. \A i \in DOMAIN source : source[i] \in Tokens
  OBVIOUS
<1>5. AllAtOnce(source, variables) = Expand(source, c)
  <2>1. [i \in DOMAIN source |-> c[source[i]]]
          = [i \in DOMAIN source |-> IF source[i] \in Given(variables) THEN variables[source[i]]
                                                                       ELSE Word(source[i])]
    BY <1>4
  <2> QED BY <2>1 DEF AllAtOnce, Expand
<1> HIDE DEF e, c
<1>6. Expand(source, e) \in Seq(Tokens)
  BY <1>1, ExpandType
<1>7. \A t \in Tokens : c[t] = Expand(e[t], Words)
  BY <1>1, <1>2, SpellExpands DEF Spelling
<1>8. Expand(Expand(source, e), Words) = Expand(source, c)
  <2>1. Composed(e, Words, c)
    BY <1>7 DEF Composed
  <2> QED BY <1>1, <1>3, <2>1, WordsTyped, ExpandTwice
<1> QED BY <1>5, <1>6, <1>8, SpellExpands DEF e

\* A value without braces is left alone by the replacements that come after its
\* own.
LEMMA OneMoreVariable ==
  ASSUME NEW variables \in Variables, NoBraces(variables), NEW S \in SUBSET Given(variables),
         NEW name \in Given(variables) \ S, NEW t \in Tokens
  PROVE  Together(S \cup {name}, variables)[t] =
            Expand(Together(S, variables)[t], Replacing(name, variables[name]))
<1> DEFINE d == Replacing(name, variables[name])
<1>1. variables[name] \in Seq(Tokens) /\ name \in Names
  BY PlainValue, PlainIsWritten
<1>2. Spelling(Tokens, Tokens, d)
  BY <1>1, ReplacingTyped
<1>3. \A x \in Tokens : d[x] = IF x = name THEN variables[name] ELSE <<x>>
  BY DEF Replacing
<1> HIDE DEF d
<1>4. CASE t \in S
  <2>1. variables[t] \in Seq(Plain) /\ variables[t] \in Seq(Tokens)
    BY <1>4, PlainValue, PlainIsWritten
  <2>2. \A i \in DOMAIN variables[t] : d[variables[t][i]] = <<variables[t][i]>>
    <3> SUFFICES ASSUME NEW i \in DOMAIN variables[t] PROVE d[variables[t][i]] = <<variables[t][i]>>
      OBVIOUS
    <3>1. variables[t][i] \in Tokens /\ variables[t][i] \in Plain
      BY <2>1
    <3>2. variables[t][i] # name
      BY <1>1, <3>1, TextsAssumption DEF Plain
    <3> QED BY <1>3, <3>1, <3>2
  <2>3. Expand(variables[t], d) = variables[t]
    <3> DEFINE v == variables[t]
    <3>1. v \in Seq(Tokens) /\ \A i \in DOMAIN v : d[v[i]] = <<v[i]>>
      BY <2>1, <2>2
    <3> HIDE DEF v
    <3>2. Expand(v, d) = v
      BY <1>2, <3>1, ExpandSelf
    <3> QED BY <3>2 DEF v
  <2>4. Together(S, variables)[t] = variables[t] /\ Together(S \cup {name}, variables)[t] = variables[t]
    BY <1>4 DEF Together
  <2> QED BY <2>3, <2>4 DEF d
<1>5. CASE t \notin S
  <2>1. Together(S, variables)[t] = <<t>>
    BY <1>5 DEF Together
  <2>2. Expand(<<t>>, d) = d[t]
    <3>1. <<>> \in Seq(Tokens) /\ Append(<<>>, t) = <<t>> /\ d[t] \in Seq(Tokens)
      BY <1>2 DEF Spelling
    <3>2. Expand(<<t>>, d) = Expand(<<>>, d) \o d[t]
      <4> DEFINE u == <<>>
      <4>2. u \in Seq(Tokens) /\ t \in Tokens
        BY <3>1
      <4> HIDE DEF u
      <4>3. Expand(Append(u, t), d) = Expand(u, d) \o d[t]
        BY ONLY <1>2, <4>2, ExpandAppend
      <4>1. Expand(Append(<<>>, t), d) = Expand(<<>>, d) \o d[t]
        BY <4>3 DEF u
      <4> QED BY <3>1, <4>1
    <3>3. <<>> \o d[t] = d[t]
      BY <3>1, ConcatEmptySeq
    <3> QED BY <3>2, <3>3, ExpandEmpty
  <2>3. Together(S \cup {name}, variables)[t] = d[t]
    BY <1>3, <1>5 DEF Together
  <2> QED BY <2>1, <2>2, <2>3 DEF d
<1> QED BY <1>4, <1>5

\* What Render computes for the variables in S, from what f has for smaller sets.
AfterStep(text, variables, f, S) ==
    IF S = {} THEN {text}
    ELSE UNION {{Substitute(rendered, name, variables[name]) : rendered \in f[S \ {name}]} : name \in S}

LEMMA AfterSame ==
  ASSUME NEW text, NEW variables, NEW f, NEW g, NEW S, \A name \in S : f[S \ {name}] = g[S \ {name}]
  PROVE  AfterStep(text, variables, f, S) = AfterStep(text, variables, g, S)
<1> DEFINE A(h, name) == {Substitute(rendered, name, variables[name]) : rendered \in h[S \ {name}]}
<1>1. \A name \in S : A(f, name) = A(g, name)
  OBVIOUS
<1> HIDE DEF A
<1>2. {A(f, name) : name \in S} = {A(g, name) : name \in S}
  BY <1>1
<1>3. UNION {A(f, name) : name \in S} = UNION {A(g, name) : name \in S}
  BY <1>2
<1> QED BY <1>3 DEF AfterStep, A

LEMMA Smaller ==
  ASSUME NEW S \in SUBSET Names
  PROVE  /\ Cardinality(S) \in Nat /\ Cardinality(S) <= Cardinality(Names) /\ (Cardinality(S) = 0 => S = {})
         /\ \A name \in S : S \ {name} \in SUBSET Names /\ Cardinality(S \ {name}) = Cardinality(S) - 1
<1>1. IsFiniteSet(Names) /\ IsFiniteSet(S) /\ Cardinality(S) <= Cardinality(Names)
  BY TextsAssumption, FS_Subset
<1>2. Cardinality(S) \in Nat
  BY <1>1, FS_CardinalityType
<1>3. Cardinality(S) = 0 => S = {}
  BY <1>1, FS_EmptySet
<1>4. \A name \in S : Cardinality(S \ {name}) = Cardinality(S) - 1
  BY <1>1, FS_RemoveElement
<1> QED BY <1>1, <1>2, <1>3, <1>4

\* There is a function as Render defines it.
LEMMA AfterSome ==
  ASSUME NEW text, NEW variables
  PROVE  \E f : f = [S \in SUBSET Names |-> AfterStep(text, variables, f, S)]
<1> DEFINE St(g, S) == AfterStep(text, variables, g, S)
           Upto(g, k) == \A S \in SUBSET Names : Cardinality(S) <= k => g[S] = St(g, S)
           Good(k) == \E g : Upto(g, k)
           Bad == {k \in Nat : ~Good(k)}
<1>1. Good(0)
  <2> DEFINE g == [S \in SUBSET Names |-> {text}]
  <2>1. ASSUME NEW S \in SUBSET Names, Cardinality(S) <= 0 PROVE g[S] = St(g, S)
    <3>1. S = {}
      BY <2>1, Smaller
    <3> QED BY <3>1 DEF AfterStep
  <2> HIDE DEF g
  <2>2. Upto(g, 0)
    BY <2>1
  <2> QED BY <2>2
<1>2. ASSUME NEW k \in Nat, Good(k) PROVE Good(k + 1)
  <2>1. PICK g : Upto(g, k)
    BY <1>2
  <2> DEFINE h == [S \in SUBSET Names |-> IF Cardinality(S) <= k THEN g[S] ELSE St(g, S)]
  <2>2. \A S \in SUBSET Names : h[S] = IF Cardinality(S) <= k THEN g[S] ELSE St(g, S)
    OBVIOUS
  <2> HIDE DEF h
  <2>3. ASSUME NEW S \in SUBSET Names, Cardinality(S) <= k + 1 PROVE h[S] = St(h, S)
    <3>1. \A name \in S : h[S \ {name}] = g[S \ {name}]
      <4> SUFFICES ASSUME NEW name \in S PROVE h[S \ {name}] = g[S \ {name}]
        OBVIOUS
      <4>1. S \ {name} \in SUBSET Names /\ Cardinality(S \ {name}) = Cardinality(S) - 1 /\ Cardinality(S) \in Nat
        BY Smaller
      <4>2. Cardinality(S \ {name}) <= k
        BY <2>3, <4>1
      <4> QED BY <2>2, <4>1, <4>2
    <3>2. St(h, S) = St(g, S)
      BY <3>1, AfterSame
    <3>3. h[S] = St(g, S)
      <4> HIDE DEF St
      <4> QED BY <2>1, <2>2
    <3> QED BY <3>2, <3>3
  <2>4. Upto(h, k + 1)
    BY <2>3
  <2> QED BY <2>4
<1>3. \A k : k \in Bad <=> k \in Nat /\ ~Good(k)
  OBVIOUS
<1> DEFINE n == Cardinality(Names)
<1>4. n \in Nat
  BY TextsAssumption, FS_CardinalityType
<1> HIDE DEF Good, Bad, n
<1>5. ASSUME Bad # {} PROVE FALSE
  <2>1. PICK k \in Bad : k = 0 \/ k - 1 \notin Bad
    <3>1. Bad \subseteq Nat
      BY <1>3
    <3> QED BY <1>5, <3>1, LeastNat
  <2>2. k \in Nat /\ ~Good(k) /\ k # 0
    BY <1>1, <1>3
  <2>3. k - 1 \in Nat /\ (k - 1) + 1 = k
    BY <2>2
  <2>4. Good(k - 1)
    BY <1>3, <2>1, <2>2, <2>3
  <2> QED BY <1>2, <2>2, <2>3, <2>4
<1>6. Good(n)
  BY <1>3, <1>4, <1>5
<1>7. PICK g : Upto(g, n)
  BY <1>6 DEF Good
<1> DEFINE f == [S \in SUBSET Names |-> g[S]]
<1>8. ASSUME NEW S \in SUBSET Names PROVE g[S] = St(f, S)
  <2>1. g[S] = St(g, S)
    <3>1. Cardinality(S) <= n
      BY Smaller DEF n
    <3> HIDE DEF St
    <3> QED BY <1>7, <3>1
  <2>2. \A name \in S : f[S \ {name}] = g[S \ {name}]
    OBVIOUS
  <2> HIDE DEF f
  <2>3. St(f, S) = St(g, S)
    BY <2>2, AfterSame
  <2> QED BY <2>1, <2>3
<1>9. f = [S \in SUBSET Names |-> St(f, S)]
  <2>1. \A S \in SUBSET Names : g[S] = St(f, S)
    BY <1>8
  <2> HIDE DEF St
  <2> QED BY <2>1
<1> HIDE DEF f
<1> QED BY <1>9

\* The texts Render may have made when the variables in S are put in, for each S.
IsAfter(text, variables, f) ==
    /\ f[{}] = {text}
    /\ \A S \in SUBSET Names : S # {} =>
          \A y : y \in f[S] <=> \E name \in S : \E x \in f[S \ {name}] : y = Substitute(x, name, variables[name])
    /\ Render(text, variables) = f[Given(variables)]

LEMMA RenderSteps ==
  ASSUME NEW text, NEW variables
  PROVE  \E f : IsAfter(text, variables, f)
<1> DEFINE Eq(f) == f = [S \in SUBSET Names |->
                           IF S = {} THEN {text}
                           ELSE UNION {{Substitute(rendered, name, variables[name]) : rendered \in f[S \ {name}]}
                                          : name \in S}]
<1>1. \E f : Eq(f)
  <2>1. PICK f : f = [S \in SUBSET Names |-> AfterStep(text, variables, f, S)]
    BY AfterSome
  <2>2. Eq(f)
    BY <2>1 DEF AfterStep
  <2> QED BY <2>2
<1> DEFINE F == CHOOSE f : Eq(f)
<1>2. Eq(F)
  BY <1>1
<1>3. Render(text, variables) = F[Given(variables)]
  BY DEF Render
<1> HIDE DEF F
<1>4. F[{}] = {text}
  BY <1>2
<1>5. ASSUME NEW S \in SUBSET Names, S # {}, NEW y
      PROVE  y \in F[S] <=> \E name \in S : \E x \in F[S \ {name}] : y = Substitute(x, name, variables[name])
  <2>1. F[S] = UNION {{Substitute(rendered, name, variables[name]) : rendered \in F[S \ {name}]} : name \in S}
    BY <1>2, <1>5
  <2> DEFINE A(name) == {Substitute(rendered, name, variables[name]) : rendered \in F[S \ {name}]}
  <2>2. \A name : y \in A(name) <=> \E x \in F[S \ {name}] : y = Substitute(x, name, variables[name])
    OBVIOUS
  <2>3. F[S] = UNION {A(name) : name \in S}
    BY <2>1
  <2> HIDE DEF A
  <2>4. y \in F[S] <=> \E name \in S : y \in A(name)
    BY <2>3
  <2> QED BY <2>2, <2>4
<1>6. IsAfter(text, variables, F)
  BY <1>3, <1>4, <1>5 DEF IsAfter
<1> QED BY <1>6

LEMMA GivenValue ==
  ASSUME NEW variables \in Variables, NEW name \in Given(variables)
  PROVE  name \in Names /\ variables[name] \in Seq(Chars)
  BY DEF Given, Variables

\* The result of rendering is a text.
LEMMA RenderTyped ==
  ASSUME NEW text \in Seq(Chars), NEW variables \in Variables
  PROVE  Render(text, variables) \subseteq Seq(Chars)
<1> DEFINE G == Given(variables)
<1>1. PICK f : IsAfter(text, variables, f)
  BY RenderSteps
<1>2. G \in SUBSET Names /\ IsFiniteSet(Names)
  BY TextsAssumption DEF Given
<1>3. \A name \in G : variables[name] \in Seq(Chars)
  BY GivenValue
<1> HIDE DEF G
<1> DEFINE Bad == {S \in SUBSET G : ~(f[S] \subseteq Seq(Chars))}
<1>4. ASSUME Bad # {} PROVE FALSE
  <2>1. PICK S \in Bad : \A B \in SUBSET S : B # S => B \notin Bad
    <3>1. Bad \subseteq SUBSET Names
      BY <1>2
    <3> HIDE DEF Bad
    <3> QED BY <1>2, <1>4, <3>1, SmallestMember
  <2>2. S \in SUBSET G /\ S \in SUBSET Names /\ S # {}
    BY <1>1, <1>2 DEF IsAfter
  <2>3. PICK y \in f[S] : y \notin Seq(Chars)
    OBVIOUS
  <2>4. PICK name \in S : \E x \in f[S \ {name}] : y = Substitute(x, name, variables[name])
    <3> HIDE DEF Bad
    <3>1. \A z : z \in f[S] <=> \E name \in S : \E x \in f[S \ {name}] : z = Substitute(x, name, variables[name])
      BY <1>1, <2>2 DEF IsAfter
    <3> QED BY <2>3, <3>1
  <2>5. f[S \ {name}] \subseteq Seq(Chars)
    <3>1. S \ {name} \in SUBSET S /\ S \ {name} # S /\ S \ {name} \in SUBSET G
      BY <2>2
    <3>2. S \ {name} \notin Bad
      <4> HIDE DEF Bad
      <4> QED BY <2>1, <3>1
    <3> QED BY <3>1, <3>2
  <2>6. variables[name] \in Seq(Chars)
    BY <1>3, <2>2
  <2> HIDE DEF Bad
  <2> QED BY <2>3, <2>4, <2>5, <2>6, SubstituteTyped
<1>5. G \notin Bad
  BY <1>4
<1>6. f[G] \subseteq Seq(Chars)
  BY <1>5
<1> QED BY <1>1, <1>6 DEF IsAfter, G

\* One more variable, on the text.
LEMMA OneMoreReplaced ==
  ASSUME NEW source \in Seq(Tokens), NEW variables \in Variables, NoBraces(variables),
         NEW S \in SUBSET Given(variables), NEW name \in S
  PROVE  Substitute(Spell(Expand(source, Together(S \ {name}, variables))), name, variables[name])
            = Spell(Expand(source, Together(S, variables)))
<1> DEFINE e == Together(S \ {name}, variables)
           c == Together(S, variables)
           d == Replacing(name, variables[name])
           value == variables[name]
<1>1. name \in Names /\ value \in Seq(Plain) /\ value \in Seq(Tokens)
  BY PlainValue, PlainIsWritten
<1>2. Spelling(Tokens, Tokens, e) /\ Spelling(Tokens, Tokens, c)
  <2>1. S \ {name} \in SUBSET Given(variables)
    OBVIOUS
  <2> QED BY <2>1, TogetherTyped
<1>3. Spelling(Tokens, Tokens, d)
  BY <1>1, ReplacingTyped
<1>4. Composed(e, d, c)
  <2> SUFFICES ASSUME NEW t \in Tokens PROVE c[t] = Expand(e[t], d)
    BY DEF Composed
  <2> DEFINE R == S \ {name}
  <2>1. R \in SUBSET Given(variables) /\ name \in Given(variables) \ R /\ R \cup {name} = S
    OBVIOUS
  <2> HIDE DEF R, e, c, d, value
  <2>2. Together(R \cup {name}, variables)[t] = Expand(Together(R, variables)[t], Replacing(name, variables[name]))
    BY <2>1, OneMoreVariable
  <2> QED BY <2>1, <2>2 DEF R, e, c, d
<1> HIDE DEF e, c
<1>5. Expand(source, e) \in Seq(Tokens)
  BY <1>2, ExpandType
<1>6. Substitute(Spell(Expand(source, e)), name, value) = Spell(Expand(Expand(source, e), d))
  <2> HIDE DEF value
  <2> QED BY <1>1, <1>5, SubstituteSpelled DEF value
<1> HIDE DEF d, value
<1>7. Expand(Expand(source, e), d) = Expand(source, c)
  <2>1. source \in Seq(Tokens)
    OBVIOUS
  <2> QED BY ONLY <1>2, <1>3, <1>4, <2>1, ExpandTwice
<1> QED BY <1>6, <1>7 DEF e, c, value

\* Template.Render does not depend on the order of the Go map, and gives what the
\* template means, for a template whose only braces are those of its placeholders
\* and values without braces.
THEOREM RenderOrderFree ==
  ASSUME NEW source \in Seq(Tokens), NEW variables \in Variables, NoBraces(variables)
  PROVE  Render(Spell(source), variables) = {AllAtOnce(source, variables)}
<1> DEFINE G == Given(variables)
           T(S) == Spell(Expand(source, Together(S, variables)))
<1>1. PICK f : IsAfter(Spell(source), variables, f)
  BY RenderSteps
<1>2. G \in SUBSET Names /\ IsFiniteSet(Names)
  BY TextsAssumption DEF Given
<1>3. T({}) = Spell(source)
  <2> DEFINE e == Together({}, variables)
  <2>1. Spelling(Tokens, Tokens, e)
    <3>1. {} \in SUBSET Given(variables)
      OBVIOUS
    <3> QED BY <3>1, TogetherTyped
  <2>2. \A i \in DOMAIN source : e[source[i]] = <<source[i]>>
    BY DEF Together
  <2>3. source \in Seq(Tokens)
    OBVIOUS
  <2> HIDE DEF e
  <2>4. Expand(source, e) = source
    BY ONLY <2>1, <2>2, <2>3, ExpandSelf
  <2> QED BY <2>4 DEF e
<1>4. \A S \in SUBSET G : \A name \in S : Substitute(T(S \ {name}), name, variables[name]) = T(S)
  BY OneMoreReplaced
<1>5. T(G) = AllAtOnce(source, variables)
  BY AllAtOnceSpells
<1> HIDE DEF G, T
<1> DEFINE Bad == {S \in SUBSET G : f[S] # {T(S)}}
<1>6. ASSUME Bad # {} PROVE FALSE
  <2>1. PICK S \in Bad : \A B \in SUBSET S : B # S => B \notin Bad
    <3>1. Bad \subseteq SUBSET Names
      BY <1>2
    <3> HIDE DEF Bad
    <3> QED BY <1>2, <1>6, <3>1, SmallestMember
  <2>2. S \in SUBSET G /\ S \in SUBSET Names /\ S # {} /\ f[S] # {T(S)}
    BY <1>1, <1>2, <1>3 DEF IsAfter
  <2>3. \A name \in S : f[S \ {name}] = {T(S \ {name})}
    BY <2>1, <2>2
  <2>4. \A y : y \in f[S] <=> \E name \in S : \E x \in f[S \ {name}] : y = Substitute(x, name, variables[name])
    BY <1>1, <2>2 DEF IsAfter
  <2>5. ASSUME NEW y PROVE y \in f[S] <=> y = T(S)
    <3> HIDE DEF Bad
    <3>1. ASSUME y \in f[S] PROVE y = T(S)
      <4>1. PICK name \in S : \E x \in f[S \ {name}] : y = Substitute(x, name, variables[name])
        BY <2>4, <3>1
      <4>2. y = Substitute(T(S \ {name}), name, variables[name])
        BY <2>3, <4>1
      <4> QED BY <1>4, <2>2, <4>2
    <3>2. ASSUME y = T(S) PROVE y \in f[S]
      <4>1. PICK name : name \in S
        BY <2>2
      <4>2. T(S \ {name}) \in f[S \ {name}]
        BY <2>3, <4>1
      <4>3. y = Substitute(T(S \ {name}), name, variables[name])
        BY <1>4, <2>2, <3>2, <4>1
      <4> QED BY <2>4, <4>1, <4>2, <4>3
    <3> QED BY <3>1, <3>2
  <2>6. f[S] = {T(S)}
    BY <2>5
  <2> QED BY <2>2, <2>6
<1>7. f[G] = {T(G)}
  BY <1>6
<1> QED BY <1>1, <1>5, <1>7 DEF IsAfter, G

USE ItemsAssumption, NoneAssumption, SizeAssumption

-----------------------------------------------------------------------------
(* The inductive invariant *)

\* Where a handler is: its transaction is open from BEGIN to its end, it has
\* inserted the items before pos, and it has no row in the table until it is done.
StepInv(c) ==
    /\ c \in open <=> pc[c] \in {"insert", "commit"}
    /\ pc[c] # "done" => answer[c] = 0 /\ \A r \in rows : r[1] # c
    /\ pc[c] = "idle" => items[c] = <<>>
    /\ pc[c] \in {"idle", "template", "begin"} => pos[c] = 1
    /\ pc[c] \in {"template", "begin", "insert", "commit"} => Len(items[c]) >= 1
    /\ pc[c] = "template" => kind[c] = "single" /\ items[c][1] \in Items /\ items[c][1].template # NoTemplate
    /\ pc[c] \in {"template", "begin", "insert", "commit"} /\ kind[c] = "single" => Len(items[c]) = 1
    /\ pc[c] = "insert" => pos[c] <= Len(items[c])
    /\ pc[c] = "commit" => pos[c] = Len(items[c]) + 1

\* What is inserted, committed or not.
Inserted == rows \cup {r \in Row : r[1] \in open /\ r[2] < pos[r[1]]}

RowKey(r) == KeyOf(r[1], r[2])

\* The UNIQUE constraint and the locks keep keys apart before anything commits.
KeyInv == \A r, s \in Inserted : RowKey(r) = RowKey(s) /\ RowKey(r) # NoKey => r = s

\* Every item has passed Validate, but for the content of a rendered template.
ItemInv ==
    \A c \in Calls : \A i \in DOMAIN items[c] :
        /\ Len(items[c][i].content) > MaxLength => kind[c] = "single" /\ items[c][i].template # NoTemplate
        /\ items[c][i].content = <<>> => items[c][i].template # NoTemplate

\* A row has the content of its item.
ContentInv == \A r \in rows : r[2] \in DOMAIN items[r[1]] /\ content[r] = items[r[1]][r[2]].content

IntakeInv ==
    /\ TypeOK
    /\ \A c \in Calls : StepInv(c)
    /\ KeyInv /\ AllOrNothing /\ ConflictIsReal
    /\ ItemInv /\ ContentInv

-----------------------------------------------------------------------------
(* The kinds of step *)

\* Create or CreateBatch accepts s.
Receives(c, k, s) ==
    /\ pc[c] = "idle"
    /\ s \in Seq(Requests) /\ Len(s) \in 1..MaxBatchSize /\ k \in {"single", "batch"}
    /\ \A i \in DOMAIN s : Validate(s[i])
    /\ k = "single" => Len(s) = 1
    /\ kind' = [kind EXCEPT ![c] = k]
    /\ items' = [items EXCEPT ![c] = s]
    /\ \/ /\ pc' = [pc EXCEPT ![c] = "begin"]
          /\ k = "single" => s[1].template = NoTemplate
       \/ /\ pc' = [pc EXCEPT ![c] = "template"]
          /\ k = "single" /\ s[1] \in Items /\ s[1].template # NoTemplate
    /\ UNCHANGED <<rows, content, pos, open, answer>>

\* text is the rendered template of c's item.
Outcome(c, text) ==
    LET item == items[c][1] IN
    /\ template[item.template] \in Texts
    /\ text \in Render(template[item.template], item.variables)

\* The template comes out as text.
Renders(c, text) ==
    /\ pc[c] = "template" /\ text \in Seq(Chars) /\ Outcome(c, text)
    /\ items' = [items EXCEPT ![c][1].content = text]
    /\ pc' = [pc EXCEPT ![c] = "begin"]
    /\ UNCHANGED <<rows, content, kind, pos, open, answer>>

\* No INSERT of c is held back or refused.
Storable(c) ==
    \/ pc[c] = "commit"
    \/ pc[c] = "insert" /\ kind[c] = "single" /\ ~Waits(c) /\ ~Taken(c, KeyOf(c, 1))

\* The rows of c are committed, whatever the client is told.
Stores(c, status) ==
    /\ Storable(c) /\ status \in {201, 500}
    /\ Publish(c, RowsOf(c))
    /\ Answer(c, status)
    /\ open' = open \ {c}
    /\ UNCHANGED <<kind, items, pos>>

\* The request ends with nothing stored.
Ends(c, status) ==
    /\ pc[c] # "done" /\ status \in {400, 404, 409, 500}
    /\ status = 409 => pc[c] = "insert" /\ Taken(c, KeyOf(c, pos[c]))
    /\ Answer(c, status)
    /\ open' = open \ {c}
    /\ UNCHANGED <<rows, content, kind, items, pos>>

CrashStep ==
    /\ pc' = [c \in Calls |-> IF Started(c) THEN "done" ELSE pc[c]]
    /\ open' = {}
    /\ UNCHANGED <<rows, content, kind, items, pos, answer>>

Step ==
    \/ UNCHANGED <<rows, content, kind, items, pc, pos, open, answer>>
    \/ \E c \in Calls : \E k, s : Receives(c, k, s)
    \/ \E c \in Calls : \E text : Renders(c, text)
    \/ \E c \in Calls : Begin(c) \/ Insert(c)
    \/ \E c \in Calls, status \in {201, 500} : Stores(c, status)
    \/ \E c \in Calls, status \in {400, 404, 409, 500} : Ends(c, status)
    \/ CrashStep

LEMMA StepKinds == ASSUME TypeOK, \A c \in Calls : StepInv(c), [Next]_vars PROVE Step
<1>1. ASSUME NEW t \in Templates, NEW text \in Texts, CreateTemplate(t, text) PROVE Step
  BY <1>1 DEF CreateTemplate, Step
<1>2. ASSUME NEW c \in Calls, NEW item \in Items, Create(c, item) PROVE Step
  <2>1. item \in Requests /\ <<item>> \in Seq(Requests) /\ Len(<<item>>) = 1 /\ <<item>>[1] = item /\ DOMAIN <<item>> = {1}
    BY ItemsAssumption
  <2>2. /\ Validate(item) /\ pc[c] = "idle" /\ kind' = [kind EXCEPT ![c] = "single"]
        /\ items' = [items EXCEPT ![c] = <<item>>]
        /\ UNCHANGED <<rows, content, pos, open, answer>>
    BY <1>2 DEF Create, Receive, tables
  <2>3. \/ pc' = [pc EXCEPT ![c] = "begin"] /\ item.template = NoTemplate
        \/ pc' = [pc EXCEPT ![c] = "template"] /\ item.template # NoTemplate
    BY <1>2 DEF Create
  <2>4. \A i \in DOMAIN <<item>> : Validate(<<item>>[i])
    BY <2>1, <2>2
  <2>5. Len(<<item>>) \in 1..MaxBatchSize
    BY <2>1
  <2>6. Receives(c, "single", <<item>>)
    BY <2>1, <2>2, <2>3, <2>4, <2>5 DEF Receives
  <2> QED BY <2>6 DEF Step
<1>3. ASSUME NEW c \in Calls, NEW s \in BoundedSeq(BatchItems, MaxBatchSize + 1), CreateBatch(c, s) PROVE Step
  <2>1. s \in Seq(Requests)
    <3>1. PICK m \in 0..(MaxBatchSize + 1) : s \in [1..m -> BatchItems]
      BY DEF BoundedSeq, SeqOf
    <3>2. m \in Nat /\ s \in [1..m -> Requests]
      BY <3>1, ItemsAssumption
    <3> QED BY <3>2, SeqDef
  <2>2. Len(s) \in 1..MaxBatchSize /\ \A i \in DOMAIN s : Validate(s[i])
    <3>1. Len(s) \in Nat /\ (Len(s) = 0 => s = <<>>)
      BY <2>1
    <3> QED BY <1>3, <3>1 DEF CreateBatch, ValidateBatch
  <2>3. Receives(c, "batch", s)
    BY <1>3, <2>1, <2>2 DEF CreateBatch, Receive, Receives, tables
  <2> QED BY <2>3 DEF Step
<1>4. ASSUME NEW c \in Calls, Refuse(c) PROVE Step
  <2>1. open' = open \ {c}
    BY <1>4 DEF Refuse, StepInv
  <2>2. Ends(c, 400)
    BY <1>4, <2>1 DEF Refuse, Ends, tables
  <2> QED BY <2>2 DEF Step
<1>5. ASSUME NEW c \in Calls, ResolveTemplate(c) PROVE Step
  <2>1. open' = open \ {c} /\ UNCHANGED open /\ items[c][1] \in Items /\ items[c][1].template \in Templates
    BY <1>5 DEF ResolveTemplate, StepInv, Requests
  <2>2. CASE Answer(c, 404) /\ UNCHANGED items
    <3>1. Ends(c, 404)
      BY <1>5, <2>1, <2>2 DEF ResolveTemplate, Ends, tables
    <3> QED BY <3>1 DEF Step
  <2>3. CASE template[items[c][1].template] # <<>> /\ Rendered(c) /\ UNCHANGED answer
    <3>1. template[items[c][1].template] \in Texts
      BY <2>1, <2>3 DEF TypeOK
    <3>2. PICK text \in Render(template[items[c][1].template], items[c][1].variables) :
             items' = [items EXCEPT ![c][1].content = text]
      BY <2>3 DEF Rendered
    <3>3. text \in Seq(Chars)
      <4>1. items[c][1].variables \in Variables /\ template[items[c][1].template] \in Seq(Chars)
        BY <2>1, <3>1, TextsAssumption DEF Requests
      <4> QED BY <3>2, <4>1, RenderTyped
    <3>4. Outcome(c, text)
      BY <3>1 DEF Outcome
    <3>5. items' = [items EXCEPT ![c][1].content = text]
      BY <3>2
    <3>6. Renders(c, text)
      BY <1>5, <2>3, <3>3, <3>4, <3>5 DEF ResolveTemplate, Rendered, Renders, tables
    <3> QED BY <3>6 DEF Step
  <2> QED BY <1>5, <2>2, <2>3 DEF ResolveTemplate
<1>6. ASSUME NEW c \in Calls, Begin(c) \/ Insert(c) PROVE Step
  BY <1>6 DEF Step
<1>7. ASSUME NEW c \in Calls, InsertSingle(c) \/ Commit(c) PROVE Step
  <2>1. Stores(c, 201)
    BY <1>7 DEF InsertSingle, Commit, Stores, Storable, Release
  <2> QED BY <2>1 DEF Step
<1>8. ASSUME NEW c \in Calls, Conflict(c) PROVE Step
  <2>1. Ends(c, 409)
    BY <1>8 DEF Conflict, Ends, Release, tables
  <2> QED BY <2>1 DEF Step
<1>9. ASSUME NEW c \in Calls, DeadlockAbort(c) \/ StatementError(c) PROVE Step
  <2>1. pc[c] # "done"
    BY <1>9 DEF DeadlockAbort, Deadlocked, WaitsFor, StatementError
  <2>2. Ends(c, 500)
    BY <1>9, <2>1 DEF DeadlockAbort, StatementError, Ends, Release, tables
  <2> QED BY <2>2 DEF Step
<1>10. ASSUME NEW c \in Calls, CommitError(c) PROVE Step
  <2>1. Stores(c, 500) \/ Ends(c, 500)
    BY <1>10 DEF CommitError, Stores, Storable, Ends, Release
  <2> QED BY <2>1 DEF Step
<1>11. CASE Crash
  BY <1>11 DEF Crash, CrashStep, Step, tables
<1>12. CASE UNCHANGED vars
  BY <1>12 DEF vars, tables, Step
<1> QED BY <1>1, <1>2, <1>3, <1>4, <1>5, <1>6, <1>7, <1>8, <1>9, <1>10, <1>11, <1>12 DEF Next, Handle

LEMMA RangeLength == \A n, m \in Nat : 1..n = 1..m => n = m
<1> SUFFICES ASSUME NEW n \in Nat, NEW m \in Nat, 1..n = 1..m, n # m PROVE FALSE
  OBVIOUS
<1>1. n \in 1..n \/ n = 0
  OBVIOUS
<1>2. m \in 1..m \/ m = 0
  OBVIOUS
<1> QED BY <1>1, <1>2

\* Rendering replaces the content of the one item, and nothing else.
LEMMA RenderedItem ==
  ASSUME TypeOK, NEW c \in Calls, StepInv(c), NEW text, Renders(c, text)
  PROVE  /\ items' \in [Calls -> Seq(Requests)]
         /\ Len(items[c]) = 1 /\ Len(items'[c]) = 1
         /\ items'[c][1].template = items[c][1].template
         /\ items'[c][1].variables = items[c][1].variables /\ items'[c][1].content = text
         /\ \A d \in Calls : d # c => items'[d] = items[d]
<1>1. /\ items[c] \in Seq(Requests) /\ Len(items[c]) = 1 /\ items[c][1] \in Requests /\ text \in Seq(Chars)
  <2>1. items[c] \in Seq(Requests) /\ Len(items[c]) = 1 /\ text \in Seq(Chars)
    BY DEF TypeOK, StepInv, Renders
  <2> QED BY <2>1
<1> DEFINE item == [items[c][1] EXCEPT !.content = text]
<1>2. /\ item \in Requests /\ item.template = items[c][1].template
      /\ item.variables = items[c][1].variables /\ item.content = text
  BY <1>1 DEF Requests
<1> HIDE DEF item
<1>3. items' = [items EXCEPT ![c] = [items[c] EXCEPT ![1] = item]]
  BY DEF Renders, item
<1>4. [items[c] EXCEPT ![1] = item] \in Seq(Requests) /\ Len([items[c] EXCEPT ![1] = item]) = 1 /\ [items[c] EXCEPT ![1] = item][1] = item
  <2> DEFINE f == [items[c] EXCEPT ![1] = item]
  <2>1. items[c] \in [1..Len(items[c]) -> Requests] /\ Len(items[c]) \in Nat /\ 1 \in 1..Len(items[c])
    BY <1>1
  <2>2. f \in [1..Len(items[c]) -> Requests] /\ f[1] = item
    BY <1>2, <2>1
  <2> HIDE DEF f
  <2>3. f \in Seq(Requests)
    BY <2>1, <2>2, SeqDef
  <2>4. Len(f) \in Nat /\ DOMAIN f = 1..Len(f) /\ DOMAIN f = 1..Len(items[c])
    BY <2>2, <2>3
  <2>5. Len(f) = 1
    BY <1>1, <2>1, <2>4, RangeLength
  <2> QED BY <2>2, <2>3, <2>5 DEF f
<1> QED BY <1>1, <1>2, <1>3, <1>4 DEF TypeOK

LEMMA TypeStep == ASSUME TypeOK, \A c \in Calls : StepInv(c), [Next]_vars PROVE TypeOK'
<1>1. template' \in [Templates -> Texts \cup {<<>>}]
  BY DEF TypeOK, Next, Handle, CreateTemplate, Create, CreateBatch, Receive, Refuse, ResolveTemplate, Begin, Insert,
         InsertSingle, Conflict, Commit, DeadlockAbort, CommitError, StatementError, Crash, vars, tables
<1>2. faults' \in 0..MaxFaults
  BY DEF TypeOK, Next, Handle, CreateTemplate, Create, CreateBatch, Receive, Refuse, ResolveTemplate, Begin, Insert,
         InsertSingle, Conflict, Commit, DeadlockAbort, CommitError, StatementError, Crash, vars, tables, Fault
<1>3. /\ rows' \subseteq Row /\ content' \in [Row -> Seq(Chars)] /\ kind' \in [Calls -> {"single", "batch"}]
      /\ items' \in [Calls -> Seq(Requests)] /\ \A c \in Calls : Len(items'[c]) <= MaxBatchSize
      /\ pc' \in [Calls -> Steps] /\ pos' \in [Calls -> 1..(MaxBatchSize + 1)] /\ open' \subseteq Calls
      /\ answer' \in [Calls -> {0, 201, 400, 404, 409, 500}]
  <2> DEFINE G == /\ rows' \subseteq Row /\ content' \in [Row -> Seq(Chars)] /\ kind' \in [Calls -> {"single", "batch"}]
                  /\ items' \in [Calls -> Seq(Requests)] /\ \A c \in Calls : Len(items'[c]) <= MaxBatchSize
                  /\ pc' \in [Calls -> Steps] /\ pos' \in [Calls -> 1..(MaxBatchSize + 1)] /\ open' \subseteq Calls
                  /\ answer' \in [Calls -> {0, 201, 400, 404, 409, 500}]
  <2>1. ASSUME UNCHANGED <<rows, content, kind, items, pc, pos, open, answer>> PROVE G
    BY <2>1 DEF TypeOK
  <2>2. ASSUME NEW c \in Calls, NEW k, NEW s, Receives(c, k, s) PROVE G
    <3>1. s \in Seq(Requests) /\ Len(s) <= MaxBatchSize
      BY <2>2 DEF Receives
    <3>2. items' \in [Calls -> Seq(Requests)] /\ \A d \in Calls : Len(items'[d]) <= MaxBatchSize
      BY <2>2, <3>1 DEF Receives, TypeOK
    <3>3. kind' \in [Calls -> {"single", "batch"}] /\ UNCHANGED <<rows, content, pos, open, answer>>
      BY <2>2 DEF Receives, TypeOK
    <3>4. pc' \in [Calls -> Steps]
      <4>1. pc \in [Calls -> Steps] /\ "begin" \in Steps /\ "template" \in Steps
        BY DEF TypeOK, Steps
      <4>2. pc' = [pc EXCEPT ![c] = "begin"] \/ pc' = [pc EXCEPT ![c] = "template"]
        BY <2>2 DEF Receives
      <4> QED BY <4>1, <4>2
    <3> QED BY <3>2, <3>3, <3>4 DEF TypeOK
  <2>3. ASSUME NEW c \in Calls, NEW text, Renders(c, text) PROVE G
    <3>1. items' \in [Calls -> Seq(Requests)] /\ \A d \in Calls : Len(items'[d]) = Len(items[d])
      BY <2>3, RenderedItem
    <3> QED BY <2>3, <3>1 DEF Renders, TypeOK, Steps
  <2>4. ASSUME NEW c \in Calls, Begin(c) PROVE G
    BY <2>4 DEF Begin, TypeOK, Steps, tables
  <2>5. ASSUME NEW c \in Calls, Insert(c) PROVE G
    <3>1. pos[c] \in Nat /\ pos[c] >= 1 /\ pos[c] <= MaxBatchSize
      <4>1. pos[c] \in 1..(MaxBatchSize + 1) /\ items[c] \in Seq(Requests) /\ Len(items[c]) <= MaxBatchSize
        BY DEF TypeOK
      <4>2. pos[c] <= Len(items[c])
        BY <2>5 DEF Insert, StepInv
      <4> QED BY <4>1, <4>2
    <3>2. pos' \in [Calls -> 1..(MaxBatchSize + 1)]
      BY <2>5, <3>1 DEF Insert, TypeOK
    <3> QED BY <2>5, <3>2 DEF Insert, TypeOK, Steps, tables
  <2>6. ASSUME NEW c \in Calls, NEW status \in {201, 500}, Stores(c, status) PROVE G
    <3>1. items[c] \in Seq(Requests) /\ Len(items[c]) <= MaxBatchSize
      BY DEF TypeOK
    <3>2. DOMAIN items[c] \subseteq 1..MaxBatchSize /\ \A i \in DOMAIN items[c] : items[c][i] \in Requests
      BY <3>1
    <3>3. RowsOf(c) \subseteq Row
      BY <3>2 DEF RowsOf, Row
    <3>4. \A r \in RowsOf(c) : items[r[1]][r[2]].content \in Seq(Chars)
      BY <3>2 DEF RowsOf, Requests
    <3>5. content' \in [Row -> Seq(Chars)]
      BY <2>6, <3>4 DEF Stores, Publish, TypeOK
    <3> QED BY <2>6, <3>3, <3>5 DEF Stores, Publish, Answer, TypeOK, Steps
  <2>7. ASSUME NEW c \in Calls, NEW status \in {400, 404, 409, 500}, Ends(c, status) PROVE G
    BY <2>7 DEF Ends, Answer, TypeOK, Steps
  <2>8. ASSUME CrashStep PROVE G
    BY <2>8 DEF CrashStep, TypeOK, Steps
  <2>9. Step
    BY StepKinds
  <2> HIDE DEF G
  <2>10. G
    BY <2>1, <2>2, <2>3, <2>4, <2>5, <2>6, <2>7, <2>8, <2>9 DEF Step
  <2> QED BY <2>10 DEF G
<1> QED BY <1>1, <1>2, <1>3 DEF TypeOK

-----------------------------------------------------------------------------
(* Where the handlers are *)

LEMMA StepFrame ==
  ASSUME NEW d \in Calls, StepInv(d), d \in open' <=> d \in open, pc'[d] = pc[d], answer'[d] = answer[d],
         items'[d] = items[d], pos'[d] = pos[d], kind'[d] = kind[d], \A r \in rows' : r \in rows \/ r[1] # d
  PROVE  StepInv(d)'
  BY DEF StepInv

\* A request that has ended.
LEMMA StepEnded ==
  ASSUME NEW d \in Calls, d \notin open', pc'[d] = "done"
  PROVE  StepInv(d)'
  BY DEF StepInv

LEMMA StepStep ==
  ASSUME TypeOK, \A c \in Calls : StepInv(c), Step, NEW d \in Calls
  PROVE  StepInv(d)'
<1>1. ASSUME UNCHANGED <<rows, content, kind, items, pc, pos, open, answer>> PROVE StepInv(d)'
  BY <1>1, StepFrame
<1>2. ASSUME NEW c \in Calls, NEW k, NEW s, Receives(c, k, s) PROVE StepInv(d)'
  <2>1. CASE d # c
    BY <1>2, <2>1, StepFrame DEF Receives, TypeOK
  <2>2. CASE d = c
    <3>1. /\ pc[c] = "idle" /\ StepInv(c) /\ UNCHANGED <<rows, content, pos, open, answer>>
          /\ items'[c] = s /\ kind'[c] = k /\ Len(s) \in 1..MaxBatchSize /\ (k = "single" => Len(s) = 1)
          /\ \/ pc'[c] = "begin"
             \/ pc'[c] = "template" /\ k = "single" /\ s[1] \in Items /\ s[1].template # NoTemplate
      BY <1>2 DEF Receives, TypeOK
    <3>2. Len(s) >= 1
      BY <3>1
    <3> QED BY <2>2, <3>1, <3>2 DEF StepInv
  <2> QED BY <2>1, <2>2
<1>3. ASSUME NEW c \in Calls, NEW text, Renders(c, text) PROVE StepInv(d)'
  <2>1. CASE d # c
    BY <1>3, <2>1, StepFrame, RenderedItem DEF Renders, TypeOK
  <2>2. CASE d = c
    <3>1. Len(items'[c]) = 1
      BY <1>3, RenderedItem
    <3>2. pc[c] = "template" /\ pc'[c] = "begin" /\ UNCHANGED <<rows, content, kind, pos, open, answer>>
      BY <1>3 DEF Renders, TypeOK
    <3> QED BY <2>2, <3>1, <3>2 DEF StepInv
  <2> QED BY <2>1, <2>2
<1>4. ASSUME NEW c \in Calls, Begin(c) PROVE StepInv(d)'
  <2>1. CASE d # c
    <3>1. (d \in open' <=> d \in open) /\ pc'[d] = pc[d] /\ UNCHANGED <<rows, kind, items, pos, answer>>
      BY <1>4, <2>1 DEF Begin, TypeOK, tables
    <3> QED BY <3>1, StepFrame
  <2>2. CASE d = c
    <3>1. pc[c] = "begin" /\ pc'[c] = "insert" /\ c \in open' /\ UNCHANGED <<rows, kind, items, pos, answer>>
      BY <1>4 DEF Begin, TypeOK, tables
    <3>2. pos[c] <= Len(items[c])
      BY <3>1 DEF StepInv
    <3> QED BY <2>2, <3>1, <3>2 DEF StepInv
  <2> QED BY <2>1, <2>2
<1>5. ASSUME NEW c \in Calls, Insert(c) PROVE StepInv(d)'
  <2>1. CASE d # c
    BY <1>5, <2>1, StepFrame DEF Insert, TypeOK, tables
  <2>2. CASE d = c
    <3>1. /\ pc[c] = "insert" /\ c \in open /\ kind[c] = "batch" /\ UNCHANGED <<rows, kind, items, open, answer>>
          /\ pos'[c] = pos[c] + 1 /\ pc'[c] = (IF pos[c] = Len(items[c]) THEN "commit" ELSE "insert")
          /\ pos[c] <= Len(items[c]) /\ StepInv(c)
      BY <1>5 DEF Insert, TypeOK, tables, StepInv
    <3>2. pos[c] \in Nat /\ Len(items[c]) \in Nat
      BY DEF TypeOK
    <3>3. pc'[c] = "insert" => pos'[c] <= Len(items[c])
      BY <3>1, <3>2
    <3>4. pc'[c] = "commit" => pos'[c] = Len(items[c]) + 1
      BY <3>1
    <3> QED BY <2>2, <3>1, <3>3, <3>4 DEF StepInv
  <2> QED BY <2>1, <2>2
<1>6. ASSUME NEW c \in Calls, NEW status \in {201, 500}, Stores(c, status) PROVE StepInv(d)'
  <2>1. \A r \in rows' : r \in rows \/ r[1] = c
    BY <1>6 DEF Stores, Publish, RowsOf
  <2>2. pc'[c] = "done" /\ c \notin open' /\ (d # c => pc'[d] = pc[d] /\ answer'[d] = answer[d] /\ (d \in open' <=> d \in open))
        /\ UNCHANGED <<kind, items, pos>>
    BY <1>6 DEF Stores, Answer, TypeOK
  <2>3. CASE d # c
    BY <2>1, <2>2, <2>3, StepFrame
  <2>4. CASE d = c
    BY <2>2, <2>4, StepEnded
  <2> QED BY <2>3, <2>4
<1>7. ASSUME NEW c \in Calls, NEW status \in {400, 404, 409, 500}, Ends(c, status) PROVE StepInv(d)'
  <2>1. pc'[c] = "done" /\ c \notin open' /\ (d # c => pc'[d] = pc[d] /\ answer'[d] = answer[d] /\ (d \in open' <=> d \in open))
        /\ UNCHANGED <<rows, kind, items, pos>>
    BY <1>7 DEF Ends, Answer, TypeOK
  <2>2. CASE d # c
    BY <2>1, <2>2, StepFrame
  <2>3. CASE d = c
    BY <2>1, <2>3, StepEnded
  <2> QED BY <2>2, <2>3
<1>8. ASSUME CrashStep PROVE StepInv(d)'
  <2>1. pc'[d] = (IF Started(d) THEN "done" ELSE pc[d]) /\ open' = {} /\ UNCHANGED <<rows, content, kind, items, pos, answer>>
    BY <1>8 DEF CrashStep
  <2>2. CASE Started(d)
    BY <2>1, <2>2, StepEnded
  <2>3. CASE ~Started(d)
    <3>1. d \notin open
      BY <2>3 DEF StepInv, Started
    <3> QED BY <2>1, <2>3, <3>1, StepFrame
  <2> QED BY <2>2, <2>3
<1> QED BY <1>1, <1>2, <1>3, <1>4, <1>5, <1>6, <1>7, <1>8 DEF Step

\* Once a handler has left its template behind, its request stays as it is.
LEMMA ItemsStay ==
  ASSUME TypeOK, \A c \in Calls : StepInv(c), Step, NEW d \in Calls, pc[d] \notin {"idle", "template"}
  PROVE  items'[d] = items[d] /\ kind'[d] = kind[d]
<1>1. ASSUME NEW c \in Calls, NEW k, NEW s, Receives(c, k, s) PROVE items'[d] = items[d] /\ kind'[d] = kind[d]
  BY <1>1 DEF Receives, TypeOK
<1>2. ASSUME NEW c \in Calls, NEW text, Renders(c, text) PROVE items'[d] = items[d] /\ kind'[d] = kind[d]
  <2>1. d # c /\ UNCHANGED kind
    BY <1>2 DEF Renders
  <2> QED BY <1>2, <2>1, RenderedItem
<1>3. ASSUME NEW c \in Calls, Begin(c) \/ Insert(c) PROVE items'[d] = items[d] /\ kind'[d] = kind[d]
  BY <1>3 DEF Begin, Insert
<1> QED BY <1>1, <1>2, <1>3 DEF Step, Stores, Ends, CrashStep

\* The table only grows, and a row keeps its item.
LEMMA RowsStay ==
  ASSUME TypeOK, \A c \in Calls : StepInv(c), Step
  PROVE  /\ rows \subseteq rows'
         /\ \A r \in rows : r[1] \in Calls /\ pc[r[1]] = "done" /\ items'[r[1]] = items[r[1]] /\ kind'[r[1]] = kind[r[1]]
<1>1. rows \subseteq rows'
  <2>1. ASSUME NEW c \in Calls, NEW status, Stores(c, status) PROVE rows \subseteq rows'
    BY <2>1 DEF Stores, Publish
  <2>2. ASSUME NEW c \in Calls, Begin(c) \/ Insert(c) PROVE rows \subseteq rows'
    BY <2>2 DEF Begin, Insert, tables
  <2>3. ASSUME NEW c \in Calls, NEW k, NEW s, Receives(c, k, s) PROVE rows \subseteq rows'
    BY <2>3 DEF Receives
  <2>4. ASSUME NEW c \in Calls, NEW text, Renders(c, text) PROVE rows \subseteq rows'
    BY <2>4 DEF Renders
  <2> QED BY <2>1, <2>2, <2>3, <2>4 DEF Step, Ends, CrashStep
<1>2. ASSUME NEW r \in rows PROVE r[1] \in Calls /\ pc[r[1]] = "done"
  <2>1. r[1] \in Calls
    BY DEF TypeOK, Row
  <2> QED BY <2>1 DEF StepInv
<1> QED BY <1>1, <1>2, ItemsStay

-----------------------------------------------------------------------------
(* Keys *)

LEMMA InsertedStay ==
  ASSUME TypeOK, \A c \in Calls : StepInv(c), Step, NEW r \in Inserted
  PROVE  r \in Row /\ r[1] \in Calls /\ r = <<r[1], r[2]>> /\ RowKey(r)' = RowKey(r)
<1>1. r \in Row
  BY DEF Inserted, TypeOK
<1>2. r[1] \in Calls /\ r = <<r[1], r[2]>>
  BY <1>1 DEF Row
<1>3. pc[r[1]] \notin {"idle", "template"}
  BY <1>2 DEF Inserted, StepInv
<1>4. items'[r[1]] = items[r[1]]
  BY <1>2, <1>3, ItemsStay
<1> QED BY <1>1, <1>2, <1>4 DEF RowKey, KeyOf

\* A key that PostgreSQL lets c insert is nowhere yet.
LEMMA NewKey ==
  ASSUME TypeOK, NEW c \in Calls, StepInv(c), pc[c] = "insert", ~Waits(c), ~Taken(c, KeyOf(c, pos[c])),
         NEW r \in Inserted, RowKey(r) = KeyOf(c, pos[c])
  PROVE  KeyOf(c, pos[c]) = NoKey
<1> SUFFICES ASSUME KeyOf(c, pos[c]) # NoKey PROVE FALSE
  OBVIOUS
<1>1. c \in open
  BY DEF StepInv
<1>2. CASE r \in rows
  BY <1>2 DEF Taken, CommittedKeys, RowKey
<1>3. CASE r \in Row /\ r[1] \in open /\ r[2] < pos[r[1]]
  <2>1. r[1] \in Calls /\ r[2] \in 1..(pos[r[1]] - 1)
    BY <1>3 DEF Row, TypeOK
  <2>2. KeyOf(c, pos[c]) \in Uncommitted(r[1])
    BY <1>3, <2>1 DEF Uncommitted, RowKey
  <2>3. CASE r[1] = c
    BY <2>2, <2>3 DEF Taken
  <2>4. CASE r[1] # c
    BY <1>1, <1>3, <2>1, <2>2, <2>4 DEF Waits, WaitsFor
  <2> QED BY <2>3, <2>4
<1> QED BY <1>2, <1>3 DEF Inserted

\* What a step adds to the inserted rows.
LEMMA InsertedGrows ==
  ASSUME TypeOK, \A c \in Calls : StepInv(c), Step
  PROVE  \/ Inserted' \subseteq Inserted
         \/ \E c \in Calls : /\ Inserted' \subseteq Inserted \cup {<<c, pos[c]>>}
                             /\ pc[c] = "insert" /\ ~Waits(c) /\ ~Taken(c, KeyOf(c, pos[c]))
                             /\ items'[c] = items[c]
<1>1. ASSUME UNCHANGED <<rows, pos, open>> PROVE Inserted' \subseteq Inserted
  BY <1>1 DEF Inserted
<1>2. ASSUME NEW c \in Calls, Begin(c) PROVE Inserted' \subseteq Inserted
  <2>1. open' = open \cup {c} /\ UNCHANGED <<rows, pos>> /\ pos[c] = 1
    BY <1>2 DEF Begin, tables, StepInv
  <2>2. \A r \in Row : ~(r[1] = c /\ r[2] < pos[r[1]])
    BY <2>1 DEF Row
  <2> QED BY <2>1, <2>2 DEF Inserted
<1>3. ASSUME NEW c \in Calls, Insert(c) PROVE Inserted' \subseteq Inserted \cup {<<c, pos[c]>>}
  <2>1. pos' = [pos EXCEPT ![c] = pos[c] + 1] /\ UNCHANGED <<rows, open>>
    BY <1>3 DEF Insert, tables
  <2>2. ASSUME NEW r \in Row, r[1] \in open, r[2] < pos'[r[1]] PROVE r[2] < pos[r[1]] \/ r = <<c, pos[c]>>
    <3>1. r[1] \in Calls /\ r[2] \in Nat /\ r = <<r[1], r[2]>> /\ pos[c] \in Nat
      BY <2>2 DEF Row, TypeOK
    <3>2. CASE r[1] = c
      <4>1. r[2] < pos[c] + 1
        BY <2>1, <2>2, <3>2 DEF TypeOK
      <4>2. r[2] < pos[c] \/ r[2] = pos[c]
        BY <3>1, <4>1
      <4> QED BY <3>1, <3>2, <4>2
    <3>3. CASE r[1] # c
      BY <2>1, <2>2, <3>1, <3>3 DEF TypeOK
    <3> QED BY <3>2, <3>3
  <2> QED BY <2>1, <2>2 DEF Inserted
<1>4. ASSUME NEW c \in Calls, NEW status, Stores(c, status)
      PROVE  /\ pc[c] = "commit" => Inserted' \subseteq Inserted
             /\ pc[c] = "insert" => Inserted' \subseteq Inserted \cup {<<c, pos[c]>>} /\ pos[c] = 1
  <2>1. rows' = rows \cup RowsOf(c) /\ open' = open \ {c} /\ UNCHANGED pos
    BY <1>4 DEF Stores, Publish
  <2>2. items[c] \in Seq(Requests) /\ Len(items[c]) \in Nat /\ Len(items[c]) <= MaxBatchSize /\ DOMAIN items[c] = 1..Len(items[c])
        /\ pos[c] \in Nat /\ pos[c] >= 1
    <3>1. items[c] \in Seq(Requests) /\ Len(items[c]) <= MaxBatchSize /\ pos[c] \in 1..(MaxBatchSize + 1)
      BY DEF TypeOK
    <3> QED BY <3>1
  <2>3. \A r \in RowsOf(c) : r[1] = c /\ r[2] \in 1..Len(items[c]) /\ r = <<c, r[2]>> /\ r \in Row
    BY <2>2 DEF RowsOf, Row
  <2>4. Inserted' \subseteq Inserted \cup RowsOf(c)
    BY <2>1 DEF Inserted
  <2>5. ASSUME pc[c] = "commit" PROVE RowsOf(c) \subseteq Inserted
    <3>1. c \in open /\ pos[c] = Len(items[c]) + 1
      BY <2>5 DEF StepInv
    <3>2. \A r \in RowsOf(c) : r[2] < pos[c]
      BY <2>2, <2>3, <3>1
    <3> QED BY <2>3, <3>1, <3>2 DEF Inserted
  <2>6. ASSUME pc[c] = "insert" PROVE RowsOf(c) \subseteq {<<c, pos[c]>>} /\ pos[c] = 1
    <3>1. kind[c] = "single"
      BY <1>4, <2>6 DEF Stores, Storable
    <3>2. Len(items[c]) = 1 /\ pos[c] <= 1
      BY <2>6, <3>1 DEF StepInv
    <3>3. pos[c] = 1 /\ \A r \in RowsOf(c) : r[2] = 1
      BY <2>2, <2>3, <3>2
    <3> QED BY <2>3, <3>3
  <2> QED BY <2>4, <2>5, <2>6
<1>5. ASSUME NEW c \in Calls, NEW status, Ends(c, status) PROVE Inserted' \subseteq Inserted
  BY <1>5 DEF Ends, Inserted
<1>6. ASSUME CrashStep PROVE Inserted' \subseteq Inserted
  BY <1>6 DEF CrashStep, Inserted
<1>7. ASSUME NEW c \in Calls, NEW k, NEW s, Receives(c, k, s) PROVE Inserted' \subseteq Inserted
  BY <1>1, <1>7 DEF Receives
<1>8. ASSUME NEW c \in Calls, NEW text, Renders(c, text) PROVE Inserted' \subseteq Inserted
  BY <1>1, <1>8 DEF Renders
<1>9. ASSUME NEW c \in Calls, Insert(c)
      PROVE  pc[c] = "insert" /\ ~Waits(c) /\ ~Taken(c, KeyOf(c, pos[c])) /\ items'[c] = items[c]
  BY <1>9 DEF Insert
<1>10. ASSUME NEW c \in Calls, NEW status, Stores(c, status)
       PROVE  /\ pc[c] \in {"insert", "commit"} /\ items'[c] = items[c]
              /\ pc[c] = "insert" => ~Waits(c) /\ ~Taken(c, KeyOf(c, pos[c]))
  BY <1>4, <1>10 DEF Stores, Storable
<1> QED BY <1>1, <1>2, <1>3, <1>4, <1>5, <1>6, <1>7, <1>8, <1>9, <1>10 DEF Step

LEMMA KeyStep == ASSUME TypeOK, \A c \in Calls : StepInv(c), KeyInv, Step PROVE KeyInv'
<1>1. ASSUME Inserted' \subseteq Inserted PROVE KeyInv'
  BY <1>1, InsertedStay DEF KeyInv
<1>2. ASSUME NEW c \in Calls, Inserted' \subseteq Inserted \cup {<<c, pos[c]>>},
             pc[c] = "insert", ~Waits(c), ~Taken(c, KeyOf(c, pos[c])), items'[c] = items[c]
      PROVE  KeyInv'
  <2> DEFINE k == KeyOf(c, pos[c])
             new == <<c, pos[c]>>
  <2>2. items'[new[1]][new[2]].key = k
    BY <1>2 DEF KeyOf
  <2>3. \A r \in Inserted : RowKey(r) = k => k = NoKey
    BY <1>2, NewKey
  <2>4. \A r \in Inserted : RowKey(r)' = RowKey(r)
    BY InsertedStay
  <2>5. \A r \in Inserted' : r \in Inserted \/ r = new
    BY <1>2
  <2> SUFFICES ASSUME NEW r \in Inserted', NEW s \in Inserted', RowKey(r)' = RowKey(s)', RowKey(r)' # NoKey PROVE r = s
    BY DEF KeyInv
  <2>6. CASE r \in Inserted /\ s \in Inserted
    BY <2>4, <2>6 DEF KeyInv
  <2>7. \A q : q = new => items'[q[1]][q[2]].key = k
    BY <2>2
  <2>8. \A q \in Inserted : items'[q[1]][q[2]].key = k => k = NoKey
    BY <2>3, <2>4 DEF RowKey, KeyOf
  <2> QED BY <2>5, <2>6, <2>7, <2>8 DEF RowKey, KeyOf
<1> QED BY <1>1, <1>2, InsertedGrows

-----------------------------------------------------------------------------
(* Answers and contents *)

\* The rows of one request.
RowsIn(c) == {r \in rows : r[1] = c}

AnswerInv(c) ==
    /\ RowsIn(c) = {} \/ RowsIn(c) = RowsOf(c)
    /\ answer[c] = 201 => RowsIn(c) # {}
    /\ answer[c] \in {400, 404, 409} => RowsIn(c) = {}

LEMMA AnswerByCall == AllOrNothing <=> \A c \in Calls : AnswerInv(c)
  BY DEF AllOrNothing, AnswerInv, RowsIn

LEMMA AnswerFrame ==
  ASSUME NEW d \in Calls, AnswerInv(d), RowsIn(d)' = RowsIn(d), answer'[d] = answer[d],
         RowsIn(d) = {} \/ items'[d] = items[d]
  PROVE  AnswerInv(d)'
  BY DEF AnswerInv, RowsOf

LEMMA AnswerStep ==
  ASSUME TypeOK, \A c \in Calls : StepInv(c), Step, NEW d \in Calls, AnswerInv(d)
  PROVE  AnswerInv(d)'
<1>1. RowsIn(d) = {} \/ items'[d] = items[d]
  BY RowsStay DEF RowsIn
<1>2. ASSUME UNCHANGED <<rows, answer>> PROVE AnswerInv(d)'
  BY <1>1, <1>2, AnswerFrame DEF RowsIn
<1>3. ASSUME NEW c \in Calls, NEW status \in {201, 500}, Stores(c, status) PROVE AnswerInv(d)'
  <2>1. rows' = rows \cup RowsOf(c) /\ UNCHANGED items /\ answer' = [answer EXCEPT ![c] = status] /\ pc[c] \in {"insert", "commit"}
    BY <1>3 DEF Stores, Publish, Answer, Storable
  <2>2. \A r \in RowsOf(c) : r[1] = c
    BY DEF RowsOf
  <2>3. CASE d # c
    <3>1. RowsIn(d)' = RowsIn(d) /\ answer'[d] = answer[d]
      BY <2>1, <2>2, <2>3 DEF RowsIn, TypeOK
    <3> QED BY <1>1, <3>1, AnswerFrame
  <2>4. CASE d = c
    <3>1. RowsIn(c) = {}
      BY <2>1 DEF RowsIn, StepInv
    <3>2. RowsIn(c)' = RowsOf(c) /\ RowsOf(c)' = RowsOf(c) /\ answer'[c] = status
      BY <2>1, <2>2, <3>1 DEF RowsIn, RowsOf, TypeOK
    <3>3. RowsOf(c) # {}
      <4>1. items[c] \in Seq(Requests) /\ Len(items[c]) >= 1
        BY <2>1 DEF TypeOK, StepInv
      <4>2. 1 \in DOMAIN items[c]
        BY <4>1
      <4>3. <<c, 1>> \in RowsOf(c)
        BY <4>2 DEF RowsOf
      <4> QED BY <4>3
    <3> QED BY <2>4, <3>2, <3>3 DEF AnswerInv
  <2> QED BY <2>3, <2>4
<1>4. ASSUME NEW c \in Calls, NEW status \in {400, 404, 409, 500}, Ends(c, status) PROVE AnswerInv(d)'
  <2>1. UNCHANGED <<rows, items>> /\ answer' = [answer EXCEPT ![c] = status] /\ pc[c] # "done"
    BY <1>4 DEF Ends, Answer
  <2>2. RowsIn(d)' = RowsIn(d)
    BY <2>1 DEF RowsIn
  <2>3. CASE d # c
    BY <1>1, <2>1, <2>2, <2>3, AnswerFrame DEF TypeOK
  <2>4. CASE d = c
    <3>1. RowsIn(c) = {}
      BY <2>1 DEF RowsIn, StepInv
    <3>2. answer'[c] = status
      BY <2>1 DEF TypeOK
    <3> QED BY <2>2, <2>4, <3>1, <3>2 DEF AnswerInv
  <2> QED BY <2>3, <2>4
<1>5. ASSUME NEW c \in Calls, NEW k, NEW s, Receives(c, k, s) PROVE AnswerInv(d)'
  BY <1>2, <1>5 DEF Receives
<1>6. ASSUME NEW c \in Calls, NEW text, Renders(c, text) PROVE AnswerInv(d)'
  BY <1>2, <1>6 DEF Renders
<1>7. ASSUME NEW c \in Calls, Begin(c) \/ Insert(c) PROVE AnswerInv(d)'
  BY <1>2, <1>7 DEF Begin, Insert, tables
<1>8. ASSUME CrashStep PROVE AnswerInv(d)'
  BY <1>2, <1>8 DEF CrashStep
<1> QED BY <1>2, <1>3, <1>4, <1>5, <1>6, <1>7, <1>8 DEF Step

\* What a 409 says of a request.
Conflicts(c) ==
    \/ \E i \in DOMAIN items[c] : KeyOf(c, i) \in CommittedKeys
    \/ \E i, j \in DOMAIN items[c] : i # j /\ KeyOf(c, i) = KeyOf(c, j) /\ KeyOf(c, i) # NoKey

\* A duplicate key is one of the table or of the request itself.
LEMMA TakenConflicts ==
  ASSUME TypeOK, NEW c \in Calls, StepInv(c), pc[c] = "insert", Taken(c, KeyOf(c, pos[c]))
  PROVE  Conflicts(c)
<1>1. items[c] \in Seq(Requests) /\ pos[c] \in Nat /\ pos[c] >= 1 /\ pos[c] <= Len(items[c])
  BY DEF TypeOK, StepInv
<1>2. pos[c] \in DOMAIN items[c] /\ \A i \in 1..(pos[c] - 1) : i \in DOMAIN items[c] /\ i # pos[c]
  BY <1>1
<1>3. CASE KeyOf(c, pos[c]) \in CommittedKeys
  BY <1>2, <1>3 DEF Conflicts
<1>4. CASE KeyOf(c, pos[c]) \in Uncommitted(c)
  <2>1. KeyOf(c, pos[c]) \in {KeyOf(c, i) : i \in 1..(pos[c] - 1)} \ {NoKey}
    BY <1>4 DEF Uncommitted
  <2>2. PICK i \in 1..(pos[c] - 1) : KeyOf(c, i) = KeyOf(c, pos[c]) /\ KeyOf(c, i) # NoKey
    BY <2>1
  <2> QED BY <1>2, <2>2 DEF Conflicts
<1> QED BY <1>3, <1>4 DEF Taken

LEMMA ConflictStep ==
  ASSUME TypeOK, \A c \in Calls : StepInv(c), ConflictIsReal, Step
  PROVE  ConflictIsReal'
<1> SUFFICES ASSUME NEW d \in Calls, answer'[d] = 409 PROVE Conflicts(d)'
  BY DEF ConflictIsReal, Conflicts
<1>1. CommittedKeys \subseteq CommittedKeys'
  BY RowsStay DEF CommittedKeys, KeyOf
<1>2. ASSUME Conflicts(d), items'[d] = items[d] PROVE Conflicts(d)'
  <2>1. \A i : KeyOf(d, i)' = items'[d][i].key /\ items'[d][i].key = KeyOf(d, i)
    BY <1>2 DEF KeyOf
  <2> QED BY <1>1, <1>2, <2>1 DEF Conflicts, KeyOf
<1>3. CASE answer[d] = 409
  <2>1. pc[d] = "done" /\ Conflicts(d)
    BY <1>3 DEF StepInv, ConflictIsReal, Conflicts
  <2> QED BY <1>2, <2>1, ItemsStay
<1>4. CASE answer[d] # 409
  <2>1. ASSUME NEW c \in Calls, NEW status \in {400, 404, 409, 500}, Ends(c, status) PROVE Conflicts(d)'
    <3>1. c = d /\ status = 409 /\ UNCHANGED items
      BY <1>4, <2>1 DEF Ends, Answer, TypeOK
    <3>2. Conflicts(d)
      BY <2>1, <3>1, TakenConflicts DEF Ends
    <3> QED BY <1>2, <3>1, <3>2
  <2>2. ASSUME NEW c \in Calls, NEW status \in {201, 500}, Stores(c, status) PROVE FALSE
    BY <1>4, <2>2 DEF Stores, Answer, TypeOK
  <2>3. ASSUME NEW c \in Calls, NEW k, NEW s, Receives(c, k, s) PROVE FALSE
    BY <1>4, <2>3 DEF Receives
  <2>4. ASSUME NEW c \in Calls, NEW text, Renders(c, text) PROVE FALSE
    BY <1>4, <2>4 DEF Renders
  <2>5. ASSUME NEW c \in Calls, Begin(c) \/ Insert(c) PROVE FALSE
    BY <1>4, <2>5 DEF Begin, Insert
  <2>6. ASSUME CrashStep PROVE FALSE
    BY <1>4, <2>6 DEF CrashStep
  <2> QED BY <1>4, <2>1, <2>2, <2>3, <2>4, <2>5, <2>6 DEF Step
<1> QED BY <1>3, <1>4

\* What Validate leaves of an item.
Checked(k, item) ==
    /\ Len(item.content) > MaxLength => k = "single" /\ item.template # NoTemplate
    /\ item.content = <<>> => item.template # NoTemplate

LEMMA ItemStep ==
  ASSUME TypeOK, \A c \in Calls : StepInv(c), ItemInv, Step
  PROVE  ItemInv'
<1> SUFFICES ASSUME NEW d \in Calls, NEW i \in DOMAIN items'[d] PROVE Checked(kind'[d], items'[d][i])
  BY DEF ItemInv, Checked
<1>1. ASSUME items'[d] = items[d], kind'[d] = kind[d] PROVE Checked(kind'[d], items'[d][i])
  BY <1>1 DEF ItemInv, Checked
<1>2. ASSUME NEW c \in Calls, NEW k, NEW s, Receives(c, k, s) PROVE Checked(kind'[d], items'[d][i])
  <2>1. CASE d # c
    BY <1>1, <1>2, <2>1 DEF Receives, TypeOK
  <2>2. CASE d = c
    <3>1. items'[d] = s /\ s \in Seq(Requests) /\ Validate(s[i])
      BY <1>2, <2>2 DEF Receives, TypeOK
    <3>2. s[i] \in Requests
      BY <3>1
    <3>3. Len(s[i].content) \in Nat
      BY <3>2 DEF Requests
    <3> QED BY <3>1, <3>3 DEF Validate, Checked
  <2> QED BY <2>1, <2>2
<1>3. ASSUME NEW c \in Calls, NEW text, Renders(c, text) PROVE Checked(kind'[d], items'[d][i])
  <2>1. UNCHANGED kind /\ kind[c] = "single" /\ items[c][1].template # NoTemplate
    BY <1>3 DEF Renders, StepInv
  <2>2. CASE d # c
    BY <1>1, <1>3, <2>1, <2>2, RenderedItem
  <2>3. CASE d = c
    <3>1. items'[c] \in Seq(Requests) /\ Len(items'[c]) = 1 /\ items'[c][1].template = items[c][1].template
      BY <1>3, RenderedItem
    <3>2. i = 1
      BY <2>3, <3>1
    <3> QED BY <2>1, <2>3, <3>1, <3>2 DEF Checked
  <2> QED BY <2>2, <2>3
<1>4. ASSUME NEW c \in Calls, Begin(c) \/ Insert(c) PROVE Checked(kind'[d], items'[d][i])
  BY <1>1, <1>4 DEF Begin, Insert
<1> QED BY <1>1, <1>2, <1>3, <1>4 DEF Step, Stores, Ends, CrashStep

LEMMA ContentStep ==
  ASSUME TypeOK, \A c \in Calls : StepInv(c), ContentInv, Step
  PROVE  ContentInv'
<1> DEFINE Good(r) == r[2] \in DOMAIN items'[r[1]] /\ content'[r] = items'[r[1]][r[2]].content
<1> SUFFICES ASSUME NEW r \in rows' PROVE Good(r)
  BY DEF ContentInv
<1>1. ASSUME r \in rows, content'[r] = content[r] PROVE Good(r)
  BY <1>1, RowsStay DEF ContentInv
<1>2. ASSUME NEW c \in Calls, NEW status, Stores(c, status) PROVE Good(r)
  <2>1. /\ rows' = rows \cup RowsOf(c) /\ UNCHANGED items
        /\ content' = [q \in Row |-> IF q \in RowsOf(c) THEN items[q[1]][q[2]].content ELSE content[q]]
    BY <1>2 DEF Stores, Publish
  <2>2. r \in Row
    <3>1. items[c] \in Seq(Requests) /\ Len(items[c]) <= MaxBatchSize
      BY DEF TypeOK
    <3>2. DOMAIN items[c] \subseteq 1..MaxBatchSize
      BY <3>1
    <3> QED BY <2>1, <3>2 DEF RowsOf, Row, TypeOK
  <2>3. CASE r \in RowsOf(c)
    BY <2>1, <2>2, <2>3 DEF RowsOf
  <2>4. CASE r \notin RowsOf(c)
    BY <1>1, <2>1, <2>2, <2>4
  <2> QED BY <2>3, <2>4
<1>3. ASSUME UNCHANGED <<rows, content>> PROVE Good(r)
  BY <1>1, <1>3
<1>4. ASSUME NEW c \in Calls, Begin(c) \/ Insert(c) PROVE Good(r)
  BY <1>3, <1>4 DEF Begin, Insert, tables
<1>5. ASSUME NEW c \in Calls, NEW k, NEW s, Receives(c, k, s) PROVE Good(r)
  BY <1>3, <1>5 DEF Receives
<1>6. ASSUME NEW c \in Calls, NEW text, Renders(c, text) PROVE Good(r)
  BY <1>3, <1>6 DEF Renders
<1> HIDE DEF Good
<1> QED BY <1>2, <1>3, <1>4, <1>5, <1>6 DEF Step, Ends, CrashStep

-----------------------------------------------------------------------------
(* Rendered templates *)

\* The item of c has passed the template, or is stored.
Settled(c) == pc[c] \in {"begin", "insert", "commit"} \/ \E r \in rows : r[1] = c

\* The template of item exists and item has the content it means.
Meant(item) ==
    /\ template[item.template] # <<>>
    /\ \A source \in Sources :
          template[item.template] = Spell(source) => item.content = AllAtOnce(source, item.variables)

\* What a row will be about is decided when the template is rendered, before the
\* INSERT, and stays so while the table of templates grows.
RenderInv ==
    \A c \in Calls : \A i \in DOMAIN items[c] :
        LET item == items[c][i] IN
        kind[c] = "single" /\ item.template # NoTemplate /\ NoBraces(item.variables) /\ Settled(c) => Meant(item)

\* POST /templates makes templates; nothing changes or deletes one.
LEMMA TemplateStays ==
  ASSUME TypeOK, [Next]_vars, NEW t \in Templates, template[t] # <<>>
  PROVE  template'[t] = template[t]
<1>1. ASSUME NEW u \in Templates, NEW text \in Texts, CreateTemplate(u, text) PROVE template'[t] = template[t]
  BY <1>1 DEF CreateTemplate, TypeOK
<1> QED BY <1>1 DEF Next, Handle, Create, CreateBatch, Receive, Refuse, ResolveTemplate, Begin, Insert,
         InsertSingle, Conflict, Commit, DeadlockAbort, CommitError, StatementError, Crash, vars, tables

\* The step that settles an item either finds no template or renders it.
LEMMA Settles ==
  ASSUME TypeOK, \A c \in Calls : StepInv(c), Step, NEW d \in Calls, ~Settled(d), Settled(d)'
  PROVE  \/ kind'[d] = "single" => Len(items'[d]) = 1 /\ items'[d][1].template = NoTemplate
         \/ \E text : Renders(d, text)
<1> DEFINE G == \/ kind'[d] = "single" => Len(items'[d]) = 1 /\ items'[d][1].template = NoTemplate
                \/ \E text : Renders(d, text)
<1>1. ASSUME UNCHANGED rows, pc'[d] = pc[d] PROVE FALSE
  BY <1>1 DEF Settled
<1>2. ASSUME NEW c \in Calls, NEW k, NEW s, Receives(c, k, s) PROVE G
  <2>1. CASE d # c
    BY <1>1, <1>2, <2>1 DEF Receives, TypeOK
  <2>2. CASE d = c
    <3>1. UNCHANGED rows /\ pc[d] = "idle" /\ pc'[d] # "template"
      BY <1>2, <2>2 DEF Receives, StepInv, Settled, TypeOK
    <3>2. pc' = [pc EXCEPT ![c] = "begin"] /\ (k = "single" => s[1].template = NoTemplate)
      BY <1>2, <2>2, <3>1 DEF Receives, TypeOK
    <3>3. kind'[d] = k /\ items'[d] = s /\ (k = "single" => Len(s) = 1)
      BY <1>2, <2>2 DEF Receives, TypeOK
    <3> QED BY <3>2, <3>3
  <2> QED BY <2>1, <2>2
<1>3. ASSUME NEW c \in Calls, NEW text, Renders(c, text) PROVE G
  <2>1. CASE d # c
    BY <1>1, <1>3, <2>1 DEF Renders, TypeOK
  <2> QED BY <1>3, <2>1
<1>4. ASSUME NEW c \in Calls, Begin(c) \/ Insert(c) PROVE FALSE
  <2>1. CASE d # c
    BY <1>1, <1>4, <2>1 DEF Begin, Insert, tables, TypeOK
  <2> QED BY <1>4, <2>1 DEF Begin, Insert, Settled
<1>5. ASSUME NEW c \in Calls, NEW status, Stores(c, status) PROVE FALSE
  <2>1. rows' = rows \cup RowsOf(c) /\ \A r \in RowsOf(c) : r[1] = c
    BY <1>5 DEF Stores, Publish, RowsOf
  <2>2. pc[c] \in {"insert", "commit"} /\ pc' = [pc EXCEPT ![c] = "done"]
    BY <1>5 DEF Stores, Storable, Answer
  <2>3. d # c
    BY <2>2 DEF Settled
  <2> QED BY <2>1, <2>2, <2>3 DEF Settled, TypeOK
<1>6. ASSUME NEW c \in Calls, NEW status, Ends(c, status) PROVE FALSE
  BY <1>6 DEF Ends, Answer, Settled, TypeOK
<1>7. ASSUME CrashStep PROVE FALSE
  BY <1>7 DEF CrashStep, Settled
<1> HIDE DEF G
<1>8. G
  BY <1>1, <1>2, <1>3, <1>4, <1>5, <1>6, <1>7 DEF Step
<1> QED BY <1>8 DEF G

LEMMA MeantStep == ASSUME TypeOK, \A c \in Calls : StepInv(c), RenderInv, [Next]_vars PROVE RenderInv'
<1> SUFFICES ASSUME NEW d \in Calls, NEW i \in DOMAIN items'[d], kind'[d] = "single",
                    items'[d][i].template # NoTemplate, NoBraces(items'[d][i].variables), Settled(d)'
             PROVE  LET t == items'[d][i].template IN
                    /\ template'[t] # <<>>
                    /\ \A source \in Sources :
                          template'[t] = Spell(source) =>
                              items'[d][i].content = AllAtOnce(source, items'[d][i].variables)
  BY DEF RenderInv, Meant
<1>1. Step /\ TypeOK'
  BY StepKinds, TypeStep
<1>2. items'[d] \in Seq(Requests) /\ items'[d][i] \in Requests
  <2>1. items'[d] \in Seq(Requests)
    BY <1>1 DEF TypeOK
  <2> QED BY <2>1
<1>3. items'[d][i].template \in Templates
  BY <1>2 DEF Requests
<1>4. SUFFICES Meant(items'[d][i])
  BY <1>3, TemplateStays DEF Meant
<1>5. CASE Settled(d)
  <2>1. pc[d] \notin {"idle", "template"}
    BY <1>5 DEF Settled, StepInv
  <2>2. items'[d] = items[d] /\ kind'[d] = kind[d]
    BY <1>1, <2>1, ItemsStay
  <2> QED BY <1>5, <2>2 DEF RenderInv
<1>6. CASE ~Settled(d)
  <2>1. ~(Len(items'[d]) = 1 /\ items'[d][1].template = NoTemplate)
    <3>1. Len(items'[d]) = 1 => i = 1
      BY <1>2
    <3> QED BY <3>1
  <2>2. PICK text : Renders(d, text)
    BY <1>1, <1>6, <2>1, Settles
  <2>3. /\ Len(items'[d]) = 1 /\ items'[d][1].template = items[d][1].template
        /\ items'[d][1].variables = items[d][1].variables /\ items'[d][1].content = text
    BY <2>2, RenderedItem
  <2>4. i = 1
    BY <1>2, <2>3
  <2>5. items'[d][1].variables \in Variables
    BY <1>2, <2>4 DEF Requests
  <2>6. text \in Render(template[items'[d][1].template], items'[d][1].variables)
    BY <2>2, <2>3 DEF Renders, Outcome
  <2>7. template[items'[d][1].template] # <<>>
    BY <2>2, <2>3, TextsAssumption DEF Renders, Outcome
  <2>8. ASSUME NEW source \in Sources, template[items'[d][1].template] = Spell(source)
        PROVE  text = AllAtOnce(source, items'[d][1].variables)
    <3>1. source \in Seq(Tokens)
      BY TextsAssumption DEF Tokens
    <3>2. Render(Spell(source), items'[d][1].variables) = {AllAtOnce(source, items'[d][1].variables)}
      BY <2>4, <2>5, <3>1, RenderOrderFree
    <3> QED BY <2>6, <2>8, <3>2
  <2> QED BY <2>3, <2>4, <2>7, <2>8 DEF Meant
<1> QED BY <1>5, <1>6

-----------------------------------------------------------------------------
(* The theorems *)

LEMMA IntakeInit == ASSUME Init PROVE IntakeInv
<1>1. TypeOK
  <2>1. <<>> \in Seq(Chars) /\ <<>> \in Seq(Requests) /\ Len(<<>>) = 0
    OBVIOUS
  <2> QED BY <2>1 DEF Init, TypeOK, Steps
<1>2. \A c \in Calls : StepInv(c)
  BY DEF Init, StepInv
<1>3. Inserted = {}
  BY DEF Init, Inserted
<1>4. KeyInv /\ ContentInv /\ ConflictIsReal
  BY <1>3 DEF KeyInv, ContentInv, ConflictIsReal, Init
<1>5. AllOrNothing
  BY DEF AllOrNothing, Init
<1>6. ItemInv
  <2>1. \A c \in Calls : DOMAIN items[c] = {}
    <3>1. DOMAIN <<>> = {}
      OBVIOUS
    <3> QED BY <3>1 DEF Init
  <2> QED BY <2>1 DEF ItemInv
<1> QED BY <1>1, <1>2, <1>4, <1>5, <1>6 DEF IntakeInv

\* The invariant of the whole path, from the request to the table.
THEOREM IntakePath == Spec => []IntakeInv
<1>1. ASSUME IntakeInv, [Next]_vars PROVE IntakeInv'
  <2>1. Step /\ TypeOK'
    BY <1>1, StepKinds, TypeStep DEF IntakeInv
  <2>2. \A c \in Calls : StepInv(c)'
    BY <1>1, <2>1, StepStep DEF IntakeInv
  <2>3. KeyInv' /\ ConflictIsReal' /\ ItemInv' /\ ContentInv'
    BY <1>1, <2>1, KeyStep, ConflictStep, ItemStep, ContentStep DEF IntakeInv
  <2>4. \A c \in Calls : AnswerInv(c)'
    BY <1>1, <2>1, AnswerStep, AnswerByCall DEF IntakeInv
  <2>5. AllOrNothing'
    BY <2>4 DEF AllOrNothing, AnswerInv, RowsIn
  <2> QED BY <2>1, <2>2, <2>3, <2>5 DEF IntakeInv
<1> QED BY <1>1, IntakeInit, PTL DEF Spec

\* A request is stored whole or not at all, for any size of batch, any overlap of
\* transactions, deadlock, failed statement or crash, and 201, 400, 404 and 409
\* tell the client which (Create, CreateBatch).
THEOREM StoredWholeOrNot == Spec => []AllOrNothing
<1>1. IntakeInv => AllOrNothing
  BY DEF IntakeInv
<1> QED BY <1>1, IntakePath, PTL

\* The UNIQUE idempotency_key holds among committed rows, because it holds among
\* all inserted ones.
THEOREM OneRowPerKey == Spec => []KeyUnique
<1>1. IntakeInv => KeyUnique
  <2>1. KeyInv => KeyUnique
    BY DEF KeyInv, KeyUnique, Inserted, RowKey
  <2> QED BY <2>1 DEF IntakeInv
<1> QED BY <1>1, IntakePath, PTL

\* A 409 is never caused by a transaction that is rolled back later.
THEOREM ConflictFinal == Spec => []ConflictIsReal
<1>1. IntakeInv => ConflictIsReal
  BY DEF IntakeInv
<1> QED BY <1>1, IntakePath, PTL

\* The only contents in the table that Validate would refuse are rendered
\* templates and the items of batches that name a template.
THEOREM OnlyCheckedContent == Spec => []ContentChecked
<1>1. IntakeInv => ContentChecked
  <2> SUFFICES ASSUME TypeOK, ItemInv, ContentInv, NEW r \in rows
               PROVE  LET item == items[r[1]][r[2]] IN
                      /\ Len(content[r]) > MaxLength => kind[r[1]] = "single" /\ item.template # NoTemplate
                      /\ content[r] = <<>> => item.template # NoTemplate
    BY DEF ContentChecked, IntakeInv
  <2>1. r[1] \in Calls
    BY DEF TypeOK, Row
  <2>2. r[2] \in DOMAIN items[r[1]] /\ content[r] = items[r[1]][r[2]].content
    BY DEF ContentInv
  <2> QED BY <2>1, <2>2 DEF ItemInv
<1> QED BY <1>1, IntakePath, PTL

\* Every request in hand and every column has its type; what ReplaceAll makes of a
\* text is a text.
THEOREM IntakeTyped == Spec => []TypeOK
<1>1. IntakeInv => TypeOK
  BY DEF IntakeInv
<1> QED BY <1>1, IntakePath, PTL

\* Two equal requests whose values contain no brace store equal contents, what the
\* template means, for a template whose only braces are those of its placeholders,
\* whatever the order in which Go walks the map of variables and however many
\* templates, requests and crashes come between Template.Render and the INSERT.
THEOREM RenderedOnce == Spec => []RenderedInOneWay
<1>1. Init => RenderInv
  <2>1. DOMAIN <<>> = {}
    OBVIOUS
  <2> QED BY <2>1 DEF Init, RenderInv
<1>2. ASSUME IntakeInv, RenderInv, [Next]_vars PROVE RenderInv'
  BY <1>2, MeantStep DEF IntakeInv
<1>3. IntakeInv /\ RenderInv => RenderedInOneWay
  <2> SUFFICES ASSUME IntakeInv, RenderInv, NEW r \in rows, kind[r[1]] = "single",
                      items[r[1]][r[2]].template # NoTemplate, NoBraces(items[r[1]][r[2]].variables)
               PROVE  \A source \in Sources :
                         template[items[r[1]][r[2]].template] = Spell(source) =>
                             content[r] = AllAtOnce(source, items[r[1]][r[2]].variables)
    BY DEF RenderedInOneWay
  <2>1. r[1] \in Calls /\ Settled(r[1])
    BY DEF IntakeInv, TypeOK, Row, Settled
  <2>2. r[2] \in DOMAIN items[r[1]] /\ content[r] = items[r[1]][r[2]].content
    BY DEF IntakeInv, ContentInv
  <2> QED BY <2>1, <2>2 DEF RenderInv, Meant
<1> QED BY <1>1, <1>2, <1>3, IntakePath, PTL DEF Spec
=============================================================================
