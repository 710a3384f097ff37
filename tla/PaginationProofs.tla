--------------------------- MODULE PaginationProofs ---------------------------
(* Listing with cursors, for any number of rows, any page sizes and any inserts *)
(* and status changes between two pages.                                       *)
EXTENDS Pagination, FiniteSetTheorems, WellFoundedInduction, TLAPS

ListInv == TypeOK /\ PagesDescend /\ NothingSkipped /\ PageInv

-----------------------------------------------------------------------------
(* The order of the pages *)

LEMMA SmallestMember ==
  ASSUME NEW S, IsFiniteSet(S), NEW F, F \subseteq SUBSET S, F # {}
  PROVE  \E A \in F : \A B \in F : B \subseteq A => B = A
<1>1. F \subseteq FiniteSubsetsOf(S)
  BY FS_Subset DEF FiniteSubsetsOf
<1>2. \E A \in F : \A B \in F : ~(<<B, A>> \in StrictSubsetOrdering(S))
  <2>1. IsWellFoundedOn(StrictSubsetOrdering(S), FiniteSubsetsOf(S))
    BY FS_StrictSubsetOrderingWellFounded
  <2> QED BY <1>1, <2>1, WFMin
<1>3. \A A, B \in F : B \subseteq A /\ B # A => <<B, A>> \in StrictSubsetOrdering(S)
  BY DEF StrictSubsetOrdering
<1> QED BY <1>2, <1>3

LEMMA SmallestImage ==
  ASSUME NEW S, IsFiniteSet(S), NEW D, D # {}, NEW f \in [D -> SUBSET S]
  PROVE  \E r \in D : \A q \in D : f[q] \subseteq f[r] => f[q] = f[r]
<1> DEFINE F == {f[r] : r \in D}
<1>1. F \subseteq SUBSET S /\ F # {} /\ \A A : A \in F <=> \E r \in D : A = f[r]
  OBVIOUS
<1> HIDE DEF F
<1>2. PICK A \in F : \A B \in F : B \subseteq A => B = A
  BY <1>1, SmallestMember
<1>3. PICK r \in D : A = f[r]
  BY <1>1, <1>2
<1>4. \A q \in D : f[q] \in F
  BY <1>1
<1> QED BY <1>2, <1>3, <1>4

\* created_at and id together order the rows.
LEMMA NewerOrder ==
  ASSUME created \in [Rows -> Int], NEW p \in Rows, NEW q \in Rows, NEW r \in Rows
  PROVE  /\ ~Newer(p, p)
         /\ Newer(p, q) /\ Newer(q, r) => Newer(p, r)
         /\ p = q \/ Newer(p, q) \/ Newer(q, p)
         /\ ~(Newer(p, q) /\ Newer(q, p))
<1>1. p \in Int /\ q \in Int /\ r \in Int /\ created[p] \in Int /\ created[q] \in Int /\ created[r] \in Int
  BY RowsAssumption
<1> QED BY <1>1 DEF Newer

\* A finite set of rows has a newest one.
LEMMA NewestExists ==
  ASSUME created \in [Rows -> Int], NEW S, S \subseteq Rows, S # {}
  PROVE  \E r \in S : \A q \in S : q = r \/ Newer(r, q)
<1> DEFINE above == [r \in S |-> {q \in S : Newer(q, r)}]
<1>1. IsFiniteSet(S) /\ above \in [S -> SUBSET S]
  BY RowsAssumption, FS_Subset
<1>2. \A r, q \in S : q \in above[r] <=> Newer(q, r)
  OBVIOUS
<1> HIDE DEF above
<1>3. PICK r \in S : \A q \in S : above[q] \subseteq above[r] => above[q] = above[r]
  BY <1>1, SmallestImage
<1>4. ASSUME NEW q \in S, Newer(q, r) PROVE FALSE
  <2>1. \A x \in above[q] : x \in S /\ x \in above[r]
    BY <1>1, <1>2, <1>4, NewerOrder
  <2>2. q \in above[r] /\ q \notin above[q]
    BY <1>2, <1>4, NewerOrder
  <2>3. above[q] \subseteq above[r]
    BY <2>1
  <2> QED BY <1>3, <2>2, <2>3
<1> QED BY <1>4, NewerOrder

\* And a last one, which the next cursor points at.
LEMMA LastOfPage ==
  ASSUME created \in [Rows -> Int], NEW S, S \subseteq Rows, S # {}
  PROVE  Last(S) \in S /\ \A q \in S : q = Last(S) \/ Newer(q, Last(S))
<1> DEFINE older == [r \in S |-> {q \in S : Newer(r, q)}]
<1>1. IsFiniteSet(S) /\ older \in [S -> SUBSET S]
  BY RowsAssumption, FS_Subset
<1>2. \A r, q \in S : q \in older[r] <=> Newer(r, q)
  OBVIOUS
<1> HIDE DEF older
<1>3. PICK r \in S : \A q \in S : older[q] \subseteq older[r] => older[q] = older[r]
  BY <1>1, SmallestImage
<1>4. ASSUME NEW q \in S, Newer(r, q) PROVE FALSE
  <2>1. \A x \in older[q] : x \in S /\ x \in older[r]
    BY <1>1, <1>2, <1>4, NewerOrder
  <2>2. q \in older[r] /\ q \notin older[q]
    BY <1>2, <1>4, NewerOrder
  <2>3. older[q] \subseteq older[r]
    BY <2>1
  <2> QED BY <1>3, <2>2, <2>3
<1>5. \E s \in S : \A q \in S : q = s \/ Newer(q, s)
  BY <1>4, NewerOrder
<1> QED BY <1>5 DEF Last

-----------------------------------------------------------------------------
(* LIMIT *)

LEMMA TopSubset == \A S, k : Top(S, k) \subseteq S
  BY DEF Top

\* A page is cut off below: with a row it has every newer one.
LEMMA TopClosed ==
  ASSUME created \in [Rows -> Int], NEW S, S \subseteq Rows, NEW k \in Nat,
         NEW r \in Top(S, k), NEW q \in S, Newer(q, r)
  PROVE  q \in Top(S, k)
<1> DEFINE Above(p) == {x \in S : Newer(x, p)}
<1>1. r \in S /\ Cardinality(Above(r)) < k
  BY DEF Top
<1>2. Above(q) \subseteq Above(r)
  BY <1>1, NewerOrder
<1>3. IsFiniteSet(S)
  BY RowsAssumption, FS_Subset
<1>4. IsFiniteSet(Above(r)) /\ IsFiniteSet(Above(q))
  BY <1>3, FS_Subset
<1>5. Cardinality(Above(q)) <= Cardinality(Above(r)) /\ Cardinality(Above(q)) \in Nat /\ Cardinality(Above(r)) \in Nat
  BY <1>2, <1>4, FS_Subset, FS_CardinalityType
<1>6. Cardinality(Above(q)) < k
  BY <1>1, <1>5
<1> QED BY <1>6 DEF Top

\* A page of a table that is not empty is not empty.
LEMMA TopNotEmpty ==
  ASSUME created \in [Rows -> Int], NEW S, S \subseteq Rows, S # {}, NEW k \in Nat \ {0}
  PROVE  Top(S, k) # {}
<1>1. PICK r \in S : \A q \in S : q = r \/ Newer(r, q)
  BY NewestExists
<1>2. {q \in S : Newer(q, r)} = {}
  BY <1>1, NewerOrder
<1>3. Cardinality({q \in S : Newer(q, r)}) < k
  BY <1>2, FS_EmptySet
<1> QED BY <1>3 DEF Top

\* When one more row than the page holds cannot be fetched, the page has all rows.
LEMMA TopAll ==
  ASSUME created \in [Rows -> Int], NEW S, S \subseteq Rows, NEW k \in Nat,
         Cardinality(Top(S, k + 1)) <= k
  PROVE  Top(S, k + 1) = S /\ Top(S, k) = S
<1>1. IsFiniteSet(S) /\ \A T \in SUBSET S : IsFiniteSet(T) /\ Cardinality(T) \in Nat
  BY RowsAssumption, FS_Subset, FS_CardinalityType
<1>2. Top(S, k + 1) = S
  <2> SUFFICES ASSUME S \ Top(S, k + 1) # {} PROVE FALSE
    BY TopSubset
  <2>1. PICK m \in S \ Top(S, k + 1) : \A q \in S \ Top(S, k + 1) : q = m \/ Newer(m, q)
    BY NewestExists
  <2> DEFINE Above == {q \in S : Newer(q, m)}
  <2>2. Above \subseteq Top(S, k + 1)
    BY <2>1, NewerOrder
  <2>3. Cardinality(Above) <= Cardinality(Top(S, k + 1))
    BY <1>1, <2>2, TopSubset, FS_Subset
  <2>4. Cardinality(Above) \in Nat /\ Cardinality(Top(S, k + 1)) \in Nat
    BY <1>1, TopSubset
  <2>5. Cardinality(Above) < k + 1
    BY <2>3, <2>4
  <2>6. m \in Top(S, k + 1)
    BY <2>5 DEF Top
  <2> QED BY <2>6
<1>3. Cardinality(S) <= k
  BY <1>2
<1>4. ASSUME NEW r \in S PROVE Cardinality({q \in S : Newer(q, r)}) < k
  <2> DEFINE Above == {q \in S : Newer(q, r)}
  <2>1. Above \subseteq S /\ Above # S
    BY NewerOrder
  <2>2. Cardinality(Above) <= Cardinality(S) /\ Cardinality(Above) # Cardinality(S)
    BY <1>1, <2>1, FS_Subset
  <2>3. Cardinality(Above) \in Nat /\ Cardinality(S) \in Nat
    BY <1>1
  <2> HIDE DEF Above
  <2>4. Cardinality(Above) < k
    BY <1>3, <2>2, <2>3
  <2> QED BY <2>4 DEF Above
<1> QED BY <1>2, <1>4 DEF Top

LEMMA MinOfTwo == ASSUME NEW a \in Int, NEW b \in Int PROVE Min({a, b}) = IF a <= b THEN a ELSE b
  BY DEF Min

LEMMA PageSizePositive == \A l \in Accepted : PageSize(l) \in Nat \ {0}
<1> SUFFICES ASSUME NEW l \in Accepted PROVE PageSize(l) \in Nat \ {0}
  OBVIOUS
<1>1. CASE l = NoLimit
  BY <1>1, LimitsAssumption DEF PageSize
<1>2. CASE l # NoLimit
  <2>1. l \in Int /\ l >= 1 /\ MaxLimit \in Int /\ MaxLimit >= 1
    <3>1. l \in Limits /\ l >= 1
      BY <1>2, ZenonT(60) DEF Accepted
    <3>2. \A m \in Limits : m \in Int
      BY LimitsAssumption
    <3>3. MaxLimit \in Int /\ MaxLimit >= 1
      BY LimitsAssumption
    <3> QED BY <3>1, <3>2, <3>3
  <2>2. Min({l, MaxLimit}) \in {l, MaxLimit}
    BY <2>1, MinOfTwo
  <2> QED BY <1>2, <2>1, <2>2 DEF PageSize
<1> QED BY <1>1, <1>2

-----------------------------------------------------------------------------
(* One page *)

\* What holds of created and the tables throughout a listing step.
LEMMA Typed ==
  ASSUME TypeOK
  PROVE  /\ created \in [Rows -> Int] /\ created \in [Rows -> Times]
         /\ table \subseteq Rows /\ shown \subseteq Rows /\ page \subseteq Rows
<1>1. 0..now \subseteq Times /\ Times \subseteq Int
  BY TimeAssumption DEF TypeOK, Times
<1> QED BY <1>1 DEF TypeOK

\* The decoded cursor cuts where its row is.
LEMMA CursorCuts ==
  ASSUME created \in [Rows -> Int], NEW l \in Rows, NEW r \in Rows
  PROVE  Below(r, Encode(l)) <=> Newer(l, r)
<1>1. l \in Int /\ r \in Int /\ created[l] \in Int /\ created[r] \in Int
  BY RowsAssumption
<1> QED BY <1>1 DEF Below, Encode, Newer

\* Rows above a cursor are newer than rows below it.
LEMMA AcrossCursor ==
  ASSUME created \in [Rows -> Int], cursor \in Cursors, NEW q \in Rows, NEW r \in Rows, ~Below(q, cursor), Below(r, cursor)
  PROVE  Newer(q, r)
<1>1. cursor.c \in Int /\ cursor.i \in Int
  <2>1. cursor.c \in Times /\ cursor.i \in Rows
    BY DEF Cursors
  <2>2. Times \subseteq Int
    BY TimeAssumption DEF Times
  <2> QED BY <2>1, <2>2, RowsAssumption
<1>2. q \in Int /\ r \in Int /\ created[q] \in Int /\ created[r] \in Int
  BY RowsAssumption
<1> QED BY <1>1, <1>2 DEF Below, Newer

\* The rows of one page, out of the candidates C.
LEMMA OnePage ==
  ASSUME created \in [Rows -> Int], NEW C, C \subseteq Rows, NEW k \in Nat \ {0},
         NEW P, P = Top(Top(C, k + 1), k)
  PROVE  /\ P \subseteq C
         /\ Cardinality(Top(C, k + 1)) > k =>
               /\ Last(P) \in P
               /\ \A q \in P : q = Last(P) \/ Newer(q, Last(P))
               /\ \A r \in C : r \in P \/ Newer(Last(P), r)
         /\ ~(Cardinality(Top(C, k + 1)) > k) => P = C
<1> DEFINE R == Top(C, k + 1)
<1>1. R \subseteq C /\ P \subseteq R /\ k \in Nat /\ k + 1 \in Nat
  BY TopSubset
<1>2. IsFiniteSet(R) /\ Cardinality(R) \in Nat
  <2>1. R \subseteq Rows
    BY <1>1
  <2> QED BY <2>1, RowsAssumption, FS_Subset, FS_CardinalityType
<1>3. ASSUME Cardinality(R) > k
      PROVE  /\ Last(P) \in P
             /\ \A q \in P : q = Last(P) \/ Newer(q, Last(P))
             /\ \A r \in C : r \in P \/ Newer(Last(P), r)
  <2>1. R # {}
    BY <1>1, <1>3, FS_EmptySet
  <2>2. R \subseteq Rows /\ P \subseteq Rows
    BY <1>1
  <2>3. P # {}
    BY <2>1, <2>2, TopNotEmpty
  <2>4. Last(P) \in P /\ \A q \in P : q = Last(P) \/ Newer(q, Last(P))
    BY <2>2, <2>3, LastOfPage
  <2>5. ASSUME NEW r \in C, r \notin P, Newer(r, Last(P)) PROVE FALSE
    <3>1. Last(P) \in R
      BY <1>1, <2>4
    <3>2. r \in R
      BY <1>1, <2>5, <3>1, TopClosed
    <3>3. r \in P
      BY <1>1, <2>2, <2>4, <2>5, <3>2, TopClosed
    <3> QED BY <2>5, <3>3
  <2> QED BY <2>2, <2>4, <2>5, NewerOrder
<1>4. ASSUME ~(Cardinality(R) > k) PROVE P = C
  <2>1. Cardinality(R) <= k
    BY <1>1, <1>2, <1>4
  <2> QED BY <1>1, <2>1, TopAll
<1> QED BY <1>1, <1>3, <1>4

\* What Fetch does to the invariant, whether it is the first page or a later one:
\* a row of the listing is above the cursor or a candidate, never both.
LEMMA FetchStep ==
  ASSUME TypeOK, NEW f, NEW k \in Nat \ {0}, Fetch(f, k), UNCHANGED <<now, tableVars>>,
         cursor \in Cursors \cup {NoCursor},
         cursor = NoCursor => shown = {} /\ page = {},
         cursor # NoCursor => \A r \in shown \cup page : ~Below(r, cursor)
  PROVE  /\ shown' \subseteq table /\ page' \subseteq table /\ cursor' \in Cursors \cup {NoCursor}
         /\ phase' \in {"listing", "done"}
         /\ PagesDescend'
         /\ phase' = "listing" => /\ cursor' \in Cursors
                                  /\ \A r \in shown' \cup page' : ~Below(r, cursor')
                                  /\ \A r \in Candidates(f) : r \in shown' \cup page' \/ Below(r, cursor')
         /\ phase' = "done" => Candidates(f) \subseteq page'
<1> DEFINE C == Candidates(f)
           R == Top(C, k + 1)
           l == Last(page')
<1>1. created \in [Rows -> Int] /\ created \in [Rows -> Times] /\ created' = created
      /\ table \subseteq Rows /\ shown \cup page \subseteq table /\ table' = table
  BY Typed DEF tableVars, TypeOK
<1>2. C \subseteq table /\ \A r \in C : cursor # NoCursor => Below(r, cursor)
  BY DEF Candidates
<1>3. /\ shown' = shown \cup page /\ page' = Top(R, k)
      /\ Cardinality(R) > k => cursor' = Encode(l) /\ phase' = "listing"
      /\ ~(Cardinality(R) > k) => cursor' = NoCursor /\ phase' = "done"
  BY DEF Fetch
<1> HIDE DEF C
<1>4. C \subseteq Rows
  BY <1>1, <1>2
<1>5. /\ page' \subseteq C
      /\ Cardinality(R) > k =>
               /\ l \in page'
               /\ \A q \in page' : q = l \/ Newer(q, l)
               /\ \A r \in C : r \in page' \/ Newer(l, r)
      /\ ~(Cardinality(R) > k) => page' = C
  <2> SUFFICES ASSUME NEW P, P = page'
               PROVE  /\ P \subseteq C
                      /\ Cardinality(R) > k =>
                            /\ Last(P) \in P
                            /\ \A q \in P : q = Last(P) \/ Newer(q, Last(P))
                            /\ \A r \in C : r \in P \/ Newer(Last(P), r)
                      /\ ~(Cardinality(R) > k) => P = C
    OBVIOUS
  <2>1. P = Top(Top(C, k + 1), k)
    BY <1>3
  <2> QED BY <1>1, <1>4, <2>1, OnePage
<1> HIDE DEF R, l
<1>6. \A q \in shown', r \in C : Newer(q, r)
  <2> SUFFICES ASSUME NEW q \in shown', NEW r \in C PROVE Newer(q, r)
    OBVIOUS
  <2>1. q \in shown \cup page /\ q \in Rows /\ r \in Rows
    BY <1>1, <1>3, <1>4
  <2>2. cursor # NoCursor /\ cursor \in Cursors
    BY <2>1
  <2>3. ~Below(q, cursor) /\ Below(r, cursor)
    BY <1>2, <2>1, <2>2
  <2> QED BY <1>1, <2>1, <2>2, <2>3, AcrossCursor
<1>7. PagesDescend'
  <2>1. \A q \in shown', r \in page' : Newer(q, r)
    BY <1>5, <1>6
  <2>2. \A q, r : Newer(q, r) = Newer(q, r)'
    BY <1>1 DEF Newer
  <2> QED BY <2>1, <2>2 DEF PagesDescend
<1>8. ASSUME Cardinality(R) > k
      PROVE  /\ cursor' \in Cursors
             /\ \A r \in shown' \cup page' : ~Below(r, cursor')
             /\ \A r \in C : r \in shown' \cup page' \/ Below(r, cursor')
  <2>1. l \in Rows /\ l \in C /\ cursor' = Encode(l)
    BY <1>3, <1>4, <1>5, <1>8
  <2>2. cursor' \in Cursors
    BY <1>1, <2>1 DEF Encode, Cursors
  <2>3. \A r \in Rows : Below(r, cursor') <=> Newer(l, r)
    BY <1>1, <2>1, CursorCuts
  <2>4. \A r \in shown' \cup page' : r \in Rows /\ (r = l \/ Newer(r, l))
    BY <1>1, <1>3, <1>4, <1>5, <1>6, <1>8, <2>1
  <2>5. \A r \in shown' \cup page' : ~Newer(l, r)
    BY <1>1, <2>1, <2>4, NewerOrder
  <2> QED BY <1>4, <1>5, <1>8, <2>2, <2>3, <2>4, <2>5
<1> QED BY <1>1, <1>2, <1>3, <1>5, <1>7, <1>8 DEF C

-----------------------------------------------------------------------------
(* The other requests *)

\* Rows keep their place in the order when the transactions of others begin.
LEMMA PlacesKept ==
  ASSUME TypeOK, NEW S \in SUBSET Rows, Begin(S)
  PROVE  /\ \A r \in table : created'[r] = created[r]
         /\ \A q, r \in table : Newer(q, r)' <=> Newer(q, r)
         /\ \A r \in table : Below(r, cursor)' <=> Below(r, cursor)
         /\ \A r \in table : Matches(r, filter, status)' <=> Matches(r, filter, status)
<1>1. \A r \in table : r \in Rows /\ r \notin S
  BY DEF TypeOK, Begin
<1>2. created' = [r \in Rows |-> IF r \in S THEN now ELSE created[r]] /\ UNCHANGED <<cursor, filter, status, table>>
  BY DEF Begin, clientVars
<1>3. \A r \in table : created'[r] = created[r]
  BY <1>1, <1>2
<1>4. \A q, r \in table : Newer(q, r)' <=> Newer(q, r)
  BY <1>3 DEF Newer
<1>5. \A r \in table : Below(r, cursor)' <=> Below(r, cursor)
  BY <1>2, <1>3 DEF Below
<1>6. \A r \in table : Matches(r, filter, status)' <=> Matches(r, filter, status)
  BY <1>2, <1>3 DEF Matches
<1> QED BY <1>3, <1>4, <1>5, <1>6

LEMMA TypeStep == ASSUME ListInv, [Next]_vars PROVE TypeOK'
<1> USE DEF ListInv
<1>1. CASE Tick
  <2>1. now' \in Times /\ 0..now \subseteq 0..now'
    BY <1>1, TimeAssumption DEF Tick, TypeOK, Times
  <2>2. created' \in [Rows -> 0..now']
    BY <1>1, <2>1 DEF Tick, tableVars, TypeOK
  <2> QED BY <1>1, <2>1, <2>2 DEF Tick, tableVars, clientVars, TypeOK
<1>2. ASSUME NEW S \in SUBSET Rows, Begin(S) PROVE TypeOK'
  <2>1. now \in 0..now
    BY TimeAssumption DEF TypeOK, Times
  <2>2. created' \in [Rows -> 0..now]
    BY <1>2, <2>1 DEF Begin, TypeOK
  <2>3. begun' \subseteq Rows /\ open' \subseteq SUBSET begun' /\ begun \subseteq begun'
    BY <1>2 DEF Begin, TypeOK
  <2> QED BY <1>2, <2>2, <2>3 DEF Begin, clientVars, TypeOK
<1>3. ASSUME NEW S \in SUBSET Rows, Commit(S) \/ Rollback(S) PROVE TypeOK'
  <2>1. S \subseteq begun /\ UNCHANGED <<now, created, status, begun, clientVars, steady>>
    BY <1>3 DEF Commit, Rollback, TypeOK
  <2>2. open' \subseteq SUBSET begun /\ table' \subseteq begun /\ table \subseteq table'
    BY <1>3, <2>1 DEF Commit, Rollback, TypeOK
  <2> QED BY <2>1, <2>2 DEF clientVars, TypeOK
<1>4. ASSUME NEW r \in Rows, NEW s \in Statuses, UpdateStatus(r, s) PROVE TypeOK'
  BY <1>4 DEF UpdateStatus, clientVars, TypeOK
<1>5. ASSUME NEW l \in Limits \cup {NoLimit}, NEW f \in Filters, Start(f, l) PROVE TypeOK'
  <2>1. PageSize(l) \in Nat \ {0}
    BY <1>5, PageSizePositive DEF Start
  <2>2. shown' \subseteq table /\ page' \subseteq table /\ cursor' \in Cursors \cup {NoCursor} /\ phase' \in {"listing", "done"}
    BY <1>5, <2>1, FetchStep DEF Start, TypeOK, PageInv
  <2>3. filter' \in Filters /\ steady' \subseteq table /\ UNCHANGED <<now, tableVars>>
    BY <1>5 DEF Start
  <2> QED BY <2>2, <2>3 DEF tableVars, TypeOK
<1>6. ASSUME NEW l \in Limits \cup {NoLimit}, List(l) PROVE TypeOK'
  <2>1. PageSize(l) \in Nat \ {0}
    BY <1>6, PageSizePositive DEF List
  <2>2. cursor \in Cursors /\ cursor # NoCursor /\ \A r \in shown \cup page : ~Below(r, cursor)
    BY <1>6, NoCursorAssumption DEF List, PageInv
  <2>3. shown' \subseteq table /\ page' \subseteq table /\ cursor' \in Cursors \cup {NoCursor} /\ phase' \in {"listing", "done"}
    BY <1>6, <2>1, <2>2, FetchStep DEF List, TypeOK
  <2> QED BY <1>6, <2>3 DEF List, tableVars, TypeOK
<1>7. CASE UNCHANGED vars
  BY <1>7 DEF vars, tableVars, clientVars, TypeOK
<1> QED BY <1>1, <1>2, <1>3, <1>4, <1>5, <1>6, <1>7 DEF Next

\* PageInv, PagesDescend and NothingSkipped while the client waits.
Waiting == PagesDescend /\ NothingSkipped /\ PageInv

LEMMA OthersStep ==
  ASSUME ListInv, \/ Tick
                  \/ \E S \in SUBSET Rows : Begin(S) \/ Commit(S) \/ Rollback(S)
                  \/ \E r \in Rows, s \in Statuses : UpdateStatus(r, s)
  PROVE  Waiting'
<1>1. ASSUME UNCHANGED <<created, status, clientVars, steady>> PROVE Waiting'
  BY <1>1 DEF ListInv, Waiting, PagesDescend, NothingSkipped, PageInv, Newer, Below, Matches, clientVars
<1>2. ASSUME NEW S \in SUBSET Rows, Begin(S) PROVE Waiting'
  <2>1. UNCHANGED <<phase, cursor, page, shown, steady>> /\ page \subseteq table /\ shown \subseteq table /\ steady \subseteq table
    BY <1>2 DEF ListInv, TypeOK, Begin, clientVars
  <2>2. PagesDescend'
    BY <1>2, <2>1, PlacesKept DEF ListInv, PagesDescend
  <2>3. NothingSkipped'
    BY <2>1 DEF ListInv, NothingSkipped
  <2>4. PageInv'
    BY <1>2, <2>1, PlacesKept DEF ListInv, PageInv
  <2> QED BY <2>2, <2>3, <2>4 DEF Waiting
<1>3. ASSUME NEW r \in Rows, NEW s \in Statuses, UpdateStatus(r, s) PROVE Waiting'
  <2>1. UNCHANGED <<created, phase, filter, cursor, page, shown>> /\ steady' = {q \in steady : Matches(q, filter, status')}
    BY <1>3 DEF UpdateStatus, clientVars
  <2>2. PagesDescend' /\ NothingSkipped'
    BY <2>1 DEF ListInv, PagesDescend, NothingSkipped, Newer
  <2>3. \A q \in steady' : q \in steady /\ Matches(q, filter, status)'
    BY <2>1 DEF Matches
  <2>4. PageInv'
    BY <2>1, <2>3 DEF ListInv, PageInv, Below
  <2> QED BY <2>2, <2>4 DEF Waiting
<1>4. ASSUME NEW S \in SUBSET Rows, Commit(S) \/ Rollback(S) PROVE Waiting'
  BY <1>1, <1>4 DEF Commit, Rollback
<1>5. CASE Tick
  BY <1>1, <1>5 DEF Tick, tableVars
<1> QED BY <1>2, <1>3, <1>4, <1>5

\* A row that has matched all along is on this page, or still to come.
LEMMA StartStep ==
  ASSUME ListInv, NEW l, NEW f \in Filters, Start(f, l)
  PROVE  Waiting'
<1>1. /\ PageSize(l) \in Nat \ {0} /\ TypeOK /\ cursor = NoCursor /\ shown = {} /\ page = {}
      /\ Fetch(f, PageSize(l)) /\ UNCHANGED <<now, tableVars>> /\ UNCHANGED <<created, status, table>> /\ filter' = f
      /\ steady' = {r \in table : Matches(r, f, status)}
  BY PageSizePositive DEF Start, ListInv, PageInv, tableVars
<1>2. steady' = Candidates(f)
  BY <1>1 DEF Candidates
<1>3. /\ phase' \in {"listing", "done"} /\ PagesDescend'
      /\ phase' = "listing" => /\ cursor' \in Cursors
                               /\ \A r \in shown' \cup page' : ~Below(r, cursor')
                               /\ \A r \in Candidates(f) : r \in shown' \cup page' \/ Below(r, cursor')
      /\ phase' = "done" => Candidates(f) \subseteq page'
  BY <1>1, FetchStep
<1>4. NothingSkipped'
  BY <1>2, <1>3 DEF NothingSkipped
<1>5. \A r : Below(r, cursor)' <=> Below(r, cursor')
  BY <1>1 DEF Below
<1>6. \A r \in steady' : Matches(r, filter, status)'
  BY <1>1 DEF Matches
<1>7. PageInv'
  BY <1>2, <1>3, <1>5, <1>6 DEF PageInv
<1> QED BY <1>3, <1>4, <1>7 DEF Waiting

LEMMA ListStep ==
  ASSUME ListInv, NEW l, List(l)
  PROVE  Waiting'
<1>1. /\ PageSize(l) \in Nat \ {0} /\ TypeOK /\ cursor \in Cursors /\ cursor # NoCursor
      /\ \A r \in shown \cup page : ~Below(r, cursor)
      /\ \A r \in steady : (r \in shown \cup page \/ Below(r, cursor)) /\ Matches(r, filter, status) /\ r \in table
      /\ Fetch(filter, PageSize(l)) /\ UNCHANGED <<now, tableVars>> /\ UNCHANGED <<created, status, table, filter, steady>>
  BY PageSizePositive, NoCursorAssumption DEF List, ListInv, PageInv, TypeOK, tableVars
<1>2. shown' = shown \cup page
  BY <1>1 DEF Fetch
<1>3. \A r \in steady : r \in shown' \/ r \in Candidates(filter)
  BY <1>1, <1>2 DEF Candidates
<1>4. /\ phase' \in {"listing", "done"} /\ PagesDescend'
      /\ phase' = "listing" => /\ cursor' \in Cursors
                               /\ \A r \in shown' \cup page' : ~Below(r, cursor')
                               /\ \A r \in Candidates(filter) : r \in shown' \cup page' \/ Below(r, cursor')
      /\ phase' = "done" => Candidates(filter) \subseteq page'
  BY <1>1, FetchStep
<1>5. NothingSkipped'
  BY <1>1, <1>3, <1>4 DEF NothingSkipped
<1>6. \A r : Below(r, cursor)' <=> Below(r, cursor')
  BY <1>1 DEF Below
<1>7. \A r \in steady' : Matches(r, filter, status)'
  BY <1>1 DEF Matches
<1>8. PageInv'
  BY <1>1, <1>3, <1>4, <1>6, <1>7 DEF PageInv
<1> QED BY <1>4, <1>5, <1>8 DEF Waiting

-----------------------------------------------------------------------------
(* The theorems *)

\* The listing invariant: what was shown is above the cursor, and what matched
\* throughout was shown or is below it (PageInv).
THEOREM ListPath == Spec => []ListInv
<1>1. Init => ListInv
  <2> SUFFICES ASSUME Init PROVE ListInv
    OBVIOUS
  <2>1. 0 \in Times /\ 0 \in 0..0 /\ MaxTime \in Times
    BY TimeAssumption DEF Times
  <2>2. NoFilter \in Filters
    BY <2>1 DEF NoFilter, Filters
  <2>3. TypeOK
    BY <2>1, <2>2 DEF Init, TypeOK, Statuses
  <2>4. PagesDescend /\ NothingSkipped /\ PageInv
    BY DEF Init, PagesDescend, NothingSkipped, PageInv
  <2> QED BY <2>3, <2>4 DEF ListInv
<1>2. ASSUME ListInv, [Next]_vars PROVE ListInv'
  <2>1. TypeOK'
    BY <1>2, TypeStep
  <2>2. CASE UNCHANGED vars
    BY <1>2, <2>2 DEF vars, tableVars, clientVars, ListInv, Waiting, PagesDescend, NothingSkipped, PageInv, Newer, Below, Matches,
                      TypeOK
  <2>3. CASE Next
    <3>1. Waiting'
      BY <1>2, <2>3, OthersStep, StartStep, ListStep DEF Next
    <3> QED BY <2>1, <3>1 DEF ListInv, Waiting
  <2> QED BY <1>2, <2>2, <2>3
<1> QED BY <1>1, <1>2, PTL DEF Spec

\* Rows, filters and cursors keep their types.
THEOREM ListTyped == Spec => []TypeOK
<1>1. ListInv => TypeOK
  BY DEF ListInv
<1> QED BY <1>1, ListPath, PTL

\* No row is listed twice and the pages never go back in the order of created_at
\* and id, however many rows are inserted behind the client's back (List).
THEOREM NoRowTwice == Spec => []PagesDescend
<1>1. ListInv => PagesDescend
  BY DEF ListInv
<1> QED BY <1>1, ListPath, PTL

\* When has_more is false every row that matched from the first page on has been
\* listed, whatever sizes the pages had (List).
THEOREM ListingComplete == Spec => []NothingSkipped
<1>1. ListInv => NothingSkipped
  BY DEF ListInv
<1> QED BY <1>1, ListPath, PTL
=============================================================================
