----------------------------- MODULE Pagination -----------------------------
(***************************************************************************)
(* GET /api/v1/notifications: one client follows the cursors from the      *)
(* first page to the last, while other requests insert rows and the        *)
(* pipeline changes their status.  A page is one SQL statement; between    *)
(* two pages anything may be committed.  created_at is the time the        *)
(* inserting transaction began, so a row can become visible after younger  *)
(* ones, and the rows of a batch share it.                                 *)
(***************************************************************************)
EXTENDS Integers, FiniteSets, FiniteSetsExt

CONSTANTS
    Rows,           \* the ids; random UUIDs, so their order says nothing
    Chosen,         \* the rows with the channel and priority the client may ask for
    DefaultLimit,   \* page size when none is asked for (20)
    MaxLimit,       \* largest page size (100)
    Limits,         \* the values of ?limit= that clients send
    MaxTime,        \* bound: how long time runs
    NoLimit, NoCursor

ASSUME RowsAssumption   == Rows \subseteq Int /\ IsFiniteSet(Rows) /\ Chosen \subseteq Rows
ASSUME LimitsAssumption ==
    /\ DefaultLimit \in Nat \ {0} /\ MaxLimit \in Nat \ {0}
    /\ Limits \subseteq Int /\ NoLimit \notin Limits
ASSUME TimeAssumption   == MaxTime \in Nat

VARIABLES
    now,
    created,        \* created[r]: column created_at of a row that was begun
    status,         \* column status
    begun,          \* rows that some transaction inserted
    open,           \* the transactions not yet ended, each the set of its rows
    table,          \* committed rows
    phase,          \* of the client: "idle", "listing", "done"
    filter,         \* what it asks for: status, kind (channel and priority), after, before
    cursor,         \* the cursor of the next page
    page,           \* the rows of the last page
    shown,          \* history: the rows of the pages before
    steady          \* history: rows that matched from the first page on

tableVars  == <<created, status, begun, open, table>>
clientVars == <<phase, filter, cursor, page, shown>>
vars == <<now, tableVars, clientVars, steady>>

Statuses == {"pending", "queued", "processing"}
Times    == 0..MaxTime
Filters  == [status : Statuses \cup {"any"}, kind : BOOLEAN, after : Times, before : Times]
Cursors  == [c : Times, i : Rows]

ASSUME NoCursorAssumption == NoCursor \notin Cursors

TypeOK ==
    /\ now \in Times
    /\ created \in [Rows -> 0..now]
    /\ status \in [Rows -> Statuses]
    /\ begun \subseteq Rows
    /\ open \subseteq SUBSET begun
    /\ table \subseteq begun
    /\ phase \in {"idle", "listing", "done"}
    /\ filter \in Filters
    /\ cursor \in Cursors \cup {NoCursor}
    /\ page \subseteq table
    /\ shown \subseteq table
    /\ steady \subseteq table

NoFilter == [status |-> "any", kind |-> FALSE, after |-> 0, before |-> MaxTime]

Init ==
    /\ now = 0
    /\ created = [r \in Rows |-> 0]
    /\ status = [r \in Rows |-> "pending"]
    /\ begun = {} /\ open = {} /\ table = {}
    /\ phase = "idle"
    /\ filter = NoFilter
    /\ cursor = NoCursor
    /\ page = {} /\ shown = {} /\ steady = {}

-----------------------------------------------------------------------------
(* The other requests *)

Tick ==
    /\ now < MaxTime
    /\ now' = now + 1
    /\ UNCHANGED <<tableVars, clientVars, steady>>

\* Create or CreateBatch begins to insert: NOW() is the time of this step.
Begin(S) ==
    /\ S # {} /\ S \cap begun = {}
    /\ begun' = begun \cup S
    /\ open' = open \cup {S}
    /\ created' = [r \in Rows |-> IF r \in S THEN now ELSE created[r]]
    /\ UNCHANGED <<now, status, table, clientVars, steady>>

Commit(S) ==
    /\ S \in open
    /\ open' = open \ {S}
    /\ table' = table \cup S
    /\ UNCHANGED <<now, created, status, begun, clientVars, steady>>

\* A duplicate idempotency key, or an error: no row of S ever becomes visible.
Rollback(S) ==
    /\ S \in open
    /\ open' = open \ {S}
    /\ UNCHANGED <<now, created, status, begun, table, clientVars, steady>>

\* The WHERE clause but for the cursor, with st the status column.
Matches(r, f, st) ==
    /\ f.status \in {"any", st[r]}
    /\ f.kind => r \in Chosen
    /\ f.after <= created[r] /\ created[r] <= f.before

\* UpdateStatus on a row: created_at and id stay.
UpdateStatus(r, s) ==
    /\ r \in table
    /\ s # "pending"
    /\ status' = [status EXCEPT ![r] = s]
    /\ steady' = {q \in steady : Matches(q, filter, status')}
    /\ UNCHANGED <<now, created, begun, open, table, clientVars>>

-----------------------------------------------------------------------------
(* The client *)

\* ORDER BY created_at DESC, id DESC
Newer(q, r) == created[q] > created[r] \/ (created[q] = created[r] /\ q > r)

\* Mutant: the cursor's own row is repeated.
BelowOrAt(r, k) == created[r] < k.c \/ (created[r] = k.c /\ r <= k.i)

\* (created_at, id) < cursor
Below(r, k) == created[r] < k.c \/ (created[r] = k.c /\ r < k.i)

\* Mutant: the cursor is decoded and not used.
CandidatesNoCursor(f) == {r \in table : Matches(r, f, status)}

Candidates(f) == {r \in table : Matches(r, f, status) /\ (cursor # NoCursor => Below(r, cursor))}

\* The first k rows of S.
Top(S, k) == {r \in S : Cardinality({q \in S : Newer(q, r)}) < k}

Last(S) == CHOOSE r \in S : \A q \in S : q = r \/ Newer(q, r)

\* Mutant: the cursor carries whole seconds (two units of time).
EncodeSeconds(r) == [c |-> created[r] - (created[r] % 2), i |-> r]

\* Mutant: the id is left at its zero value.
EncodeNilID(r) == [c |-> created[r], i |-> 0]

\* JSON writes created_at with nanoseconds and the column holds microseconds, so
\* DecodeCursor gives back what was encoded.
Encode(r) == [c |-> created[r], i |-> r]

\* A limit below 1 is answered 400.
Accepted == {NoLimit} \cup {l \in Limits : l >= 1}

PageSize(l) == IF l = NoLimit THEN DefaultLimit ELSE Min({l, MaxLimit})

\* One more row than the page is asked for, to see whether there is another.
Fetch(f, k) ==
    LET rows == Top(Candidates(f), k + 1) IN
    /\ shown' = shown \cup page
    /\ page' = Top(rows, k)
    /\ IF Cardinality(rows) > k
       THEN cursor' = Encode(Last(page')) /\ phase' = "listing"
       ELSE cursor' = NoCursor /\ phase' = "done"

\* The first page.
Start(f, l) ==
    /\ phase = "idle"
    /\ l \in Accepted
    /\ filter' = f
    /\ Fetch(f, PageSize(l))
    /\ steady' = {r \in table : Matches(r, f, status)}
    /\ UNCHANGED <<now, tableVars>>

\* The page of the last cursor; has_more is true.
List(l) ==
    /\ phase = "listing"
    /\ l \in Accepted
    /\ Fetch(filter, PageSize(l))
    /\ UNCHANGED <<now, tableVars, filter, steady>>

Next ==
    \/ Tick
    \/ \E S \in SUBSET Rows : Begin(S) \/ Commit(S) \/ Rollback(S)
    \/ \E r \in Rows, s \in Statuses : UpdateStatus(r, s)
    \/ \E l \in Limits \cup {NoLimit} : List(l) \/ \E f \in Filters : Start(f, l)

Spec == Init /\ [][Next]_vars

\* The client asks for the next page as long as there is one.
FairSpec == Spec /\ WF_vars(\E l \in Limits \cup {NoLimit} : List(l))

-----------------------------------------------------------------------------
\* Every page lies strictly below the pages before it: no row is listed twice,
\* whatever is inserted or changed between two pages.
PagesDescend == \A q \in shown, r \in page : Newer(q, r)

\* A row that matched the filter from the first page on is on some page once
\* has_more is false: rows that come, go or change status hide no other row.
NothingSkipped == phase = "done" => steady \subseteq shown \cup page

\* has_more becomes false although rows keep being inserted.
ListingEnds == phase = "listing" ~> phase = "done"

\* The inductive invariant: what was shown is not below the cursor, and a row
\* that matched throughout was shown or is below it.
PageInv ==
    /\ phase = "listing" =>
          /\ cursor \in Cursors
          /\ \A r \in shown \cup page : ~Below(r, cursor)
          /\ \A r \in steady : r \in shown \cup page \/ Below(r, cursor)
    /\ phase = "idle" => cursor = NoCursor /\ shown = {} /\ page = {} /\ steady = {}
    /\ \A r \in steady : Matches(r, filter, status)
=============================================================================
