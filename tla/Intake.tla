-------------------------------- MODULE Intake --------------------------------
(***************************************************************************)
(* From the body of POST /notifications or /notifications/batch to rows in *)
(* the table and an answer: Validate, the template of a single request,    *)
(* and the INSERTs, one statement for Create and one per item in a         *)
(* transaction for CreateBatch, under the UNIQUE idempotency_key.  What     *)
(* follows the INSERT is in Delivery.                                      *)
(*                                                                         *)
(* A text is a sequence of characters, of which braces matter: a           *)
(* placeholder is {{name}}, where name has no brace in it.                 *)
(* PostgreSQL is external: a statement that inserts a key another open     *)
(* transaction has inserted waits for that transaction to end, and a       *)
(* circle of waiting transactions is broken by an error for one of them.   *)
(***************************************************************************)
EXTENDS Naturals, Sequences, SequencesExt

CONSTANTS
    Calls,          \* the HTTP requests; each is made once
    Items,          \* the notifications a single request may ask for
    BatchItems,     \* those a batch may ask for
    Keys, NoKey,    \* idempotency keys
    Templates, NoTemplate,
    Chars, LBrace, RBrace,
    Names, NoValue, \* names of placeholders
    Texts,          \* contents of templates
    Sources,        \* templates as they are meant: placeholders between plain text
    MaxLength,      \* the channel's content limit (160 for sms)
    MaxBatchSize,   \* 1000 in the code
    MaxFaults       \* bound: failures

Plain == Chars \ {LBrace, RBrace}

\* The Go map of a request: some names have a value.
Variables == [Names -> Seq(Chars) \cup {NoValue}]

Given(variables) == {name \in Names : variables[name] # NoValue}

\* What the code tells apart in a CreateNotificationRequest: its key, content,
\* template and variables, and whether recipient, channel, subject and priority
\* are in order.
Requests ==
    [key : Keys \cup {NoKey}, content : Seq(Chars), template : Templates \cup {NoTemplate},
     variables : Variables, fields : {"good", "bad"}]

ASSUME ItemsAssumption == Items \cup BatchItems \subseteq Requests
ASSUME TextsAssumption ==
    /\ {LBrace, RBrace} \subseteq Chars /\ LBrace # RBrace
    /\ IsFiniteSet(Names) /\ Names \subseteq Seq(Plain) /\ Names \cap Chars = {}
    /\ Texts \subseteq Seq(Chars) \ {<<>>}
    /\ Sources \subseteq Seq(Names \cup Plain)
ASSUME NoneAssumption  == NoKey \notin Keys /\ NoTemplate \notin Templates
ASSUME SizeAssumption  == MaxBatchSize \in Nat \ {0} /\ MaxLength \in Nat /\ MaxFaults \in Nat

VARIABLES
    template,       \* table templates: the content, <<>> when there is none
    rows,           \* committed rows of notifications: item i of call c is <<c, i>>
    content,        \* column content of a row
    kind, items,    \* the request: "single" or "batch", and its items
    pc,             \* where its handler is
    pos,            \* the item whose INSERT is next
    open,           \* calls with an open transaction
    answer,         \* HTTP status, 0 before
    faults

tables == <<template, rows, content>>
vars == <<tables, kind, items, pc, pos, open, answer, faults>>

Steps == {"idle", "template", "begin", "insert", "commit", "done"}
Row   == Calls \X (1..MaxBatchSize)

TypeOK ==
    /\ template \in [Templates -> Texts \cup {<<>>}]
    /\ rows \subseteq Row
    /\ content \in [Row -> Seq(Chars)]
    /\ kind \in [Calls -> {"single", "batch"}]
    /\ items \in [Calls -> Seq(Requests)]
    /\ \A c \in Calls : Len(items[c]) <= MaxBatchSize
    /\ pc \in [Calls -> Steps]
    /\ pos \in [Calls -> 1..(MaxBatchSize + 1)]
    /\ open \subseteq Calls
    /\ answer \in [Calls -> {0, 201, 400, 404, 409, 500}]
    /\ faults \in 0..MaxFaults

Init ==
    /\ template = [t \in Templates |-> <<>>]
    /\ rows = {}
    /\ content = [r \in Row |-> <<>>]
    /\ kind = [c \in Calls |-> "single"]
    /\ items = [c \in Calls |-> <<>>]
    /\ pc = [c \in Calls |-> "idle"]
    /\ pos = [c \in Calls |-> 1]
    /\ open = {}
    /\ answer = [c \in Calls |-> 0]
    /\ faults = 0

Fault == faults < MaxFaults /\ faults' = faults + 1

-----------------------------------------------------------------------------
(* Validation and templates *)

\* Mutant: a length is only checked for items without a template.
ValidateLoose(item) ==
    /\ item.fields = "good"
    /\ item.content = <<>> => item.template # NoTemplate
    /\ Len(item.content) > MaxLength => item.template # NoTemplate

\* CreateNotificationRequest.Validate
Validate(item) ==
    /\ item.fields = "good"
    /\ item.content = <<>> => item.template # NoTemplate
    /\ Len(item.content) <= MaxLength

\* Mutant: the size is compared with > MaxBatchSize + 1.
ValidateBatchOneMore(s) ==
    /\ s # <<>>
    /\ Len(s) <= MaxBatchSize + 1
    /\ \A i \in DOMAIN s : Validate(s[i])

\* BatchCreateRequest.Validate
ValidateBatch(s) ==
    /\ s # <<>>
    /\ Len(s) <= MaxBatchSize
    /\ \A i \in DOMAIN s : Validate(s[i])

Pattern(name) == <<LBrace, LBrace>> \o name \o <<RBrace, RBrace>>

\* {{name}} stands in text from place i on.
Matches(text, i, name) ==
    LET p == Pattern(name)
    IN  \A j \in DOMAIN p : i + j - 1 \in DOMAIN text /\ text[i + j - 1] = p[j]

\* Place i is in a {{name}} that begins before it.
Inside(text, i, name) == \E k \in 1..(Len(Pattern(name)) - 1) : Matches(text, i - k, name)

\* Mutant: strings.Replace of the first occurrence.
SubstituteFirst(text, name, value) == ReplaceFirstSubSeq(value, Pattern(name), text)

\* strings.ReplaceAll.  Two occurrences of {{name}} never overlap: { is only at
\* the first two places of it.
Substitute(text, name, value) ==
    FlattenSeq([i \in DOMAIN text |->
                   IF Matches(text, i, name) THEN value
                   ELSE IF Inside(text, i, name) THEN <<>> ELSE <<text[i]>>])

\* Template.Render: the texts it may return.  One variable is put in after the
\* other, in the order of a Go map, which is any, and what a replacement has made
\* of the text is searched for the variables that come later; after[S] is what
\* the text may be once the variables in S are in.
Render(text, variables) ==
    LET after[S \in SUBSET Names] ==
            IF S = {} THEN {text}
            ELSE UNION {{Substitute(rendered, name, variables[name]) : rendered \in after[S \ {name}]}
                           : name \in S}
    IN  after[Given(variables)]

\* POST /templates that answers 201: the name is new and the content not empty.
\* Nothing bounds the length, nothing changes or deletes a template.
CreateTemplate(t, text) ==
    /\ template[t] = <<>>
    /\ template' = [template EXCEPT ![t] = text]
    /\ UNCHANGED <<rows, content, kind, items, pc, pos, open, answer, faults>>

-----------------------------------------------------------------------------
(* Keys and locks *)

KeyOf(c, i) == items[c][i].key

\* The keys c has inserted in a transaction that has not ended.
Uncommitted(c) == IF c \in open THEN {KeyOf(c, i) : i \in 1..(pos[c] - 1)} \ {NoKey} ELSE {}

CommittedKeys == {KeyOf(r[1], r[2]) : r \in rows} \ {NoKey}

\* Mutant: the column is not UNIQUE.
TakenNever(c, key) == FALSE

\* The INSERT of key by c violates the UNIQUE constraint (23505).
Taken(c, key) == key \in CommittedKeys \cup Uncommitted(c)

\* The INSERT has to wait for d.
WaitsFor(c, d) ==
    /\ pc[c] = "insert" /\ c \in open
    /\ d \in open \ {c}
    /\ KeyOf(c, pos[c]) \in Uncommitted(d)

Waits(c) == \E d \in Calls : WaitsFor(c, d)

\* c is in a circle of waiting transactions.
Deadlocked(c) ==
    \E S \in SUBSET Calls :
        /\ c \in S
        /\ \A d \in S : \E e \in S : WaitsFor(d, e)

\* Mutant: tx.Rollback forgotten after an error.
ReleaseOnCommitOnly(c, status) == open' = IF status = 201 THEN open \ {c} ELSE open

\* Commit, or the deferred Rollback.
Release(c, status) == open' = open \ {c}

\* The handler answers; nothing else of the request is inserted.
Answer(c, status) ==
    /\ answer' = [answer EXCEPT ![c] = status]
    /\ pc' = [pc EXCEPT ![c] = "done"]

-----------------------------------------------------------------------------
(* A request *)

Receive(c, k, s) ==
    /\ pc[c] = "idle"
    /\ kind' = [kind EXCEPT ![c] = k]
    /\ items' = [items EXCEPT ![c] = s]
    /\ UNCHANGED <<tables, pos, open, faults>>

\* Validate fails: 400.
Refuse(c) ==
    /\ pc[c] = "idle"
    /\ Answer(c, 400)
    /\ UNCHANGED <<tables, kind, items, pos, open, faults>>

Create(c, item) ==
    /\ Validate(item)
    /\ Receive(c, "single", <<item>>)
    /\ pc' = [pc EXCEPT ![c] = IF item.template = NoTemplate THEN "begin" ELSE "template"]
    /\ UNCHANGED answer

\* The items' templates are not looked at.
CreateBatch(c, s) ==
    /\ ValidateBatch(s)
    /\ Receive(c, "batch", s)
    /\ pc' = [pc EXCEPT ![c] = "begin"]
    /\ UNCHANGED answer

\* Rendering replaces the request's content, which is not checked again.
Rendered(c) ==
    LET item == items[c][1] IN
    /\ \E text \in Render(template[item.template], item.variables) :
          items' = [items EXCEPT ![c][1].content = text]
    /\ pc' = [pc EXCEPT ![c] = "begin"]

\* GetByID of the template.
ResolveTemplate(c) ==
    /\ pc[c] = "template"
    /\ \/ /\ template[items[c][1].template] = <<>>
          /\ Answer(c, 404)
          /\ UNCHANGED items
       \/ /\ template[items[c][1].template] # <<>>
          /\ Rendered(c)
          /\ UNCHANGED answer
    /\ UNCHANGED <<tables, kind, pos, open, faults>>

\* BEGIN; the INSERT of a single request is a transaction of its own.
Begin(c) ==
    /\ pc[c] = "begin"
    /\ open' = open \cup {c}
    /\ pc' = [pc EXCEPT ![c] = "insert"]
    /\ UNCHANGED <<tables, kind, items, pos, answer, faults>>

\* Rows c has inserted become visible.
Publish(c, R) ==
    /\ rows' = rows \cup R
    /\ content' = [r \in Row |-> IF r \in R THEN items[r[1]][r[2]].content ELSE content[r]]

RowsOf(c) == {c} \X DOMAIN items[c]

\* Mutant: the loop inserts with r.db instead of tx, so each INSERT commits.
InsertAutocommit(c) ==
    /\ pc[c] = "insert" /\ kind[c] = "batch"
    /\ ~Waits(c) /\ ~Taken(c, KeyOf(c, pos[c]))
    /\ Publish(c, {<<c, pos[c]>>})
    /\ pos' = [pos EXCEPT ![c] = @ + 1]
    /\ pc' = [pc EXCEPT ![c] = IF pos[c] = Len(items[c]) THEN "commit" ELSE "insert"]
    /\ UNCHANGED <<template, kind, items, open, answer, faults>>

\* The INSERT of item pos of a batch, inside the transaction.
Insert(c) ==
    /\ pc[c] = "insert" /\ kind[c] = "batch"
    /\ ~Waits(c) /\ ~Taken(c, KeyOf(c, pos[c]))
    /\ pos' = [pos EXCEPT ![c] = @ + 1]
    /\ pc' = [pc EXCEPT ![c] = IF pos[c] = Len(items[c]) THEN "commit" ELSE "insert"]
    /\ UNCHANGED <<tables, kind, items, open, answer, faults>>

\* The INSERT of a single request commits by itself.
InsertSingle(c) ==
    /\ pc[c] = "insert" /\ kind[c] = "single"
    /\ ~Waits(c) /\ ~Taken(c, KeyOf(c, 1))
    /\ Publish(c, RowsOf(c))
    /\ Answer(c, 201)
    /\ Release(c, 201)
    /\ UNCHANGED <<template, kind, items, pos, faults>>

\* The key exists: 409, and the deferred Rollback.
Conflict(c) ==
    /\ pc[c] = "insert"
    /\ ~Waits(c) /\ Taken(c, KeyOf(c, pos[c]))
    /\ Answer(c, 409)
    /\ Release(c, 409)
    /\ UNCHANGED <<tables, kind, items, pos, faults>>

Commit(c) ==
    /\ pc[c] = "commit"
    /\ Publish(c, RowsOf(c))
    /\ Answer(c, 201)
    /\ Release(c, 201)
    /\ UNCHANGED <<template, kind, items, pos, faults>>

\* The connection breaks in Commit, or in the INSERT of a single request: the
\* rows may be there or not.
CommitError(c) ==
    /\ pc[c] = "commit" \/ (pc[c] = "insert" /\ kind[c] = "single" /\ ~Waits(c)
                              /\ ~Taken(c, KeyOf(c, 1)))
    /\ Fault
    /\ Publish(c, RowsOf(c)) \/ UNCHANGED <<rows, content>>
    /\ Answer(c, 500)
    /\ Release(c, 500)
    /\ UNCHANGED <<template, kind, items, pos>>

\* Another statement fails, also because the client has hung up: 500 and
\* Rollback.
StatementError(c) ==
    /\ pc[c] \in {"template", "begin", "insert"}
    /\ Fault
    /\ Answer(c, 500)
    /\ Release(c, 500)
    /\ UNCHANGED <<tables, kind, items, pos>>

\* Mutant: every error of a statement is taken for a duplicate key.
DeadlockConflict(c) ==
    /\ Deadlocked(c)
    /\ Answer(c, 409)
    /\ Release(c, 409)
    /\ UNCHANGED <<tables, kind, items, pos, faults>>

\* PostgreSQL breaks the circle (40P01), which is not 23505: 500 and Rollback.
DeadlockAbort(c) ==
    /\ Deadlocked(c)
    /\ Answer(c, 500)
    /\ Release(c, 500)
    /\ UNCHANGED <<tables, kind, items, pos, faults>>

Started(c) == pc[c] \notin {"idle", "done"}

\* The process dies: PostgreSQL rolls back what is open, nobody is answered.
Crash ==
    /\ Fault
    /\ pc' = [c \in Calls |-> IF Started(c) THEN "done" ELSE pc[c]]
    /\ open' = {}
    /\ UNCHANGED <<tables, kind, items, pos, answer>>

-----------------------------------------------------------------------------
Handle(c) ==
    \/ ResolveTemplate(c) \/ Begin(c)
    \/ Insert(c) \/ InsertSingle(c) \/ Conflict(c) \/ Commit(c) \/ DeadlockAbort(c)

Next ==
    \/ \E t \in Templates, text \in Texts : CreateTemplate(t, text)
    \/ \E c \in Calls, item \in Items : Create(c, item) \/ (~Validate(item) /\ Refuse(c))
    \/ \E c \in Calls, s \in BoundedSeq(BatchItems, MaxBatchSize + 1) :
          CreateBatch(c, s) \/ (~ValidateBatch(s) /\ Refuse(c))
    \/ \E c \in Calls : Handle(c) \/ CommitError(c) \/ StatementError(c)
    \/ Crash

Spec == Init /\ [][Next]_vars

\* Handlers run, and PostgreSQL answers and breaks circles.
Fairness == \A c \in Calls : WF_vars(Handle(c))

FairSpec == Spec /\ Fairness

-----------------------------------------------------------------------------
(* Properties *)

\* A request is stored whole or not at all, at every moment and whatever fails,
\* and the answer says which: 201 only when it is stored, 400, 404 and 409 only
\* when it is not (after 500 it may be).
AllOrNothing ==
    \A c \in Calls :
        LET stored == {r \in rows : r[1] = c} IN
        /\ stored = {} \/ stored = RowsOf(c)
        /\ answer[c] = 201 => stored # {}
        /\ answer[c] \in {400, 404, 409} => stored = {}

\* No two rows have one idempotency key, however the transactions that insert it
\* overlap.
KeyUnique ==
    \A r, s \in rows :
        KeyOf(r[1], r[2]) = KeyOf(s[1], s[2]) /\ KeyOf(r[1], r[2]) # NoKey => r = s

\* A 409 is final: one of the request's keys is in the table, or twice in the
\* request.  A transaction that was rolled back or lost a deadlock never causes
\* one.
ConflictIsReal ==
    \A c \in Calls : answer[c] = 409 =>
        \/ \E i \in DOMAIN items[c] : KeyOf(c, i) \in CommittedKeys
        \/ \E i, j \in DOMAIN items[c] : i # j /\ KeyOf(c, i) = KeyOf(c, j) /\ KeyOf(c, i) # NoKey

\* Content that is too long gets into the table only as a rendered template, and
\* empty content only so or as an item of a batch that names a template, which
\* CreateBatch does not render.
ContentChecked ==
    \A r \in rows :
        LET item == items[r[1]][r[2]] IN
        /\ Len(content[r]) > MaxLength => kind[r[1]] = "single" /\ item.template # NoTemplate
        /\ content[r] = <<>> => item.template # NoTemplate

\* A name or a character as it is written in a template.
Word(t) == IF t \in Names THEN Pattern(t) ELSE <<t>>

Spell(source) == FlattenSeq([i \in DOMAIN source |-> Word(source[i])])

\* All variables put in at once, what a template means; names that have no value
\* stay.
AllAtOnce(source, variables) ==
    FlattenSeq([i \in DOMAIN source |->
                   IF source[i] \in Given(variables) THEN variables[source[i]] ELSE Word(source[i])])

\* No value has a brace in it.
NoBraces(variables) == \A name \in Given(variables) : Range(variables[name]) \subseteq Plain

\* Rendering by one replacement after the other, in any order, gives what putting
\* in all variables at once gives, for a template whose only braces are those of
\* its placeholders and values without braces.  It does not otherwise: {{{{a}}}}
\* with b for a and x for b, or {{a}} with {{b}} for a, is stored in two ways.
RenderedInOneWay ==
    \A r \in rows :
        LET item == items[r[1]][r[2]] IN
        kind[r[1]] = "single" /\ item.template # NoTemplate /\ NoBraces(item.variables) =>
            \A source \in Sources :
                template[item.template] = Spell(source) =>
                    content[r] = AllAtOnce(source, item.variables)

\* Every request is answered although batches with the same keys in different
\* orders block each other, unless the process dies.
EveryCallAnswered == \A c \in Calls : Started(c) ~> ~Started(c)
=============================================================================
