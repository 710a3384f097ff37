# Verification of the notification system

TLA+ models of the notification system, the TLC runs that check them on small
instances, and TLAPS proofs of their main properties for every value of the
parameters. Every definition is translated from the Go code; `PROJECT.json`
names, for each one, the lines it stands for.

## 1. Inventory

A single Go process serves an HTTP API and runs the workers. It keeps its state
in PostgreSQL (rows), RabbitMQ (one durable queue per channel, each with a
dead-letter queue) and Redis (token buckets, pub/sub).

| Part | State | Operations | Talks to |
|---|---|---|---|
| API and service (`api/handler/notification.go`, `service/notification.go`) | none of its own; a request in progress | Create, CreateBatch, Cancel, List, GetByID, GetBatchStatus | repository, producer |
| Repository (`repository/postgres/notification.go`) | table `notifications` | INSERT of one row or of a batch in a transaction; UpdateStatus, UpdateSent, UpdateFailed, IncrementRetry (unconditional UPDATEs); Cancel (conditional); GetScheduledReady, List | PostgreSQL |
| Scheduler (`scheduler/scheduler.go`) | the rows of the current poll | poll every 5 s: read due rows, publish each, mark it queued | repository, producer |
| Queue (`queue/`) | messages: ready, unacknowledged, dead-lettered | Publish without confirms, deliver, Ack, Nack | RabbitMQ |
| Dispatcher and processor (`worker/`) | goroutines per channel, each with one delivery | Process: read the row, wait out the backoff, mark processing, pass breaker and limiter, send, record, Ack or Nack, announce | all others |
| Provider (`provider/webhook.go`) | none | Send, four classes of outcome | HTTP webhook |
| Circuit breaker (`circuitbreaker/`) | state, counts of the window, times | Allow, RecordSuccess, RecordFailure | the goroutines of a channel |
| Rate limiter (`ratelimiter/`) | token bucket in Redis | Wait, Allow, Lua script | the goroutines of a channel |
| Status feed (`pubsub/`, `handler/websocket.go`) | a subscription and a loop per WebSocket client | Publish, Subscribe, HandleWS | Redis |
| Router and middleware (`api/router.go`, `api/middleware/`) | the ResponseWriter of a request | Correlation, Logging, contentTypeJSON around every handler | API, status feed |
| Process (`cmd/server/main.go`) | worker context | start, graceful shutdown | all |
| Backpressure (`cmd/server/main.go`, `handler/notification.go`) | `QueueDepth` | poll of the queue lengths every 2 s; check of a single request against the threshold of its priority | RabbitMQ, API |
| Validation and templates (`domain/`, `handler/template.go`, `repository/postgres/template.go`) | table `templates` | Validate, Create, GetByID, Render | API, PostgreSQL |
| Metrics, health, configuration | none | reports, wiring | all |

What is hard in this code:

* **Nobody looks before writing.** The API handler, the scheduler and the worker
  all write `status` with unconditional UPDATEs, and the API handler and the
  scheduler write it *after* the message is public. Only `Cancel` checks.
* **The row and the queue are two systems.** Between INSERT, publish and UPDATE,
  and between send, UPDATE and Ack, the process can crash, be told to stop, lose
  the broker, or see one of the calls fail; every such error is logged and the
  code goes on.
* **Decisions on old reads.** The retry decision uses the row read before the
  backoff and the send; the scheduler publishes rows it read earlier.
* **Time between calls.** The breaker's mutex covers a method, not the time from
  `Allow` to the outcome; the limiter's clock is read before the script runs.
* **A depth that is old and partial.** Requests are compared with a sum read queue
  by queue up to two seconds ago, are inserted and published later than they are
  checked, and share the queues with producers nobody checks. A process that
  restarts has a depth of 0 over whatever the durable queues hold.
* **Transactions that meet.** Batches with the same idempotency keys wait for each
  other inside PostgreSQL, in either order, and the loser of a deadlock must not be
  mistaken for a duplicate.
* **Text replaced in text.** A template's variables are put in one after the other,
  in the random order of a Go map, and each is searched for in what the ones before
  have made of the text.
* **Handlers behind wrappers.** Middleware decides what a handler can do with its
  ResponseWriter, far away from the handler.
* **Paging a moving table.** Rows become visible out of `created_at` order and
  enter or leave a status filter between pages.

What makes each part correct: a message is settled exactly by its outcome and is
never forgotten; duplicates and extra attempts happen only when something fails;
a settled message is recorded; a due notification is published; the breaker
tests the provider with one call and believes only that call; the bucket bounds
what passes in any stretch of time; a listing shows each steady row once; a
request is stored whole or not at all and is told the truth about it; what is let
in above a threshold can be accounted for, and the depth recovers; a template comes
out in one way; a client of the feed is subscribed.
`PROJECT.json` lists the hazards line by line.

## 2. Modules

| Module | Models |
|---|---|
| `Delivery` | the pipeline of one channel: API handlers, scheduler, queue, workers, rows, process; its properties and fairness |
| `DeliveryInv` | the invariants that make the properties of `Delivery` inductive |
| `DeliveryProofs` | TLAPS proofs about `Delivery`: types, copies, publishers, retries, duplicates |
| `DeliveryOutcomeProofs` | TLAPS proofs about what becomes of a notification: requests, cancellation, record, feed; the safety of the refinement |
| `AtLeastOnce` | the abstract specification: what the pipeline promises of a message |
| `DeliveryRefinement` | the refinement mapping, and the statement that `Delivery` implements `AtLeastOnce` |
| `MCDelivery` | symmetry and view of the instances TLC checks |
| `CircuitBreaker`, `CircuitBreakerProofs` | the breaker of one channel, its callers and time; proofs |
| `RateLimiter`, `RateLimiterProofs` | the token bucket of one channel, its callers and time; proofs |
| `Pagination`, `PaginationProofs` | `GET /notifications` against concurrent inserts and updates; proofs |
| `Backpressure`, `BackpressureProofs`, `MCBackpressure` | queue depth, its poller, thresholds, and all producers of all channels; proofs; instance |
| `Intake`, `IntakeProofs`, `MCIntake` | validation, templates, and the INSERTs of requests under the unique key; proofs; instance |
| `StatusFeed` | a client on its way through router and middleware to the status feed |

`Intake` ends where `Delivery` begins: its last step, the commit, is `Insert` of
`Delivery`. `Backpressure` counts the messages that `Delivery` follows one by one,
over all channels. `StatusFeed` is about who would receive the updates that
`Delivery` publishes (`feed`): nobody, as it turns out.

### Delivery

One step is one call that leaves the process: a SQL statement, a publish, an
HTTP request, an Ack or Nack. A goroutine's position between such calls is its
state:

* a row is `status`, `retryCount`, `sentAt`, `failedAt` and `sched`
  (`scheduled_at` is absent, in the future or due); `next_retry_at` is set
  exactly when the count is positive;
* an API request is the rows it inserted and has not reached (`apiTodo`) and the
  one it published and has not marked (`apiMark`). `Create` is `CreateBatch` of
  one row. The scheduler has the same two (`schedList`, `schedMark`);
* the k-th message published for `n` is the copy `<<n, k>>`; `loc` says whether
  it is ready, unacknowledged, acknowledged, dead-lettered, or was lost on the way;
* a worker is where it is in `Process` (`pc`), its copy (`held`), the retry count
  it read (`snap`) and the provider's answer (`result`). `GatePass` and
  `GateDeny` stand for breaker and limiter, which have modules of their own;
* `phase` is the worker context: `up`, `stopping` once cancelled, `drained` once
  the consumer is cancelled. A SQL statement, HTTP request or Redis publish on a
  cancelled context fails.

Failures are a set of kinds (`Faults`) and a number (`MaxFaults`): crash and
restart, SIGTERM, loss of the broker connection (nothing in the code reopens
it), a publish that fails, a publish that returns nil and is lost, a SQL
statement that fails, a provider answer that is lost, a request that cannot be
built. A statement that fails may have been executed where the model says so
(`MarkProcessingError`).

`GatePass` and `GateDeny` also contain the announcement of processing, and the pause
of a second after a refusal is a delay like any other. A message is always one the
producer made: the branches of `Process` for a body or an id that cannot be parsed
are left out. So is the status `delivered`, which no code writes.

Left out: message priorities (any ready message may be delivered, so every order
is covered), message contents, the length of the backoff, GetByID and
GetBatchStatus, which only read.

### AtLeastOnce and DeliveryRefinement

`AtLeastOnce` knows notifications that were accepted and messages, each with a
fate (waiting, delivered, given up, lost), the number of times the provider
accepted it, and the number of failures so far. A message that waits is delivered
any number of times, but each time after the first needs a failure; it leaves
that state only as delivered, after an acceptance, or as given up; and it does
leave it. A message is lost only in the step that publishes it, and that is a
failure. The mapping forgets rows, goroutines, connection and process: a copy is
waiting while it is ready or unacknowledged, and the failures are those of
`Delivery`. Crash, SIGTERM and loss of the connection are thus a single step in
which no message's fate changes: this is what at-least-once means here.

### CircuitBreaker

The struct's fields but `successes`, which nothing reads, and for every goroutine
whether it is between `Allow` and its report and since when. `Abandon` is the
path of `Process` that returns on a limiter error without a report. Time is
integers; a call takes at most `CallBound` (5 s in the limiter and 5 s in the
HTTP client), which is assumed to be no more than `Timeout` (30 s).

### RateLimiter

The script's hash with its expiry and, for every goroutine, where it is in
`Wait`. The clock is read in one step and the script runs in a later one, up to
`Delay` afterwards, so calls arrive out of order. Tokens are counted in units of
1/`Second` of a token so that the script's fractions are integers.

### Pagination

Transactions begin (which fixes `created_at`), commit or roll back; status
changes at any time; a client asks for page after page with any filter and page
size. The last page and the ones before are sets of rows. `steady` is the rows
that matched the filter from the first page on.

### Backpressure

Queues are counts of ready and unacknowledged messages. A publisher (a request, or
the scheduler) has messages it has yet to publish. A single request is compared with
the depth and let in (`Create`, `checking`), is inserted later or fails (`Insert`,
`InsertFails`), and is published later still; from the moment it is let in it counts
as load, so that requests that pass on one depth see each other in the properties. A
batch and the scheduler are not checked. The poller reads one queue per step, stops at
the first failure and stores what it has. `Restart` ends the process at any point: the
queues keep their messages, with the unacknowledged ones taken back, everything in
memory is gone, and the depth is 0 until the first poll has run. Of what was on its way
the rows stay in PostgreSQL; the scheduler that publishes some of them later is
`SchedPoll`. `since` and `blind` are history: what the stored depth cannot have seen
because it came later, and because the poll did not get that far or there has been
none; after a restart `blind` is the whole backlog. Priorities decide who is refused
and not who is delivered.

### Intake

A request is a sequence of items, each with a key, content, template, variables,
and one field for everything else Validate looks at. A text is a sequence of
characters, two of which are the braces, and a placeholder is `{{`, a name, `}}`
(`Pattern`). The variables of a request give a value to some of the names. `Substitute`
is `strings.ReplaceAll`: every occurrence of one placeholder is replaced, and the text
around it, braces included, stays. `Render` is the set of texts that replacing all the
variables one after the other can give, over all orders in which `range` walks the map;
the step takes any of them. A replacement can thus make a placeholder of its value, or
of its value and braces of the template: `{{{{a}}}}` with b for a becomes `{{b}}`.
Names have no braces in them (a key with braces in the JSON of a request is left out),
and the subject, which is rendered like the content, is not followed.

An open transaction holds the keys it has inserted; an INSERT of such a key by somebody
else waits, and PostgreSQL aborts one member of a circle. A failed COMMIT, like a failed
INSERT outside a transaction, may have taken effect.

### StatusFeed

A request for `/api/v1/ws`, handler by handler: `Correlation`, `Logging`, `HandleWS`, and
the ResponseWriter each is given. `websocket.Accept` is external: it succeeds when the
writer is, or unwraps to, one that can be hijacked (`Hijackable`), and answers 501
otherwise. Behind `Logging` the writer is a `statusWriter`, which has neither `Hijack`
nor `Unwrap`. `Accept` is therefore never enabled; it is in the module because the code
has the branch, and the repository's documentation describes what happens after it. The
loop behind it, with its subscription, Go channel and writes, is not modelled: no
request gets there.

## 3. Runs

| Run | Result | Shows |
|---|---|---|
| `delivery` | passes | one notification with up to two messages, two workers, all eight kinds of failure and any two of them: types, `SingleHandler`, `RetryBound`, `NoOrphan`, `AckedMeansAccepted`, `DuplicatesExplained`, `RetryBudget` |
| `delivery_batch` | passes | two notifications, crash and failing publish: `SettledIsRecorded`, `FeedFinal`, `CancelBeforePublish` |
| `delivery_live` | passes | `QueuedIsSettled`, `DueIsPublished` and `ImplementsAtLeastOnce` (the refinement, with its fairness) under fairness, with one failure of seven kinds |
| `breaker` | passes | three callers: `SingleProbe`, `RecoveredByProbe`, `TripEvidenceRecent` |
| `limiter` | passes | two callers, delays, expiry, Redis errors: `BurstBound`, `WaitBounded` |
| `pagination` | passes | three rows: `PagesDescend`, `NothingSkipped`, `ListingEnds` |
| `backpressure` | passes | two queues, one client beside the scheduler, one failure (a poll, the connection or a restart): `AdmissionBound`, `DepthRecovers` |
| `intake` | passes | two requests, single or batches of up to two, one failure: `AllOrNothing`, `KeyUnique`, `ConflictIsReal`, `ContentChecked`, `RenderedInOneWay`, `EveryCallAnswered` |
| `final_status` | violated | a row moves out of sent or cancelled, without any failure |
| `reconcile` | violated | a failed publish without `scheduled_at` is never repeated |
| `breaker_stuck` | violated | a test call that ends in the limiter leaves the breaker half-open for ever |
| `ws_refused` | violated | a client of the status feed is answered 501 and never subscribed |

The violated runs state what the documentation says; `PROJECT.json`, under
findings, quotes the line and the code that differs. `FinalStays` is violated in
several ways: the API handler marks queued a row that was cancelled, or sent by a
fast worker, since it published it; a worker marks processing a row that was
cancelled while its message was queued, and sends it.

The passing properties say how far the code's promises go; where the wording has
an exception, the code uses it:

* `RetryBound` and `SingleHandler` are about notifications without `scheduled_at`.
  One with a `scheduled_at` in the past is published by `Create` and, still pending
  and due, by the scheduler; its two messages are retried independently.
* `SettledIsRecorded` leaves out the shutdown: SIGTERM cancels the workers' context
  first, so the last allowed attempt, interrupted, is dead-lettered while
  `UpdateFailed` fails on the same context.
* `ContentChecked`: a rendered template is not checked for length, and an item of a
  batch that names a template is stored with empty content and never rendered.
* `RenderedInOneWay` is about templates whose only braces are those of their
  placeholders, and values without braces. Otherwise equal requests may be stored with
  different contents: `{{{{a}}}}` with b for a and x for b as `x` or as `{{b}}`, and
  `{{a}}` with `{{b}}` for a and x for b likewise. The run has both.
* `AdmissionBound` has three terms beside the threshold. `since` includes whole batches,
  polls of the scheduler and the requests let in on the same depth, and `blind`, after
  a restart, everything the queues held: nothing in the code bounds either.
* `DepthRecovers` and everything about delivery ends with the connection to RabbitMQ:
  nothing reopens it, `QueueDepth` keeps its last value, and requests go on being
  admitted or refused by it until the process restarts.

**Bounds.** One retry (`MaxRetries` = 1) is the smallest value with a retry and a
give-up. Two workers are enough for two goroutines to hold copies of one
notification; two messages of one notification are the API's and the scheduler's,
or one published before and one after a crash. Two failures cover a failure during the recovery
from another. In `delivery_batch` each notification is published once, so that
two of them fit; in `delivery_live` there is one worker, since a second one only
adds progress. `FeedFinal` and `SettledIsRecorded` are checked without failing
statements, shutdown and loss of the connection, under which the code does not
keep them: an interrupted give-up is not recorded (above), and an Ack that fails on
a closed connection is announced all the same. The breaker runs for four windows with up
to four outcomes in one; the limiter for three and a half seconds of two ticks
with a rate of two; three rows are two full pages of one and a third, or one
page of two and a rest; two values of `created_at` give ties and an order. In
`backpressure` the thresholds 0, 1 and 2 lie below what four messages can reach, so
that every tier refuses and admits, and of two queues one is read before the other
fills; a restart can find any backlog those messages can make, and one request is
between its check and its INSERT while the scheduler publishes. Two batches of two items suffice for a deadlock and for a conflict inside a
batch; two names, for a value that is the name of a placeholder or has one in it, and for
both orders; a third item, for a batch that is too large.

Runs without liveness use the symmetry of notifications, workers and clients. The
run `delivery` also leaves `feed`, which no action reads, out of the state
(`VIEW WithoutFeed`): none of its properties is about it.

`CHECK_DEADLOCK FALSE` everywhere: the number of notifications, of failures, of
units of time and of rows is bounded, and the system then rests.

**Fairness.** Weak fairness of every goroutine of the API, scheduler and workers
(the Go scheduler runs what can run, and every call has a timeout or an end); the
ticker polls again; a stopping process stops (the container runtime sends
SIGKILL and restarts it). Strong fairness of two things the environment decides:
a message that is ready again and again is delivered, and one that reaches
breaker and limiter again and again is let through. The second does not hold in a
process whose breaker is stuck (`breaker_stuck`); `QueuedIsSettled` is therefore
a statement about the pipeline given a working gate. In the breaker, a call that
was let through returns. The strong fairness of delivery is about a queue in which
messages of higher priority do not arrive for ever.

In `Backpressure` publishers, poller and broker are weakly fair, and a message is
settled if it is with a worker again and again (what `QueuedIsSettled` says of the
pipeline). In `Intake` a handler whose next statement can run runs it, and
PostgreSQL breaks circles. In `StatusFeed` the handlers of a request run.

## 4. Proofs

Theorems hold for every value of the constants that meets the named ASSUMEs:
any finite set of notifications, any workers, clients, retries, failures, queues,
texts and variables. `PROJECT.json` lists the theorems; every invariant and action
property of a passing run is one of them.

Each invariant below was model-checked before it was proved.

`DeliveryProofs`:

* `TypeCorrect`: `TypeOK`.
* `CopiesHeld`: `CopyInv`. With the connection open a copy is unacknowledged
  exactly while one goroutine is between its delivery and its Ack or Nack;
  with it closed none is. `NothingOrphaned` (`NoOrphan`) follows.
* `PublishedByOne`: `PublishInv`. A row without `scheduled_at` is published by the
  handler that inserted it and by nobody else, so at most once: what is still to
  be published, the published count and the row's status exclude each other.
* `OneHandler` (`SingleHandler`): an unscheduled notification has one copy by
  `PublishInv`, and one copy has one goroutine by `CopyInv`. After the
  connection is lost goroutines may still hold a copy, but nothing is delivered
  any more, which is why `CopyInv` has two cases.
* `RowStillRead`: `RetryInv`. The count a goroutine read is still the row's count
  until it writes it; this is `SingleHandler` put to use, and gives
  `RetriesBounded` (`RetryBound`).
* `AcceptedBeforeAck` (`AckedMeansAccepted`): `ResultInv`, a goroutine that holds
  the answer "ok" has a copy the provider accepted.
* `DuplicatesPaidFor` (`DuplicatesExplained`): `DuplicateInv` counts acceptances of
  a copy against failures, with one to spare for the goroutine that has not sent
  yet; a cancelled context or a closed connection accounts for the last one.

`DeliveryOutcomeProofs`:

* `RequestsBounded` (`RetryBudget`): `BudgetInv` counts requests against the row's
  retries and the failures, in the way of `DuplicateInv`. When the count is used up
  the message is settled, or the goroutine that made the last request will not
  requeue it without counting a retry first (`Concluding`).
* `CancelledInTime` (`CancelBeforePublish`): from `MarkInv`, which says that whoever
  will mark a row queued has published it.
* `SettledAndRecorded` (`SettledIsRecorded`), for sets of failures without failing
  statements and shutdown: `RecordInv`, the outcome is in the row before the Ack. The
  code keeps the property under no weaker assumption (section 3).
* `LastWord` (`FeedFinal`), for sets of failures without loss of the connection:
  `FeedInv`, the goroutine that announces an outcome has settled the message and is
  the last to hold it.

* `ImplementsPromise`: every behaviour of `Delivery` maps to one of `AtLeastOnce`
  without its fairness. Each step is a step of the abstract specification or a
  stutter, by `TypeOK`, `CopyInv`, `PublishInv`, `MarkInv`, `ResultInv` and
  `DuplicateInv`: only a copy the provider accepted is acknowledged (`ResultInv`), and
  an acceptance after the first finds a failure that pays for it (`DuplicateInv`).

`CircuitBreakerProofs`: `BreakerCorrect` proves `BreakerInv`: a call in flight is
younger than `CallBound` and was let through in the current window or before it
ended; while open it was let through no later than the last failure. Since
`CallBound <= Timeout`, when the timeout is over every such call has returned:
that is why the probe is alone (`OneProbe`), why only the probe closes the breaker
(`ProbeDecides`), and with the first part why the breaker never trips on an old
window (`TripsOnRecent`). `BreakerTyped` is `TypeOK`.

`RateLimiterProofs`: `RateInv`. The bucket's `Level`, its content taken back to time
0, is left alone by time and lowered by every grant, and by a bucket that would
overflow. `SpentInv` says that what was granted since any earlier grant was taken from a
bucket that was at most full then; `LevelInv` that the bucket was not below 0 when
the script last ran. The two give `RateKept` (`BurstBound`): the term `Delay` in it is
what calls that run the script out of order can gain. A key that expires has had
time to fill, so forgetting it grants nothing (`LevelInv` and `Saved`). `WaitEnds`
(`WaitBounded`) is the part about time, `BucketTyped` is `TypeOK`.

`IntakeProofs`: `IntakePath` proves `IntakeInv`. The actions are first sorted into
seven kinds of step (`Step`, lemma `StepKinds`). `StepInv` ties a handler's position to
its transaction: open from BEGIN to its end, the items before `pos` inserted, no row
in the table before it is done. `KeyInv` states uniqueness for all *inserted* rows,
committed or not; for the committed ones alone it is not inductive, since COMMIT
looks at nothing. An INSERT keeps it because a key in the table or in the own
transaction is refused (`Taken`) and a key of another open transaction makes it wait
(`Waits`). From these: `StoredWholeOrNot` (`AllOrNothing`), `OneRowPerKey`
(`KeyUnique`), `ConflictFinal` (`ConflictIsReal`) and, with `ItemInv` and
`ContentInv`, `OnlyCheckedContent` (`ContentChecked`). `IntakeTyped` is `TypeOK`.

The first half of `IntakeProofs` is about texts. `FlattenSeq`, from which `Substitute` is
built, and `Render` are recursive functions given by CHOOSE; the lemmas show that such
functions exist (`FlattenDefined`, `RenderSteps`) and derive the laws of `Expand`, which
puts a text in the place of every token: of a text in two parts, of two expansions one
after the other, of one that changes nothing. A template whose only braces are those of
its placeholders is `Spell` of a sequence of names and plain characters, its words.

* No occurrence of `{{name}}` reaches from one such word into the next: it begins with
  two left braces and ends with two right ones, and a word either has no brace or is a
  placeholder as a whole (`WordApart`, `MatchApart`). `Substitute` therefore works word
  by word (`SubstituteConcat`): it replaces the word `{{name}}` and nothing else
  (`SubstituteWord`, `SubstituteSpelled`). In `{{{{a}}}}`, which is no such sequence, the
  argument fails here.
* A value without braces is plain characters, and so again words: the text after a
  replacement is spelled too, and the names that come later leave the value alone
  (`OneMoreVariable`).
* By induction over the set of names that are in (`OneMoreReplaced`), whatever the order,
  the text is the one in which those names were put in together: `RenderOrderFree`.

`RenderedOnce` (`RenderedInOneWay`) carries this into the table by `RenderInv`: a single
request past its template has the content its template means, and the template stays as
it is, since nothing changes or deletes one (`TemplateStays`).

`BackpressureProofs`: `DepthAccountsForLoad` proves `Accounts`. `DepthAccounts` says that
everything under way is at most the depth in force, the workers' slots (which a queue's
length does not show), what came since the poll behind it began and what it did not
reach. It is not inductive alone, since a poll replaces all of these at once:
`PollAccounts` says the same of the running poll for the queues it has read so far, and
`NotYetBlind` that only a poll that has given up has passed over a queue. A message that
is published, delivered, requeued or settled between two reads moves inside one side of
the inequality or is in `pollSince` already; a request that is let in is in `since` before
it is inserted. A restart sets the depth to 0 and keeps the inequality because the whole
backlog is then `blind`. `AdmissionIsBounded` (`AdmissionBound`) adds
the threshold; `BackpressureTyped` is `TypeOK`. The sums over queues and publishers are
`SumFunctionOnSet` of the community modules; the laws they need (`SumUnfold`, `SumChange`,
`SumAgree`, `SumPlus`, `SumGrows`) are proved for any finite set.

`PaginationProofs`: `ListPath` proves `ListInv`: what was shown is not below the
cursor, and a row that matched throughout was shown or is below it. The lemmas are
about `ORDER BY ... LIMIT` on any finite table: a page has every row newer than one of
its own (`TopClosed`), has a last row, which the cursor names (`LastOfPage`), and has
all candidates when one more than its size could not be fetched (`TopAll`). From it
`NoRowTwice` (`PagesDescend`) and `ListingComplete` (`NothingSkipped`); `ListTyped` is
`TypeOK`.

**Induction.** Where a proof needs induction, over a finite set (rows of a page, queues of
a sum), a number or the length of a text, it takes a smallest counterexample instead:
`SmallestMember`, which rests on the well-foundedness of strict inclusion among finite
sets, and from it `LeastNat` and `ShortestSeq`.

**Assumptions.** The ones a proof needs beyond the types of the constants: notifications,
rows, names and the requests of `Backpressure` are finite sets; in `Intake` the two braces
are different characters and no name has one in it (`TextsAssumption`); in the breaker
`CallBound <= Timeout`; in the limiter a call of the script is delayed by at most half a
second; in `Backpressure` the poller reads every queue once per round (`OrderAssumption`, the loop of
`main` over the three channels) and the scheduler is not a request. TLC evaluates each
of them on its run.

Only model-checked: the liveness properties (`QueuedIsSettled`, `DueIsPublished`,
`ListingEnds`, `DepthRecovers`, `EveryCallAnswered`) and the fairness of the
refinement (`ImplementsAtLeastOnce`), which are out of the prover's reach.

## 5. Not modelled

Metrics and health report and change nothing; configuration is read once; `docs/docs.go`
is generated. Of the middleware only what decides the fate of a WebSocket request is
modelled (`StatusFeed`); `contentTypeJSON` refuses a request before any handler sees it.
The loop of `HandleWS` after `Accept` is unreachable behind that middleware. Messages that
cannot be parsed (`processor.go:62-72`) are acknowledged and dropped; the producer makes
none. Message priorities are left out of delivery (any order is allowed, which covers
theirs), and so is the arithmetic of `calculateBackoff`: a backoff only ends some time
later. Several application instances at once are not modelled: the code's breaker and
queue depth are per process and the deployment runs one.

## 6. What is left

Composition of breaker and limiter with the workers' gate, to replace the strong
fairness of `GatePass` by what they guarantee; it would have to be checked, not proved,
and needs the time of the two modules beside the state of `Delivery`. The order of
message priorities inside a queue, and the reopened channel of the metrics handler,
are hazards without a property (`PROJECT.json` says why).
