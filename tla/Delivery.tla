------------------------------ MODULE Delivery ------------------------------
(***************************************************************************)
(* The delivery pipeline of one channel: the API handlers that insert a    *)
(* notification and publish it, the scheduler that publishes the ones that *)
(* fall due, the RabbitMQ queue between them and the workers, the workers  *)
(* that call the provider, and the row every one of them writes without    *)
(* looking at what the others wrote.                                       *)
(*                                                                         *)
(* One step is one call that leaves the process: a SQL statement, a        *)
(* publish, an Ack or Nack, an HTTP request.  Between two calls of one     *)
(* goroutine every other goroutine, the broker and a failure may run.      *)
(* PostgreSQL, RabbitMQ and the provider are external: they are modelled   *)
(* as the code uses them.                                                  *)
(***************************************************************************)
EXTENDS Naturals, FiniteSets, FiniteSetsExt

CONSTANTS
    Notifications,  \* the notifications clients may create
    Workers,        \* the goroutines of the channel's dispatcher
    Clients,        \* the API requests served at the same time
    MaxRetries,     \* MAX_RETRIES
    PollLimit,      \* the LIMIT of the scheduler's query (100 in the code)
    MaxCopies,      \* bound: how often one notification is published
    Faults,         \* the kinds of failure that may happen in this instance
    MaxFaults,      \* bound: how many failures happen
    None            \* "no notification"

FaultKinds == {
    "crash",        \* the process dies and the container runtime restarts it
    "sigterm",      \* the process is told to stop; it is started again later
    "mqLost",       \* the connection to RabbitMQ closes (nothing reopens it)
    "publishErr",   \* one publish returns an error
    "lostPublish",  \* a publish returns nil and the message never arrives
    "db",           \* a SQL statement returns an error
    "replyLost",    \* the provider accepts a request and the answer is lost
    "badURL" }      \* http.NewRequest fails: neither retryable nor permanent

ASSUME NoneAssumption    == None \notin Notifications
ASSUME RetriesAssumption == MaxRetries \in Nat
ASSUME PollAssumption    == PollLimit \in Nat \ {0}
ASSUME CopiesAssumption  == MaxCopies \in Nat \ {0}
ASSUME FaultsAssumption  == Faults \subseteq FaultKinds /\ MaxFaults \in Nat
ASSUME FiniteAssumption  == IsFiniteSet(Notifications)

VARIABLES
    \* table notifications
    status,         \* column status, or "absent" before the INSERT
    retryCount,     \* column retry_count (next_retry_at is set iff it is > 0)
    sentAt,         \* column sent_at IS NOT NULL
    failedAt,       \* column failed_at IS NOT NULL
    sched,          \* scheduled_at: "none", or still in the "future", or "due"
    \* API handlers, inside Create or CreateBatch
    apiTodo,        \* the inserted notifications the loop has not reached
    apiMark,        \* the one just published, not yet marked queued
    \* scheduler, inside poll
    schedList,      \* the rows it read and has not reached
    schedMark,      \* the one just published, not yet marked queued
    \* broker: copy <<n, k>> is the k-th message published for n
    pub,            \* how many messages were published for n
    loc,            \* where a copy is
    mqUp,           \* the process's connection to the broker is open
    \* workers, inside Process
    pc, held, snap, result,
    \* the process
    phase,          \* "up", "stopping" (context cancelled), "drained"
    faults,         \* failures so far
    \* history
    attempts,       \* HTTP requests made for n
    acc,            \* requests of a copy that the provider accepted
    feed            \* the last status published to the WebSocket feed

rowVars    == <<status, retryCount, sentAt, failedAt, sched>>
apiVars    == <<apiTodo, apiMark>>
schedVars  == <<schedList, schedMark>>
mqVars     == <<pub, loc>>
workerVars == <<pc, held, snap, result>>
histVars   == <<attempts, acc, feed>>
vars == <<rowVars, apiVars, schedVars, mqVars, mqUp, workerVars, phase, faults, histVars>>

Copies == Notifications \X (1..MaxCopies)
NoCopy == <<None, 0>>

Statuses  == {"absent", "pending", "queued", "processing", "sent", "failed", "cancelled"}
Places    == {"none", "ready", "unacked", "acked", "dead", "lost"}
Steps     == {"idle", "read", "wait", "mark", "gate", "send", "settle", "ack", "announce"}
Results   == {"none", "ok", "retry", "permanent", "unknown"}

TypeOK ==
    /\ status \in [Notifications -> Statuses]
    /\ retryCount \in [Notifications -> Nat]
    /\ sentAt \in [Notifications -> BOOLEAN]
    /\ failedAt \in [Notifications -> BOOLEAN]
    /\ sched \in [Notifications -> {"none", "future", "due"}]
    /\ apiTodo \in [Clients -> SUBSET Notifications]
    /\ apiMark \in [Clients -> Notifications \cup {None}]
    /\ schedList \in SUBSET Notifications
    /\ schedMark \in Notifications \cup {None}
    /\ pub \in [Notifications -> 0..MaxCopies]
    /\ loc \in [Copies -> Places]
    /\ mqUp \in BOOLEAN
    /\ pc \in [Workers -> Steps]
    /\ held \in [Workers -> Copies \cup {NoCopy}]
    /\ \A w \in Workers : pc[w] # "idle" => held[w] \in Copies
    /\ snap \in [Workers -> Nat]
    /\ result \in [Workers -> Results]
    /\ phase \in {"up", "stopping", "drained"}
    /\ faults \in 0..MaxFaults
    /\ attempts \in [Notifications -> Nat]
    /\ acc \in [Copies -> Nat]
    /\ feed \in [Notifications -> {"none", "processing", "sent", "failed"}]

Init ==
    /\ status = [n \in Notifications |-> "absent"]
    /\ retryCount = [n \in Notifications |-> 0]
    /\ sentAt = [n \in Notifications |-> FALSE]
    /\ failedAt = [n \in Notifications |-> FALSE]
    /\ sched = [n \in Notifications |-> "none"]
    /\ apiTodo = [c \in Clients |-> {}]
    /\ apiMark = [c \in Clients |-> None]
    /\ schedList = {}
    /\ schedMark = None
    /\ pub = [n \in Notifications |-> 0]
    /\ loc = [m \in Copies |-> "none"]
    /\ mqUp = TRUE
    /\ pc = [w \in Workers |-> "idle"]
    /\ held = [w \in Workers |-> NoCopy]
    /\ snap = [w \in Workers |-> 0]
    /\ result = [w \in Workers |-> "none"]
    /\ phase = "up"
    /\ faults = 0
    /\ attempts = [n \in Notifications |-> 0]
    /\ acc = [m \in Copies |-> 0]
    /\ feed = [n \in Notifications |-> "none"]

-----------------------------------------------------------------------------
(* Failures and shared calls *)

\* workerCtx is cancelled: every SQL statement, HTTP request and Redis publish
\* that the workers or the scheduler start with it fails.
CtxDone == phase # "up"

Fault(kind) ==
    /\ kind \in Faults
    /\ faults < MaxFaults
    /\ faults' = faults + 1

\* A statement on workerCtx fails: always once it is cancelled, else by a fault.
StatementFails ==
    \/ CtxDone /\ UNCHANGED faults
    \/ ~CtxDone /\ Fault("db")

Put(n, place) ==
    /\ pub[n] < MaxCopies
    /\ pub' = [pub EXCEPT ![n] = @ + 1]
    /\ loc' = [loc EXCEPT ![<<n, pub[n] + 1>>] = place]

\* Producer.Publish returns nil.  The channel is not in confirm mode, so the
\* message may still be lost on the way.
Published(n) ==
    /\ mqUp
    /\ \/ Put(n, "ready") /\ UNCHANGED faults
       \/ Put(n, "lost") /\ Fault("lostPublish")

\* Producer.Publish returns an error: nothing reached the broker.
PublishFailed ==
    \/ ~mqUp /\ UNCHANGED faults
    \/ mqUp /\ Fault("publishErr")

\* UpdateStatus: an unconditional UPDATE of the status column.
UpdateStatus(n, s) == status' = [status EXCEPT ![n] = s]

-----------------------------------------------------------------------------
(* API: NotificationService.Create, CreateBatch, Cancel *)

ApiIdle(c) == apiTodo[c] = {} /\ apiMark[c] = None

\* The INSERT of one notification, or of a batch in one transaction.
Insert(S, when) ==
    /\ \A n \in S : status[n] = "absent"
    /\ status' = [n \in Notifications |-> IF n \in S THEN "pending" ELSE status[n]]
    /\ sched' = [n \in Notifications |-> IF n \in S THEN when[n] ELSE sched[n]]

\* A valid request is inserted.  A client may give any scheduled_at, a past one
\* too.
CreateBatch(c, S, when) ==
    /\ ApiIdle(c)
    /\ Insert(S, when)
    /\ apiTodo' = [apiTodo EXCEPT ![c] = S]
    /\ UNCHANGED <<retryCount, sentAt, failedAt, apiMark, schedVars, mqVars, mqUp,
                   workerVars, phase, faults, histVars>>

Create(c, n, when) == CreateBatch(c, {n}, [m \in {n} |-> when])

\* The loop reaches n, which is due later: left to the scheduler.
ApiSkip(c, n) ==
    /\ apiMark[c] = None
    /\ n \in apiTodo[c]
    /\ sched[n] = "future"
    /\ apiTodo' = [apiTodo EXCEPT ![c] = @ \ {n}]
    /\ UNCHANGED <<rowVars, apiMark, schedVars, mqVars, mqUp, workerVars, phase, faults, histVars>>

ApiPublish(c, n) ==
    /\ apiMark[c] = None
    /\ n \in apiTodo[c]
    /\ sched[n] # "future"
    /\ Published(n)
    /\ apiTodo' = [apiTodo EXCEPT ![c] = @ \ {n}]
    /\ apiMark' = [apiMark EXCEPT ![c] = n]
    /\ UNCHANGED <<rowVars, schedVars, mqUp, workerVars, phase, histVars>>

\* The error is logged, the row stays pending and the client is answered 201.
ApiPublishError(c, n) ==
    /\ apiMark[c] = None
    /\ n \in apiTodo[c]
    /\ sched[n] # "future"
    /\ PublishFailed
    /\ apiTodo' = [apiTodo EXCEPT ![c] = @ \ {n}]
    /\ UNCHANGED <<rowVars, apiMark, schedVars, mqVars, mqUp, workerVars, phase, histVars>>

ApiMark(c) ==
    /\ apiMark[c] # None
    /\ UpdateStatus(apiMark[c], "queued")
    /\ apiMark' = [apiMark EXCEPT ![c] = None]
    /\ UNCHANGED <<retryCount, sentAt, failedAt, sched, apiTodo, schedVars, mqVars, mqUp,
                   workerVars, phase, faults, histVars>>

\* The UPDATE fails (also when the client hangs up: it runs on the request's
\* context); the error is only logged.
ApiMarkError(c) ==
    /\ apiMark[c] # None
    /\ Fault("db")
    /\ apiMark' = [apiMark EXCEPT ![c] = None]
    /\ UNCHANGED <<rowVars, apiTodo, schedVars, mqVars, mqUp, workerVars, phase, histVars>>

Cancellable == {"pending", "queued"}

\* Mutant: writes a status the table's CHECK constraint does not know.
CancelMisspelt(n) ==
    /\ status[n] \in Cancellable
    /\ status' = [status EXCEPT ![n] = "canceled"]
    /\ UNCHANGED <<retryCount, sentAt, failedAt, sched, apiVars, schedVars, mqVars, mqUp,
                   workerVars, phase, faults, histVars>>

\* PATCH /notifications/{id}/cancel that answers 200.
Cancel(n) ==
    /\ status[n] \in Cancellable
    /\ status' = [status EXCEPT ![n] = "cancelled"]
    /\ UNCHANGED <<retryCount, sentAt, failedAt, sched, apiVars, schedVars, mqVars, mqUp,
                   workerVars, phase, faults, histVars>>

-----------------------------------------------------------------------------
(* Scheduler *)

\* scheduled_at passes.
FallsDue(n) ==
    /\ sched[n] = "future"
    /\ sched' = [sched EXCEPT ![n] = "due"]
    /\ UNCHANGED <<status, retryCount, sentAt, failedAt, apiVars, schedVars, mqVars, mqUp,
                   workerVars, phase, faults, histVars>>

\* Mutant: the query does not look at the status.
ScheduledReadyAnyStatus == {n \in Notifications : status[n] # "absent" /\ sched[n] = "due"}

\* The rows GetScheduledReady selects before its LIMIT.
ScheduledReady == {n \in Notifications : status[n] = "pending" /\ sched[n] = "due"}

SchedIdle == schedList = {} /\ schedMark = None

\* A tick of the scheduler whose query returns rows.
SchedPoll ==
    /\ ~CtxDone
    /\ SchedIdle
    /\ \E S \in SUBSET ScheduledReady :
          /\ S # {}
          /\ Cardinality(S) = Min({PollLimit, Cardinality(ScheduledReady)})
          /\ schedList' = S
    /\ UNCHANGED <<rowVars, apiVars, schedMark, mqVars, mqUp, workerVars, phase, faults, histVars>>

SchedPublish(n) ==
    /\ schedMark = None
    /\ n \in schedList
    /\ Published(n)
    /\ schedList' = schedList \ {n}
    /\ schedMark' = n
    /\ UNCHANGED <<rowVars, apiVars, mqUp, workerVars, phase, histVars>>

\* Mutant: the loop goes on to the UPDATE after a failed publish.
SchedPublishErrorMarks(n) ==
    /\ schedMark = None
    /\ n \in schedList
    /\ PublishFailed
    /\ schedList' = schedList \ {n}
    /\ schedMark' = n
    /\ UNCHANGED <<rowVars, apiVars, mqVars, mqUp, workerVars, phase, histVars>>

SchedPublishError(n) ==
    /\ schedMark = None
    /\ n \in schedList
    /\ PublishFailed
    /\ schedList' = schedList \ {n}
    /\ UNCHANGED <<rowVars, apiVars, schedMark, mqVars, mqUp, workerVars, phase, histVars>>

SchedMark ==
    /\ schedMark # None
    /\ ~CtxDone
    /\ UpdateStatus(schedMark, "queued")
    /\ schedMark' = None
    /\ UNCHANGED <<retryCount, sentAt, failedAt, sched, apiVars, schedList, mqVars, mqUp,
                   workerVars, phase, faults, histVars>>

SchedMarkError ==
    /\ schedMark # None
    /\ StatementFails
    /\ schedMark' = None
    /\ UNCHANGED <<rowVars, apiVars, schedList, mqVars, mqUp, workerVars, phase, histVars>>

-----------------------------------------------------------------------------
(* Worker: Processor.Process on one delivery *)

Handled(w) == held[w][1]

\* delivery.Ack or Nack moves the copy; on a closed connection it only fails,
\* and the broker has taken the copy back already.
Resolve(w, place) == loc' = IF mqUp THEN [loc EXCEPT ![held[w]] = place] ELSE loc

Free(w) ==
    /\ pc' = [pc EXCEPT ![w] = "idle"]
    /\ held' = [held EXCEPT ![w] = NoCopy]
    /\ snap' = [snap EXCEPT ![w] = 0]
    /\ result' = [result EXCEPT ![w] = "none"]

\* Mutant: an early return without Nack.
RequeueForgotten(w) == UNCHANGED mqVars /\ Free(w)

\* delivery.Nack(false, true) and return.
Requeue(w) == Resolve(w, "ready") /\ UNCHANGED pub /\ Free(w)

Goto(w, step) == pc' = [pc EXCEPT ![w] = step]

\* ps.Publish: fire and forget, on workerCtx.
Tell(n, s) == feed' = IF CtxDone THEN feed ELSE [feed EXCEPT ![n] = s]

\* Mutant: the consumer is started with autoAck, so the broker forgets a
\* message as soon as it has sent it.
DeliverAutoAck(w, m) ==
    /\ pc[w] = "idle"
    /\ mqUp
    /\ phase # "drained"
    /\ loc[m] = "ready"
    /\ loc' = [loc EXCEPT ![m] = "acked"]
    /\ held' = [held EXCEPT ![w] = m]
    /\ Goto(w, "read")
    /\ UNCHANGED <<rowVars, apiVars, schedVars, pub, mqUp, snap, result, phase, faults, histVars>>

\* The broker hands a copy to an idle goroutine; the prefetch count is the
\* number of goroutines.
Deliver(w, m) ==
    /\ pc[w] = "idle"
    /\ mqUp
    /\ phase # "drained"
    /\ loc[m] = "ready"
    /\ loc' = [loc EXCEPT ![m] = "unacked"]
    /\ held' = [held EXCEPT ![w] = m]
    /\ Goto(w, "read")
    /\ UNCHANGED <<rowVars, apiVars, schedVars, pub, mqUp, snap, result, phase, faults, histVars>>

\* GetByID: the row the rest of Process decides on.  A row with next_retry_at
\* set is held until then.
Read(w) ==
    /\ pc[w] = "read"
    /\ ~CtxDone
    /\ snap' = [snap EXCEPT ![w] = retryCount[Handled(w)]]
    /\ Goto(w, IF retryCount[Handled(w)] > 0 THEN "wait" ELSE "mark")
    /\ UNCHANGED <<rowVars, apiVars, schedVars, mqVars, mqUp, held, result, phase, faults, histVars>>

ReadError(w) ==
    /\ pc[w] = "read"
    /\ StatementFails
    /\ Requeue(w)
    /\ UNCHANGED <<rowVars, apiVars, schedVars, mqUp, phase, histVars>>

BackoffOver(w) ==
    /\ pc[w] = "wait"
    /\ Goto(w, "mark")
    /\ UNCHANGED <<rowVars, apiVars, schedVars, mqVars, mqUp, held, snap, result, phase, faults, histVars>>

BackoffInterrupted(w) ==
    /\ pc[w] = "wait"
    /\ CtxDone
    /\ Requeue(w)
    /\ UNCHANGED <<rowVars, apiVars, schedVars, mqUp, phase, faults, histVars>>

MarkProcessing(w) ==
    /\ pc[w] = "mark"
    /\ ~CtxDone
    /\ UpdateStatus(Handled(w), "processing")
    /\ Goto(w, "gate")
    /\ UNCHANGED <<retryCount, sentAt, failedAt, sched, apiVars, schedVars, mqVars, mqUp,
                   held, snap, result, phase, faults, histVars>>

\* The statement fails; it may have been executed all the same.
MarkProcessingError(w) ==
    /\ pc[w] = "mark"
    /\ StatementFails
    /\ UpdateStatus(Handled(w), "processing") \/ UNCHANGED status
    /\ Requeue(w)
    /\ UNCHANGED <<retryCount, sentAt, failedAt, sched, apiVars, schedVars, mqUp, phase, histVars>>

\* "processing" is published, the breaker allows the call and the limiter gives
\* a token (or fails open).
GatePass(w) ==
    /\ pc[w] = "gate"
    /\ Tell(Handled(w), "processing")
    /\ Goto(w, "send")
    /\ UNCHANGED <<rowVars, apiVars, schedVars, mqVars, mqUp, held, snap, result, phase, faults,
                   attempts, acc>>

\* The breaker refuses, or the limiter gives up after its five seconds.
GateDeny(w) ==
    /\ pc[w] = "gate"
    /\ Tell(Handled(w), "processing")
    /\ Requeue(w)
    /\ UNCHANGED <<rowVars, apiVars, schedVars, mqUp, phase, faults, attempts, acc>>

\* WebhookProvider.Send with an answer from the provider: 2xx, 429/5xx or no
\* connection, 4xx.
Send(w) ==
    /\ pc[w] = "send"
    /\ ~CtxDone
    /\ \E r \in {"ok", "retry", "permanent"} :
          /\ result' = [result EXCEPT ![w] = r]
          /\ acc' = IF r = "ok" THEN [acc EXCEPT ![held[w]] = @ + 1] ELSE acc
    /\ attempts' = [attempts EXCEPT ![Handled(w)] = @ + 1]
    /\ Goto(w, "settle")
    /\ UNCHANGED <<rowVars, apiVars, schedVars, mqVars, mqUp, held, snap, phase, faults, feed>>

\* The request's context is cancelled, before it is made or in flight: the
\* provider may or may not have accepted it, the worker sees a retryable error.
SendCancelled(w) ==
    /\ pc[w] = "send"
    /\ CtxDone
    /\ result' = [result EXCEPT ![w] = "retry"]
    /\ \/ UNCHANGED <<acc, attempts>>
       \/ /\ acc' = [acc EXCEPT ![held[w]] = @ + 1]
          /\ attempts' = [attempts EXCEPT ![Handled(w)] = @ + 1]
    /\ Goto(w, "settle")
    /\ UNCHANGED <<rowVars, apiVars, schedVars, mqVars, mqUp, held, snap, phase, faults, feed>>

\* The provider accepts the request but the worker sees an error: the 5 s
\* timeout or a broken connection.
SendReplyLost(w) ==
    /\ pc[w] = "send"
    /\ ~CtxDone
    /\ Fault("replyLost")
    /\ result' = [result EXCEPT ![w] = "retry"]
    /\ acc' = [acc EXCEPT ![held[w]] = @ + 1]
    /\ attempts' = [attempts EXCEPT ![Handled(w)] = @ + 1]
    /\ Goto(w, "settle")
    /\ UNCHANGED <<rowVars, apiVars, schedVars, mqVars, mqUp, held, snap, phase, feed>>

\* The request cannot be built: no HTTP request, no row update, Nack.
SendUnknown(w) ==
    /\ pc[w] = "send"
    /\ Fault("badURL")
    /\ result' = [result EXCEPT ![w] = "unknown"]
    /\ Goto(w, "ack")
    /\ UNCHANGED <<rowVars, apiVars, schedVars, mqVars, mqUp, held, snap, phase, histVars>>

\* Mutant: one retry too many.
MayRetryOnceMore(w) == snap[w] <= MaxRetries

\* The retry decision uses the row read before the send.
MayRetry(w) == snap[w] < MaxRetries

Retries(w) == result[w] = "retry" /\ MayRetry(w)
GivesUp(w) == result[w] = "permanent" \/ (result[w] = "retry" /\ ~MayRetry(w))

\* Mutant: the UPDATE only hits a row that is still processing.
RecordSentIfProcessing(n) ==
    IF status[n] = "processing"
    THEN status' = [status EXCEPT ![n] = "sent"] /\ sentAt' = [sentAt EXCEPT ![n] = TRUE]
    ELSE UNCHANGED <<status, sentAt>>

RecordSent(n) ==
    /\ status' = [status EXCEPT ![n] = "sent"]
    /\ sentAt' = [sentAt EXCEPT ![n] = TRUE]

UpdateSent(w) ==
    /\ pc[w] = "settle"
    /\ result[w] = "ok"
    /\ ~CtxDone
    /\ RecordSent(Handled(w))
    /\ Goto(w, "ack")
    /\ UNCHANGED <<retryCount, failedAt, sched, apiVars, schedVars, mqVars, mqUp,
                   held, snap, result, phase, faults, histVars>>

\* Mutant: only next_retry_at is written.
CountRetryForgotten(n) == UNCHANGED retryCount

CountRetry(n) == retryCount' = [retryCount EXCEPT ![n] = @ + 1]

\* The status stays processing.
IncrementRetry(w) ==
    /\ pc[w] = "settle"
    /\ Retries(w)
    /\ ~CtxDone
    /\ CountRetry(Handled(w))
    /\ Goto(w, "ack")
    /\ UNCHANGED <<status, sentAt, failedAt, sched, apiVars, schedVars, mqVars, mqUp,
                   held, snap, result, phase, faults, histVars>>

RecordFailed(n) ==
    /\ status' = [status EXCEPT ![n] = "failed"]
    /\ failedAt' = [failedAt EXCEPT ![n] = TRUE]

UpdateFailed(w) ==
    /\ pc[w] = "settle"
    /\ GivesUp(w)
    /\ ~CtxDone
    /\ RecordFailed(Handled(w))
    /\ Goto(w, "ack")
    /\ UNCHANGED <<retryCount, sentAt, sched, apiVars, schedVars, mqVars, mqUp,
                   held, snap, result, phase, faults, histVars>>

\* The outcome is not recorded; the error is logged and Process goes on.
SettleError(w) ==
    /\ pc[w] = "settle"
    /\ StatementFails
    /\ Goto(w, "ack")
    /\ UNCHANGED <<rowVars, apiVars, schedVars, mqVars, mqUp, held, snap, result, phase, histVars>>

\* Mutants: a failed message is acknowledged; a sent one is put back.
VerdictAlwaysAck(w) == "acked"
VerdictPutBack(w) == IF result[w] = "ok" THEN "ready" ELSE "dead"

\* Ack on success, Nack to the dead-letter queue when giving up.
Verdict(w) == IF result[w] = "ok" THEN "acked" ELSE "dead"

Finish(w) ==
    /\ pc[w] = "ack"
    /\ result[w] = "ok" \/ GivesUp(w)
    /\ Resolve(w, Verdict(w))
    /\ Goto(w, "announce")
    /\ UNCHANGED <<rowVars, apiVars, schedVars, pub, mqUp, held, snap, result, phase, faults, histVars>>

\* Nack with requeue after a retryable or an unknown error.
SendAgain(w) ==
    /\ pc[w] = "ack"
    /\ result[w] = "unknown" \/ Retries(w)
    /\ Requeue(w)
    /\ UNCHANGED <<rowVars, apiVars, schedVars, mqUp, phase, faults, histVars>>

Announce(w) ==
    /\ pc[w] = "announce"
    /\ Tell(Handled(w), IF result[w] = "ok" THEN "sent" ELSE "failed")
    /\ Free(w)
    /\ UNCHANGED <<rowVars, apiVars, schedVars, mqVars, mqUp, phase, faults, attempts, acc>>

-----------------------------------------------------------------------------
(* Process and connection *)

\* The broker takes back every copy that was not acknowledged.
TakenBack == [m \in Copies |-> IF loc[m] = "unacked" THEN "ready" ELSE loc[m]]

\* What a new process starts with.
Fresh ==
    /\ apiTodo' = [c \in Clients |-> {}]
    /\ apiMark' = [c \in Clients |-> None]
    /\ schedList' = {}
    /\ schedMark' = None
    /\ pc' = [w \in Workers |-> "idle"]
    /\ held' = [w \in Workers |-> NoCopy]
    /\ snap' = [w \in Workers |-> 0]
    /\ result' = [w \in Workers |-> "none"]
    /\ loc' = TakenBack
    /\ mqUp' = TRUE
    /\ phase' = "up"

\* Everything in memory is lost; the container is restarted.
Crash ==
    /\ Fault("crash")
    /\ Fresh
    /\ UNCHANGED <<rowVars, pub, histVars>>

\* Mutant: the library reconnects under the running goroutines.
ConnectionReopened ==
    /\ mqUp
    /\ Fault("mqLost")
    /\ loc' = TakenBack
    /\ UNCHANGED <<rowVars, apiVars, schedVars, pub, mqUp, workerVars, phase, histVars>>

\* The goroutines go on with what they hold; nothing reconnects.
ConnectionLost ==
    /\ mqUp
    /\ Fault("mqLost")
    /\ mqUp' = FALSE
    /\ loc' = TakenBack
    /\ UNCHANGED <<rowVars, apiVars, schedVars, pub, workerVars, phase, histVars>>

\* workerCancel()
Sigterm ==
    /\ phase = "up"
    /\ Fault("sigterm")
    /\ phase' = "stopping"
    /\ UNCHANGED <<rowVars, apiVars, schedVars, mqVars, mqUp, workerVars, histVars>>

\* ch.Cancel(consumerTag): no further deliveries.
CancelConsumer ==
    /\ phase = "stopping"
    /\ phase' = "drained"
    /\ UNCHANGED <<rowVars, apiVars, schedVars, mqVars, mqUp, workerVars, faults, histVars>>

\* The workers have returned and the HTTP server has no request left (a request
\* still running after its ten seconds is cut off as in Crash).  The scheduler
\* is not waited for.
Exit ==
    /\ phase = "drained"
    /\ \A w \in Workers : pc[w] = "idle"
    /\ \A c \in Clients : ApiIdle(c)
    /\ Fresh
    /\ UNCHANGED <<rowVars, pub, faults, histVars>>

-----------------------------------------------------------------------------
Api ==
    \/ \E c \in Clients, n \in Notifications : \E when \in {"none", "future", "due"} :
          Create(c, n, when)
    \/ \E c \in Clients, S \in SUBSET Notifications : \E when \in [S -> {"none", "future", "due"}] :
          S # {} /\ CreateBatch(c, S, when)
    \/ \E c \in Clients, n \in Notifications :
          ApiSkip(c, n) \/ ApiPublish(c, n) \/ ApiPublishError(c, n)
    \/ \E c \in Clients : ApiMark(c) \/ ApiMarkError(c)
    \/ \E n \in Notifications : Cancel(n)

Scheduler ==
    \/ SchedPoll \/ SchedMark \/ SchedMarkError
    \/ \E n \in Notifications : SchedPublish(n) \/ SchedPublishError(n)

Process(w) ==
    \/ Read(w) \/ ReadError(w)
    \/ BackoffOver(w) \/ BackoffInterrupted(w)
    \/ MarkProcessing(w) \/ MarkProcessingError(w)
    \/ GatePass(w) \/ GateDeny(w)
    \/ Send(w) \/ SendCancelled(w) \/ SendReplyLost(w) \/ SendUnknown(w)
    \/ UpdateSent(w) \/ IncrementRetry(w) \/ UpdateFailed(w) \/ SettleError(w)
    \/ Finish(w) \/ SendAgain(w) \/ Announce(w)

Environment ==
    \/ \E n \in Notifications : FallsDue(n)
    \/ \E w \in Workers, m \in Copies : Deliver(w, m)
    \/ Crash \/ ConnectionLost \/ Sigterm \/ CancelConsumer \/ Exit

Next == Api \/ Scheduler \/ Environment \/ \E w \in Workers : Process(w)

Spec == Init /\ [][Next]_vars

-----------------------------------------------------------------------------
(* Safety *)

Unscheduled(n) == sched[n] = "none"

\* w is between the delivery of a copy of n and its Ack or Nack.
Handles(w, n) == pc[w] \notin {"idle", "announce"} /\ Handled(w) = n

\* No two goroutines work on one unscheduled notification at a time, whatever
\* fails: the unconditional UPDATEs of Process never race with another Process.
SingleHandler ==
    \A n \in Notifications : Unscheduled(n) =>
        \A v, w \in Workers : Handles(v, n) /\ Handles(w, n) => v = w

\* retry_count of an unscheduled notification never exceeds MAX_RETRIES,
\* although IncrementRetry is unconditional and decided on an older read.
RetryBound ==
    \A n \in Notifications : Unscheduled(n) => retryCount[n] <= MaxRetries

\* Every delivery the broker waits for is in the hands of a goroutine: no path
\* through Process returns without Ack or Nack.
NoOrphan ==
    \A m \in Copies : loc[m] = "unacked" => \E w \in Workers : held[w] = m

\* A message is acknowledged only after the provider accepted it.
AckedMeansAccepted == \A m \in Copies : loc[m] = "acked" => acc[m] > 0

\* One message is accepted by the provider at most once more than there were
\* failures: every duplicate of a message is paid for by a failure.
DuplicatesExplained == \A m \in Copies : acc[m] <= 1 + faults

\* An unscheduled notification costs at most MAX_RETRIES + 1 requests, plus one
\* per failure: a crash or an unrecorded retry loses at most one count.
RetryBudget ==
    \A n \in Notifications : Unscheduled(n) => attempts[n] <= MaxRetries + 1 + faults

\* While statements do not fail, an acknowledged message has sent_at recorded
\* and a dead-lettered one failed_at.
SettledIsRecorded ==
    /\ \A m \in Copies : loc[m] = "acked" => sentAt[m[1]]
    /\ \A m \in Copies : loc[m] = "dead" => failedAt[m[1]]

\* Once the WebSocket feed has said "sent" or "failed" for an unscheduled
\* notification, it says nothing else about it (while the connection to the
\* broker stays: an Ack that fails is announced all the same).
FeedFinal ==
    [][\A n \in Notifications :
          Unscheduled(n) /\ feed[n] \in {"sent", "failed"} => feed'[n] = feed[n]]_vars

\* Nobody is about to publish n.
NotInHand(n) ==
    /\ pub[n] = 0
    /\ n \notin schedList
    /\ \A c \in Clients : n \notin apiTodo[c]

\* A notification cancelled before anyone picked it up for publishing stays
\* cancelled and is never published.
CancelBeforePublish ==
    [][\A n \in Notifications :
          status[n] = "cancelled" /\ NotInHand(n) => status'[n] = "cancelled" /\ NotInHand(n)']_vars

-----------------------------------------------------------------------------
(* What the documentation says and the code does not do *)

Final == {"sent", "failed", "cancelled"}

\* sent, failed and cancelled are the ends of a notification's life (README.md,
\* Delivery & Retry Logic): no goroutine moves a row out of them.
FinalStays ==
    [][\A n \in Notifications : status[n] \in Final => status'[n] = status[n]]_vars

-----------------------------------------------------------------------------
(* Liveness *)

ApiStep(c) ==
    \/ ApiMark(c)
    \/ \E n \in Notifications : ApiSkip(c, n) \/ ApiPublish(c, n) \/ ApiPublishError(c, n)

SchedStep ==
    \/ SchedMark \/ (CtxDone /\ SchedMarkError)
    \/ \E n \in Notifications : SchedPublish(n) \/ SchedPublishError(n)

\* Goroutines that can run do run; scheduled_at passes; a stopping process
\* stops.  Strong fairness is assumed of the environment only: a copy that is
\* ready again and again is delivered, and one that reaches the breaker and the
\* limiter again and again is let through.
Fairness ==
    /\ \A c \in Clients : WF_vars(ApiStep(c))
    /\ WF_vars(SchedPoll) /\ WF_vars(SchedStep)
    /\ \A n \in Notifications : WF_vars(FallsDue(n))
    /\ \A w \in Workers : WF_vars(Process(w))
    /\ \A m \in Copies : SF_vars(\E w \in Workers : Deliver(w, m))
    /\ \A m \in Copies : SF_vars(\E w \in Workers : held[w] = m /\ GatePass(w))
    /\ WF_vars(CancelConsumer) /\ WF_vars(Exit)

FairSpec == Spec /\ Fairness

\* A message in the queue is eventually acknowledged or dead-lettered: the
\* retries end, and neither a crash nor a shutdown leaves it behind.
QueuedIsSettled ==
    \A m \in Copies : loc[m] = "ready" ~> loc[m] \in {"acked", "dead"}

\* A scheduled notification that falls due is eventually published, unless it
\* is cancelled.
DueIsPublished ==
    \A n \in Notifications :
        (sched[n] = "due" /\ status[n] = "pending") ~> (pub[n] > 0 \/ status[n] = "cancelled")

\* README.md, Design Decisions: "If RabbitMQ is down after DB insert,
\* notification stays pending. API returns 201. Scheduler reconciles."
PendingIsReconciled ==
    \A n \in Notifications : status[n] = "pending" ~> (pub[n] > 0 \/ status[n] = "cancelled")
=============================================================================
