----------------------------- MODULE Backpressure -----------------------------
(***************************************************************************)
(* Backpressure: the goroutine of main that polls the queue lengths into   *)
(* QueueDepth, the handler of POST /notifications that refuses a request   *)
(* when the depth is over the threshold of its priority, and the producers *)
(* that are not asked: batches and the scheduler.  A request is inserted   *)
(* and published some time after it was let in, and the depth it was       *)
(* compared with was read, queue by queue, some time before.  A process    *)
(* that restarts finds durable queues and a depth of 0.  RabbitMQ and the  *)
(* workers are external: counts of ready and of unacknowledged messages.   *)
(***************************************************************************)
EXTENDS Naturals, Sequences, FiniteSets, Functions

CONSTANTS
    QueueOrder,     \* the queues in the order the poller reads them
    Clients,        \* requests served at the same time
    Scheduler,      \* the scheduler, as a publisher
    ThresholdLow, ThresholdNormal, ThresholdHigh,
    Prefetch,       \* unacknowledged deliveries per queue (the worker count)
    MaxBatch,       \* bound: messages of one batch or one scheduler poll
    MaxArrivals,    \* bound: messages that are created
    MaxFaults       \* bound: failures

Queues     == Range(QueueOrder)
Publishers == Clients \cup {Scheduler}
Priorities == {"low", "normal", "high"}

ASSUME ThresholdAssumption ==
    /\ ThresholdLow \in Nat /\ ThresholdNormal \in Nat /\ ThresholdHigh \in Nat
    /\ ThresholdLow <= ThresholdNormal /\ ThresholdNormal <= ThresholdHigh
ASSUME PrefetchAssumption == Prefetch \in Nat \ {0}
ASSUME OrderAssumption == QueueOrder \in Seq(Queues) /\ IsInjective(QueueOrder)
ASSUME ClientsAssumption == IsFiniteSet(Clients) /\ Scheduler \notin Clients
ASSUME BoundsAssumption == MaxBatch \in Nat /\ MaxArrivals \in Nat /\ MaxFaults \in Nat

VARIABLES
    ready,          \* messages a queue would report
    unacked,        \* messages with the workers
    mqUp,           \* the connection to the broker is open
    todo,           \* per publisher and queue: let in or stored, not yet published
    checking,       \* requests that were let in and are not yet inserted
    depth,          \* QueueDepth
    pos,            \* poller: 0 between ticks, i while reading the i-th queue
    total,          \* poller: its sum so far
    arrived, faults,
    \* history: what the depth in force, and the running poll, cannot know of
    since,          \* messages under way when the poll began, or created later
    blind,          \* messages in queues the poll did not get to, or that no
                    \* poll has read since the process began
    pollSince, pollBlind

loadVars == <<ready, unacked, todo, checking>>
pollVars == <<pos, total, pollSince, pollBlind>>
vars == <<loadVars, mqUp, depth, pollVars, arrived, faults, since, blind>>

TypeOK ==
    /\ ready \in [Queues -> Nat]
    /\ unacked \in [Queues -> 0..Prefetch]
    /\ mqUp \in BOOLEAN
    /\ todo \in [Publishers -> [Queues -> Nat]]
    /\ checking \subseteq Clients
    /\ depth \in Nat
    /\ pos \in 0..(Len(QueueOrder) + 1)
    /\ total \in Nat
    /\ arrived \in 0..MaxArrivals
    /\ faults \in 0..MaxFaults
    /\ since \in Nat /\ blind \in Nat /\ pollSince \in Nat /\ pollBlind \in Nat

Nothing == [q \in Queues |-> 0]

\* The first process of all; the later ones are in Restart.
Init ==
    /\ ready = Nothing
    /\ unacked = Nothing
    /\ mqUp = TRUE
    /\ todo = [p \in Publishers |-> Nothing]
    /\ checking = {}
    /\ depth = 0
    /\ pos = 0 /\ total = 0
    /\ arrived = 0 /\ faults = 0
    /\ since = 0 /\ blind = 0 /\ pollSince = 0 /\ pollBlind = 0

-----------------------------------------------------------------------------
(* What is under way *)

\* Let in or stored, and not yet published.
InFlight == SumFunction([p \in Publishers |-> SumFunction(todo[p])])

\* Everything that is, or is about to be, in the queues or with the workers.
Load == InFlight + SumFunction(ready) + SumFunction(unacked)

Fault == faults < MaxFaults /\ faults' = faults + 1

-----------------------------------------------------------------------------
(* Requests *)

\* A request without a priority is normal; an unknown priority is compared with
\* the threshold of normal and then refused by Validate.
Threshold(priority) ==
    CASE priority = "low" -> ThresholdLow
      [] priority = "normal" -> ThresholdNormal
      [] priority = "high" -> ThresholdHigh

\* TRUE: the request is answered 429 and leaves no trace.
checkBackpressure(priority) == depth > Threshold(priority)

\* p has the messages m, k in all, to publish one by one.
Store(p, m, k) ==
    /\ todo[p] = Nothing
    /\ arrived + k <= MaxArrivals
    /\ todo' = [todo EXCEPT ![p] = m]
    /\ arrived' = arrived + k
    /\ since' = since + k
    /\ pollSince' = IF pos = 0 THEN 0 ELSE pollSince + k
    /\ UNCHANGED <<ready, unacked, mqUp, depth, pos, total, pollBlind, faults, blind>>

\* POST /notifications is let in: from here on nothing looks at the depth again.
Create(c, priority, q) ==
    /\ ~checkBackpressure(priority)
    /\ Store(c, [Nothing EXCEPT ![q] = 1], 1)
    /\ checking' = checking \cup {c}

\* The INSERT of a request that was let in.
Insert(c) ==
    /\ c \in checking
    /\ checking' = checking \ {c}
    /\ UNCHANGED <<ready, unacked, todo, mqUp, depth, pollVars, arrived, faults, since, blind>>

\* Validate, the template or the INSERT ends in an error, or the notification is
\* for later: this request publishes nothing.
InsertFails(c) ==
    /\ c \in checking
    /\ checking' = checking \ {c}
    /\ todo' = [todo EXCEPT ![c] = Nothing]
    /\ UNCHANGED <<ready, unacked, mqUp, depth, pollVars, arrived, faults, since, blind>>

Batches == {m \in [Queues -> 0..MaxBatch] : SumFunction(m) \in 1..MaxBatch}

\* POST /notifications/batch: no check.
CreateBatch(c, m) == Store(c, m, SumFunction(m)) /\ UNCHANGED checking

\* The scheduler has read rows that are due: no check either.
SchedPoll(m) == Store(Scheduler, m, SumFunction(m)) /\ UNCHANGED checking

\* The publisher reaches a message for q.
Publish(p, q) ==
    /\ todo[p][q] > 0 /\ p \notin checking
    /\ mqUp
    /\ todo' = [todo EXCEPT ![p][q] = @ - 1]
    /\ ready' = [ready EXCEPT ![q] = @ + 1]
    /\ UNCHANGED <<unacked, checking, mqUp, depth, pollVars, arrived, faults, since, blind>>

\* The publish fails and the message stays out of the queue.
PublishError(p, q) ==
    /\ todo[p][q] > 0 /\ p \notin checking
    /\ ~mqUp
    /\ todo' = [todo EXCEPT ![p][q] = @ - 1]
    /\ UNCHANGED <<ready, unacked, checking, mqUp, depth, pollVars, arrived, faults, since, blind>>

-----------------------------------------------------------------------------
(* Broker and workers *)

\* Mutant: ch.Qos forgotten.
DeliverUnlimited(q) ==
    /\ mqUp
    /\ ready[q] > 0
    /\ ready' = [ready EXCEPT ![q] = @ - 1]
    /\ unacked' = [unacked EXCEPT ![q] = @ + 1]
    /\ UNCHANGED <<mqUp, todo, checking, depth, pollVars, arrived, faults, since, blind>>

Deliver(q) ==
    /\ mqUp
    /\ ready[q] > 0
    /\ unacked[q] < Prefetch
    /\ ready' = [ready EXCEPT ![q] = @ - 1]
    /\ unacked' = [unacked EXCEPT ![q] = @ + 1]
    /\ UNCHANGED <<mqUp, todo, checking, depth, pollVars, arrived, faults, since, blind>>

\* Acknowledged or dead-lettered.
Settle(q) ==
    /\ unacked[q] > 0
    /\ unacked' = [unacked EXCEPT ![q] = @ - 1]
    /\ UNCHANGED <<ready, mqUp, todo, checking, depth, pollVars, arrived, faults, since, blind>>

\* Nack with requeue.
Requeue(q) ==
    /\ unacked[q] > 0
    /\ unacked' = [unacked EXCEPT ![q] = @ - 1]
    /\ ready' = [ready EXCEPT ![q] = @ + 1]
    /\ UNCHANGED <<mqUp, todo, checking, depth, pollVars, arrived, faults, since, blind>>

\* Nothing reopens the connection; the unacknowledged messages are taken back.
ConnectionLost ==
    /\ mqUp
    /\ Fault
    /\ mqUp' = FALSE
    /\ ready' = [q \in Queues |-> ready[q] + unacked[q]]
    /\ unacked' = Nothing
    /\ UNCHANGED <<todo, checking, depth, pollVars, arrived, since, blind>>

\* The process ends, or dies, and starts again.  The queues are durable; what was
\* on its way to them is forgotten, and QueueDepth is 0 until the first tick, two
\* seconds later, whatever the queues hold.
Restart ==
    /\ Fault
    /\ mqUp' = TRUE
    /\ ready' = [q \in Queues |-> ready[q] + unacked[q]]
    /\ unacked' = Nothing
    /\ todo' = [p \in Publishers |-> Nothing]
    /\ checking' = {}
    /\ depth' = 0
    /\ pos' = 0 /\ total' = 0 /\ pollSince' = 0 /\ pollBlind' = 0
    /\ since' = 0
    /\ blind' = SumFunction(ready')
    /\ UNCHANGED arrived

-----------------------------------------------------------------------------
(* The depth poller *)

Reading == pos \in 1..Len(QueueOrder)
Done    == pos = Len(QueueOrder) + 1

\* A tick.  When the channel cannot be opened the tick is skipped.
PollOpen ==
    /\ pos = 0
    /\ mqUp
    /\ pos' = 1
    /\ total' = 0
    /\ pollSince' = InFlight
    /\ UNCHANGED <<loadVars, mqUp, depth, pollBlind, arrived, faults, since, blind>>

\* Mutant: the sum is overwritten.
AddedOverwrites == ready[QueueOrder[pos]]

Added == total + ready[QueueOrder[pos]]

\* QueueDeclarePassive reports the ready messages of the next queue.
PollRead ==
    /\ Reading
    /\ mqUp
    /\ total' = Added
    /\ pos' = pos + 1
    /\ UNCHANGED <<loadVars, mqUp, depth, pollSince, pollBlind, arrived, faults, since, blind>>

\* The queues the poll has not read.
Unread == {QueueOrder[i] : i \in pos..Len(QueueOrder)}

\* Mutant: the goroutine returns.
PollBreakReturns ==
    /\ Reading
    /\ \/ mqUp /\ Fault
       \/ ~mqUp /\ UNCHANGED faults
    /\ pos' = Len(QueueOrder) + 2
    /\ UNCHANGED <<loadVars, mqUp, depth, total, pollSince, pollBlind, arrived, since, blind>>

\* QueueDeclarePassive fails: the loop ends, the sum so far is kept.
PollBreak ==
    /\ Reading
    /\ \/ mqUp /\ Fault
       \/ ~mqUp /\ UNCHANGED faults
    /\ pos' = Len(QueueOrder) + 1
    /\ pollBlind' = SumFunctionOnSet(ready, Unread)
    /\ UNCHANGED <<loadVars, mqUp, depth, total, pollSince, arrived, since, blind>>

\* ch.Close, QueueDepth.Store
PollStore ==
    /\ Done
    /\ depth' = total
    /\ since' = pollSince
    /\ blind' = pollBlind
    /\ pos' = 0 /\ total' = 0 /\ pollSince' = 0 /\ pollBlind' = 0
    /\ UNCHANGED <<loadVars, mqUp, arrived, faults>>

-----------------------------------------------------------------------------
Requests ==
    \/ \E c \in Clients, priority \in Priorities, q \in Queues : Create(c, priority, q)
    \/ \E c \in Clients, m \in Batches : CreateBatch(c, m)
    \/ \E m \in Batches : SchedPoll(m)

\* What a publisher that has something to publish does next.
Proceed(p) ==
    \/ p \in Clients /\ (Insert(p) \/ InsertFails(p))
    \/ \E q \in Queues : Publish(p, q) \/ PublishError(p, q)

Broker ==
    \/ \E q \in Queues : Deliver(q) \/ Settle(q) \/ Requeue(q)
    \/ ConnectionLost

Poller == PollOpen \/ PollRead \/ PollBreak \/ PollStore

Next == Requests \/ (\E p \in Publishers : Proceed(p)) \/ Broker \/ Poller \/ Restart

Spec == Init /\ [][Next]_vars

\* Publishers, poller and workers run; the broker delivers.  A message does not
\* go back to its queue for ever (Delivery, QueuedIsSettled).
Fairness ==
    /\ \A p \in Publishers : WF_vars(Proceed(p))
    /\ \A q \in Queues : WF_vars(Deliver(q)) /\ SF_vars(Settle(q))
    /\ WF_vars(Poller)

FairSpec == Spec /\ Fairness

-----------------------------------------------------------------------------
(* Properties *)

\* How far the tiers hold although the depth is old, is read queue by queue, may
\* be incomplete and is 0 after a restart: a request of priority p that is let in
\* finds no more messages in the system, itself and the requests between their
\* check and their publish included, than its threshold, the workers' slots, what
\* arrived since the poll behind the depth (or the process) began, and what stood
\* in queues that poll did not reach, which before the first poll is all of them.
AdmissionBound ==
    [][\A c \in Clients, priority \in Priorities, q \in Queues :
          Create(c, priority, q) =>
             Load' <= Threshold(priority) + Prefetch * Len(QueueOrder) + blind + since']_vars

\* The depth recovers: from one that refuses low priority, or that misses what
\* stood in the queues when the process began or a poll broke off, the poller gets
\* to one that has seen every queue and, when the load has passed, refuses nobody,
\* in spite of restarts and failed polls, unless the connection is lost.
DepthRecovers ==
    depth > ThresholdLow \/ blind > 0 ~> (depth <= ThresholdLow /\ blind = 0) \/ ~mqUp
=============================================================================
