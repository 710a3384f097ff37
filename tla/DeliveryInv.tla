---------------------------- MODULE DeliveryInv -----------------------------
(* The inductive invariants behind the safety properties of Delivery, in the *)
(* order in which DeliveryProofs proves them: each one rests on the earlier. *)
EXTENDS Delivery

\* Steps at which the goroutine still owes the broker an Ack or a Nack.
Working    == {"read", "wait", "mark", "gate", "send", "settle", "ack"}
BeforeSend == {"read", "wait", "mark", "gate", "send"}

\* Messages and the goroutines that hold them.
CopyInv ==
    /\ \A m \in Copies : loc[m] # "none" => m[2] <= pub[m[1]]
    /\ \A w \in Workers : pc[w] # "idle" => held[w][2] <= pub[held[w][1]]
    /\ \A w \in Workers : pc[w] \in Working => loc[held[w]] = IF mqUp THEN "unacked" ELSE "ready"
    /\ \A m \in Copies : loc[m] = "unacked" =>
          mqUp /\ \E w \in Workers : pc[w] \in Working /\ held[w] = m
    /\ \A v, w \in Workers : pc[v] \in Working /\ pc[w] \in Working /\ held[v] = held[w] => v = w

\* Publishers: an unscheduled notification is in the hands of one request, once.
PublishInv ==
    /\ \A n \in Notifications : Unscheduled(n) => pub[n] <= 1 /\ n \notin schedList
    /\ \A n \in Notifications : status[n] = "absent" => Unscheduled(n) /\ pub[n] = 0
    /\ \A c \in Clients, n \in Notifications : n \in apiTodo[c] =>
          status[n] # "absent" /\ (Unscheduled(n) => pub[n] = 0)
    /\ \A c, d \in Clients, n \in Notifications : n \in apiTodo[c] /\ n \in apiTodo[d] => c = d

\* The row a goroutine read before the send still says the same at the update.
RetryInv ==
    /\ \A w \in Workers :
          pc[w] \in {"wait", "mark", "gate", "send", "settle"} /\ Unscheduled(held[w][1])
             => snap[w] = retryCount[held[w][1]]
    /\ RetryBound

\* What the outcome of the send says about the provider.
ResultInv ==
    /\ \A w \in Workers : pc[w] = "settle" => result[w] \in {"ok", "retry", "permanent"}
    /\ \A w \in Workers : pc[w] = "ack" => result[w] # "none"
    /\ \A w \in Workers : pc[w] \in {"settle", "ack"} /\ result[w] = "ok" => acc[held[w]] > 0
    /\ AckedMeansAccepted

\* Acceptance number 1 + faults of a message is its last: it is acknowledged, or
\* the goroutine that will do so is on its way.  A goroutine that will send
\* although its outcome can no longer be recorded has a failure to spare.
DuplicateInv ==
    /\ DuplicatesExplained
    /\ \A m \in Copies : acc[m] = 1 + faults =>
          \/ loc[m] = "acked"
          \/ mqUp /\ \E w \in Workers : held[w] = m /\ pc[w] \in {"settle", "ack"} /\ result[w] = "ok"
    /\ \A w \in Workers :
          (CtxDone /\ pc[w] \in {"gate", "send"}) \/ (~mqUp /\ pc[w] \in BeforeSend)
             => acc[held[w]] < faults

\* The goroutines that made their request and will not requeue, unless a retry
\* is counted first.
Concluding ==
    {w \in Workers : pc[w] = "settle" \/ (pc[w] = "ack" /\ (result[w] = "ok" \/ GivesUp(w)))}

\* The same for the requests of an unscheduled notification, whose only message
\* is <<n, 1>>, against the retries its row counts.
BudgetInv ==
    /\ \A n \in Notifications : Unscheduled(n) => attempts[n] <= retryCount[n] + 1 + faults
    /\ \A n \in Notifications : Unscheduled(n) /\ attempts[n] = retryCount[n] + 1 + faults =>
          \/ loc[<<n, 1>>] \in {"acked", "dead"}
          \/ mqUp /\ \E w \in Concluding : held[w] = <<n, 1>>
    /\ \A w \in Workers :
          (CtxDone /\ pc[w] \in {"gate", "send"}) \/ (~mqUp /\ pc[w] \in BeforeSend) =>
             (Unscheduled(held[w][1]) =>
                 attempts[held[w][1]] < retryCount[held[w][1]] + faults)
    /\ \A w \in Workers : CtxDone /\ pc[w] = "settle" =>
          (Unscheduled(held[w][1]) => attempts[held[w][1]] <= retryCount[held[w][1]] + faults)

\* Whoever will mark a notification queued has published it.
MarkInv ==
    /\ \A c \in Clients : apiMark[c] # None => pub[apiMark[c]] > 0
    /\ schedMark # None => pub[schedMark] > 0

\* While no statement fails, the outcome is in the row before the Ack or Nack.
RecordInv ==
    /\ phase = "up"
    /\ \A w \in Workers : pc[w] = "ack" =>
          /\ result[w] = "ok" => sentAt[held[w][1]]
          /\ GivesUp(w) => failedAt[held[w][1]]
    /\ SettledIsRecorded

\* While the connection stays, whoever announces an outcome has settled the
\* message, is the last to hold it, and has not announced it before.
FeedInv ==
    /\ mqUp
    /\ \A w \in Workers : pc[w] = "announce" => loc[held[w]] \in {"acked", "dead"}
    /\ \A v, w \in Workers : pc[v] = "announce" /\ pc[w] = "announce" /\ held[v] = held[w] => v = w
    /\ \A n \in Notifications : Unscheduled(n) /\ feed[n] \in {"sent", "failed"} =>
          /\ loc[<<n, 1>>] \in {"acked", "dead"}
          /\ \A w \in Workers : pc[w] # "idle" => held[w] # <<n, 1>>
=============================================================================
