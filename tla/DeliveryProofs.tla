--------------------------- MODULE DeliveryProofs ---------------------------
(* Proofs of the safety properties of Delivery, for any number of            *)
(* notifications, workers and requests, any MAX_RETRIES and any failures.    *)
EXTENDS DeliveryInv, TLAPS

USE NoneAssumption, RetriesAssumption, CopiesAssumption, FaultsAssumption

-----------------------------------------------------------------------------
(* Type correctness *)

\* Counting one more.
LEMMA Bump ==
  ASSUME NEW S, NEW f \in [S -> Nat], NEW x
  PROVE  [f EXCEPT ![x] = @ + 1] \in [S -> Nat]
<1>1. CASE x \in S
  <2>1. f[x] + 1 \in Nat
    BY <1>1
  <2> QED BY <2>1
<1>2. CASE x \notin S
  BY <1>2
<1> QED BY <1>1, <1>2

\* What a publish and a requeue do to the types.
LEMMA PublishedType ==
  ASSUME TypeOK, NEW n \in Notifications, Published(n)
  PROVE  /\ pub' \in [Notifications -> 0..MaxCopies]
         /\ loc' \in [Copies -> Places]
         /\ faults' \in 0..MaxFaults
<1>1. pub' \in [Notifications -> 0..MaxCopies]
  <2>1. pub[n] + 1 \in 0..MaxCopies
    BY DEF TypeOK, Published, Put
  <2> QED BY <2>1 DEF TypeOK, Published, Put
<1>2. loc' \in [Copies -> Places]
  BY DEF TypeOK, Published, Put, Places
<1>3. faults' \in 0..MaxFaults
  BY DEF TypeOK, Published, Fault
<1> QED BY <1>1, <1>2, <1>3

LEMMA RequeueType ==
  ASSUME TypeOK, NEW w \in Workers, Requeue(w)
  PROVE  /\ loc' \in [Copies -> Places]
         /\ pub' = pub
         /\ pc' \in [Workers -> Steps]
         /\ held' \in [Workers -> Copies \cup {NoCopy}]
         /\ \A v \in Workers : pc'[v] # "idle" => held'[v] \in Copies
         /\ snap' \in [Workers -> Nat]
         /\ result' \in [Workers -> Results]
  BY DEF TypeOK, Requeue, Resolve, Free, Places, Steps, Results

\* Each process's steps keep the types.
LEMMA TypeApi == ASSUME TypeOK, Api PROVE TypeOK'
<1>1. ASSUME NEW c \in Clients, NEW S \in SUBSET Notifications,
             NEW when \in [S -> {"none", "future", "due"}], CreateBatch(c, S, when)
      PROVE  TypeOK'
  BY <1>1 DEF TypeOK, CreateBatch, Insert, schedVars, mqVars, workerVars, histVars, Statuses
<1>8. ASSUME NEW c \in Clients, NEW n \in Notifications, NEW when \in {"none", "future", "due"},
             Create(c, n, when)
      PROVE  TypeOK'
  <2>1. {n} \in SUBSET Notifications /\ [m \in {n} |-> when] \in [{n} -> {"none", "future", "due"}]
    OBVIOUS
  <2> QED BY <1>8, <2>1, <1>1 DEF Create
<1>2. ASSUME NEW c \in Clients, NEW n \in Notifications, ApiSkip(c, n)
      PROVE  TypeOK'
  BY <1>2 DEF TypeOK, ApiSkip, rowVars, schedVars, mqVars, workerVars, histVars
<1>3. ASSUME NEW c \in Clients, NEW n \in Notifications, ApiPublish(c, n)
      PROVE  TypeOK'
  BY <1>3, PublishedType DEF TypeOK, ApiPublish, rowVars, schedVars, workerVars, histVars
<1>4. ASSUME NEW c \in Clients, NEW n \in Notifications, ApiPublishError(c, n)
      PROVE  TypeOK'
  BY <1>4 DEF TypeOK, ApiPublishError, PublishFailed, Fault, rowVars, schedVars, mqVars, workerVars, histVars
<1>5. ASSUME NEW c \in Clients, ApiMark(c) PROVE TypeOK'
  BY <1>5 DEF TypeOK, ApiMark, UpdateStatus, Statuses, schedVars, mqVars, workerVars, histVars
<1>6. ASSUME NEW c \in Clients, ApiMarkError(c) PROVE TypeOK'
  BY <1>6 DEF TypeOK, ApiMarkError, Fault, rowVars, schedVars, mqVars, workerVars, histVars
<1>7. ASSUME NEW n \in Notifications, Cancel(n) PROVE TypeOK'
  BY <1>7 DEF TypeOK, Cancel, Statuses, apiVars, schedVars, mqVars, workerVars, histVars
<1> QED BY <1>1, <1>2, <1>3, <1>4, <1>5, <1>6, <1>7, <1>8 DEF Api

LEMMA TypeScheduler == ASSUME TypeOK, Scheduler PROVE TypeOK'
<1>1. CASE SchedPoll
  BY <1>1 DEF TypeOK, SchedPoll, ScheduledReady, rowVars, apiVars, mqVars, workerVars, histVars
<1>2. CASE SchedMark
  BY <1>2 DEF TypeOK, SchedMark, UpdateStatus, Statuses, apiVars, mqVars, workerVars, histVars
<1>3. CASE SchedMarkError
  BY <1>3 DEF TypeOK, SchedMarkError, StatementFails, Fault, rowVars, apiVars, mqVars, workerVars, histVars
<1>4. ASSUME NEW n \in Notifications, SchedPublish(n) PROVE TypeOK'
  BY <1>4, PublishedType DEF TypeOK, SchedPublish, rowVars, apiVars, workerVars, histVars
<1>5. ASSUME NEW n \in Notifications, SchedPublishError(n) PROVE TypeOK'
  BY <1>5 DEF TypeOK, SchedPublishError, PublishFailed, Fault, rowVars, apiVars, mqVars, workerVars, histVars
<1> QED BY <1>1, <1>2, <1>3, <1>4, <1>5 DEF Scheduler

LEMMA TypeEnvironment == ASSUME TypeOK, Environment PROVE TypeOK'
<1>1. ASSUME NEW n \in Notifications, FallsDue(n) PROVE TypeOK'
  BY <1>1 DEF TypeOK, FallsDue, apiVars, schedVars, mqVars, workerVars, histVars
<1>2. ASSUME NEW w \in Workers, NEW m \in Copies, Deliver(w, m) PROVE TypeOK'
  BY <1>2 DEF TypeOK, Deliver, Goto, Places, Steps, rowVars, apiVars, schedVars, histVars
<1>3. ASSUME Fresh, UNCHANGED <<rowVars, pub, histVars>>, faults' \in 0..MaxFaults PROVE TypeOK'
  BY <1>3 DEF TypeOK, Fresh, TakenBack, Places, Steps, Results, rowVars, histVars
<1>4. CASE Crash
  BY <1>3, <1>4 DEF TypeOK, Crash, Fault
<1>5. CASE Exit
  BY <1>3, <1>5 DEF TypeOK, Exit
<1>6. CASE ConnectionLost
  <2>1. loc' \in [Copies -> Places]
    BY <1>6 DEF TypeOK, ConnectionLost, TakenBack, Places
  <2>2. faults' \in 0..MaxFaults
    BY <1>6 DEF TypeOK, ConnectionLost, Fault
  <2> QED BY <1>6, <2>1, <2>2 DEF TypeOK, ConnectionLost, rowVars, apiVars, schedVars, workerVars, histVars
<1>7. CASE Sigterm
  BY <1>7 DEF TypeOK, Sigterm, Fault, rowVars, apiVars, schedVars, mqVars, workerVars, histVars
<1>8. CASE CancelConsumer
  BY <1>8 DEF TypeOK, CancelConsumer, rowVars, apiVars, schedVars, mqVars, workerVars, histVars
<1> QED BY <1>1, <1>2, <1>4, <1>5, <1>6, <1>7, <1>8 DEF Environment

LEMMA TypeProcess == ASSUME TypeOK, NEW w \in Workers, Process(w) PROVE TypeOK'
<1>n. pc[w] # "idle" => Handled(w) \in Notifications
  BY DEF TypeOK, Handled, Copies
<1>1. CASE Read(w)
  BY <1>1, <1>n DEF TypeOK, Read, Goto, Steps, rowVars, apiVars, schedVars, mqVars, histVars
<1>2. CASE ReadError(w)
  BY <1>2, RequeueType DEF TypeOK, ReadError, StatementFails, Fault, rowVars, apiVars, schedVars, histVars
<1>3. CASE BackoffOver(w)
  BY <1>3 DEF TypeOK, BackoffOver, Goto, Steps, rowVars, apiVars, schedVars, mqVars, histVars
<1>4. CASE BackoffInterrupted(w)
  BY <1>4, RequeueType DEF TypeOK, BackoffInterrupted, rowVars, apiVars, schedVars, histVars
<1>5. CASE MarkProcessing(w)
  BY <1>5 DEF TypeOK, MarkProcessing, UpdateStatus, Statuses, Goto, Steps, apiVars, schedVars, mqVars, histVars
<1>6. CASE MarkProcessingError(w)
  BY <1>6, RequeueType DEF TypeOK, MarkProcessingError, UpdateStatus, Statuses, StatementFails, Fault,
                           apiVars, schedVars, histVars
<1>7. CASE GatePass(w)
  BY <1>7 DEF TypeOK, GatePass, Tell, Goto, Steps, rowVars, apiVars, schedVars, mqVars
<1>8. CASE GateDeny(w)
  BY <1>8, RequeueType DEF TypeOK, GateDeny, Tell, rowVars, apiVars, schedVars
<1>9. CASE Send(w)
  <2>1. acc' \in [Copies -> Nat] /\ attempts' \in [Notifications -> Nat]
    BY <1>9, Bump DEF TypeOK, Send
  <2>2. result' \in [Workers -> Results]
    BY <1>9 DEF TypeOK, Send, Results
  <2> QED BY <1>9, <2>1, <2>2 DEF TypeOK, Send, Goto, Steps, rowVars, apiVars, schedVars, mqVars
<1>10. CASE SendCancelled(w)
  BY <1>10 DEF TypeOK, SendCancelled, Goto, Steps, Results, rowVars, apiVars, schedVars, mqVars
<1>11. CASE SendReplyLost(w)
  <2>1. acc' \in [Copies -> Nat] /\ attempts' \in [Notifications -> Nat]
    BY <1>11, Bump DEF TypeOK, SendReplyLost
  <2> QED BY <1>11, <2>1 DEF TypeOK, SendReplyLost, Fault, Goto, Steps, Results, rowVars, apiVars, schedVars, mqVars
<1>12. CASE SendUnknown(w)
  BY <1>12 DEF TypeOK, SendUnknown, Fault, Goto, Steps, Results, rowVars, apiVars, schedVars, mqVars, histVars
<1>13. CASE UpdateSent(w)
  BY <1>13 DEF TypeOK, UpdateSent, RecordSent, Statuses, Goto, Steps, apiVars, schedVars, mqVars, histVars
<1>14. CASE IncrementRetry(w)
  <2>1. retryCount' \in [Notifications -> Nat]
    BY <1>14, Bump DEF TypeOK, IncrementRetry, CountRetry
  <2> QED BY <1>14, <2>1 DEF TypeOK, IncrementRetry, Goto, Steps, apiVars, schedVars, mqVars, histVars
<1>15. CASE UpdateFailed(w)
  BY <1>15 DEF TypeOK, UpdateFailed, RecordFailed, Statuses, Goto, Steps, apiVars, schedVars, mqVars, histVars
<1>16. CASE SettleError(w)
  BY <1>16 DEF TypeOK, SettleError, StatementFails, Fault, Goto, Steps, rowVars, apiVars, schedVars, mqVars, histVars
<1>17. CASE Finish(w)
  BY <1>17 DEF TypeOK, Finish, Resolve, Verdict, Places, Goto, Steps, rowVars, apiVars, schedVars, histVars
<1>18. CASE SendAgain(w)
  BY <1>18, RequeueType DEF TypeOK, SendAgain, rowVars, apiVars, schedVars, histVars
<1>19. CASE Announce(w)
  BY <1>19 DEF TypeOK, Announce, Tell, Free, Steps, Results, rowVars, apiVars, schedVars, mqVars
<1> QED BY <1>1, <1>2, <1>3, <1>4, <1>5, <1>6, <1>7, <1>8, <1>9, <1>10, <1>11, <1>12, <1>13, <1>14,
           <1>15, <1>16, <1>17, <1>18, <1>19 DEF Process

\* Every variable keeps its type, and a goroutine that is not idle holds a
\* message.
THEOREM TypeCorrect == Spec => []TypeOK
<1>1. Init => TypeOK
  BY DEF Init, TypeOK, Statuses, Places, Steps, Results
<1>2. TypeOK /\ [Next]_vars => TypeOK'
  <2>1. ASSUME TypeOK, UNCHANGED vars PROVE TypeOK'
    BY <2>1 DEF TypeOK, vars, rowVars, apiVars, schedVars, mqVars, workerVars, histVars
  <2> QED BY <2>1, TypeApi, TypeScheduler, TypeEnvironment, TypeProcess DEF Next
<1> QED BY <1>1, <1>2, PTL DEF Spec

-----------------------------------------------------------------------------
(* Messages and their holders *)

LEMMA CopyFrame ==
  ASSUME CopyInv, UNCHANGED <<pub, loc, mqUp, pc, held>>
  PROVE  CopyInv'
  BY DEF CopyInv, Working

LEMMA CopyGoto ==
  ASSUME TypeOK, CopyInv, NEW w \in Workers, NEW s \in Working, pc[w] \in Working,
         Goto(w, s), UNCHANGED <<pub, loc, mqUp, held>>
  PROVE  CopyInv'
  BY DEF TypeOK, CopyInv, Goto, Working

LEMMA CopyRequeue ==
  ASSUME TypeOK, CopyInv, NEW w \in Workers, pc[w] \in Working, Requeue(w), UNCHANGED mqUp
  PROVE  CopyInv'
  BY DEF TypeOK, CopyInv, Requeue, Resolve, Free, Working

LEMMA CopyPublish ==
  ASSUME TypeOK, CopyInv, NEW n \in Notifications, Published(n), UNCHANGED <<mqUp, pc, held>>
  PROVE  CopyInv'
<1> DEFINE new == <<n, pub[n] + 1>>
<1>1. new \in Copies
  BY DEF TypeOK, Published, Put, Copies
<1>2. loc[new] = "none"
  BY <1>1 DEF TypeOK, CopyInv
<1>3. PICK place \in {"ready", "lost"} : loc' = [loc EXCEPT ![new] = place]
  BY DEF Published, Put
<1>4. pub' = [pub EXCEPT ![n] = @ + 1]
  BY DEF Published, Put
<1>5. \A v \in Workers : pc[v] \in Working => held[v] # new
  BY <1>2 DEF CopyInv
<1> HIDE DEF new
<1>6. \A m \in Copies : m[1] \in Notifications /\ m[2] \in Nat /\ pub[m[1]] <= pub'[m[1]] /\ pub'[m[1]] \in Nat
  BY <1>4 DEF TypeOK, Copies
<1>7. \A m \in Copies : loc'[m] # "none" => m[2] <= pub'[m[1]]
  <2>1. new[1] = n /\ new[2] = pub[n] + 1
    BY DEF new
  <2> QED BY <1>1, <1>3, <1>4, <1>6, <2>1 DEF TypeOK, CopyInv
<1>8. \A v \in Workers : pc[v] # "idle" => held[v][2] <= pub'[held[v][1]]
  BY <1>6 DEF TypeOK, CopyInv
<1>9. \A v \in Workers : pc[v] \in Working => loc'[held[v]] = loc[held[v]]
  BY <1>3, <1>5 DEF TypeOK, Working
<1>10. \A m \in Copies : loc'[m] = "unacked" => loc[m] = "unacked"
  BY <1>1, <1>3 DEF TypeOK
<1> QED BY <1>7, <1>8, <1>9, <1>10 DEF CopyInv, Working

LEMMA CopyDeliver ==
  ASSUME TypeOK, CopyInv, NEW w \in Workers, NEW m \in Copies, Deliver(w, m)
  PROVE  CopyInv'
  BY DEF TypeOK, CopyInv, Deliver, Goto, Working

LEMMA CopyFinish ==
  ASSUME TypeOK, CopyInv, NEW w \in Workers, Finish(w)
  PROVE  CopyInv'
  BY DEF TypeOK, CopyInv, Finish, Resolve, Verdict, Goto, Working

LEMMA CopyAnnounce ==
  ASSUME TypeOK, CopyInv, NEW w \in Workers, Announce(w)
  PROVE  CopyInv'
  BY DEF TypeOK, CopyInv, Announce, Free, Working, mqVars

LEMMA CopyFresh ==
  ASSUME TypeOK, CopyInv, Fresh, UNCHANGED pub
  PROVE  CopyInv'
  BY DEF TypeOK, CopyInv, Fresh, TakenBack, Working

LEMMA CopyConnectionLost ==
  ASSUME TypeOK, CopyInv, ConnectionLost
  PROVE  CopyInv'
  BY DEF TypeOK, CopyInv, ConnectionLost, TakenBack, Working, workerVars

\* A step of a goroutine keeps the invariant on messages.
LEMMA CopyProcess ==
  ASSUME TypeOK, CopyInv, NEW w \in Workers, Process(w)
  PROVE  CopyInv'
<1>1. ASSUME NEW s \in Working, pc[w] \in Working, Goto(w, s), UNCHANGED <<pub, loc, mqUp, held>>
      PROVE  CopyInv'
  BY <1>1, CopyGoto
<1>2. CASE Read(w) \/ BackoffOver(w) \/ MarkProcessing(w) \/ GatePass(w)
  BY <1>1, <1>2 DEF Read, BackoffOver, MarkProcessing, GatePass, Working, mqVars
<1>3. CASE Send(w) \/ SendCancelled(w) \/ SendReplyLost(w) \/ SendUnknown(w)
  BY <1>1, <1>3 DEF Send, SendCancelled, SendReplyLost, SendUnknown, Working, mqVars
<1>4. CASE UpdateSent(w) \/ IncrementRetry(w) \/ UpdateFailed(w) \/ SettleError(w)
  BY <1>1, <1>4 DEF UpdateSent, IncrementRetry, UpdateFailed, RecordFailed, SettleError, Working, mqVars
<1>5. CASE ReadError(w) \/ BackoffInterrupted(w) \/ MarkProcessingError(w) \/ GateDeny(w) \/ SendAgain(w)
  BY <1>5, CopyRequeue DEF ReadError, BackoffInterrupted, MarkProcessingError, GateDeny, SendAgain, Working
<1> QED BY <1>2, <1>3, <1>4, <1>5, CopyFinish, CopyAnnounce DEF Process

LEMMA CopyStep == ASSUME TypeOK, CopyInv, [Next]_vars PROVE CopyInv'
<1>1. CASE Api
  <2>1. ASSUME NEW c \in Clients, NEW n \in Notifications, ApiPublish(c, n) PROVE CopyInv'
    BY <2>1, CopyPublish DEF ApiPublish, workerVars
  <2> QED BY <1>1, <2>1, CopyFrame
          DEF Api, Create, CreateBatch, Insert, ApiSkip, ApiPublishError, ApiMark, ApiMarkError, Cancel, mqVars, workerVars
<1>2. CASE Scheduler
  <2>1. ASSUME NEW n \in Notifications, SchedPublish(n) PROVE CopyInv'
    BY <2>1, CopyPublish DEF SchedPublish, workerVars
  <2> QED BY <1>2, <2>1, CopyFrame
          DEF Scheduler, SchedPoll, SchedPublishError, SchedMark, SchedMarkError, mqVars, workerVars
<1>3. CASE Environment
  <2>1. CASE \E n \in Notifications : FallsDue(n)
    BY <2>1, CopyFrame DEF FallsDue, mqVars, workerVars
  <2>2. CASE Sigterm \/ CancelConsumer
    BY <2>2, CopyFrame DEF Sigterm, CancelConsumer, mqVars, workerVars
  <2>3. CASE Crash \/ Exit
    BY <2>3, CopyFresh DEF Crash, Exit
  <2> QED BY <1>3, <2>1, <2>2, <2>3, CopyDeliver, CopyConnectionLost DEF Environment
<1>4. CASE UNCHANGED vars
  BY <1>4, CopyFrame DEF vars, mqVars, workerVars
<1> QED BY <1>1, <1>2, <1>3, <1>4, CopyProcess DEF Next

THEOREM CopiesHeld == Spec => []CopyInv
<1>1. Init => CopyInv
  BY DEF Init, CopyInv, Working
<1>2. TypeOK /\ CopyInv /\ [Next]_vars => CopyInv'
  BY CopyStep
<1> QED BY <1>1, <1>2, TypeCorrect, PTL DEF Spec

\* Every delivery the broker waits for is in the hands of a goroutine.
THEOREM NothingOrphaned == Spec => []NoOrphan
<1>1. CopyInv => NoOrphan
  BY DEF CopyInv, NoOrphan
<1> QED BY <1>1, CopiesHeld, PTL

-----------------------------------------------------------------------------
(* Publishers *)

\* A step that publishes nothing and takes nothing up for publishing.
LEMMA PublishFrame ==
  ASSUME TypeOK, PublishInv, UNCHANGED <<sched, pub>>,
         schedList' \subseteq schedList, \A c \in Clients : apiTodo'[c] \subseteq apiTodo[c],
         \A n \in Notifications : status'[n] = "absent" => status[n] = "absent"
  PROVE  PublishInv'
  BY DEF TypeOK, PublishInv, Unscheduled

LEMMA PublishProcess ==
  ASSUME TypeOK, PublishInv, NEW w \in Workers, Process(w)
  PROVE  PublishInv'
<1>1. UNCHANGED <<sched, pub, schedList, apiTodo>>
  BY DEF Process, Read, ReadError, BackoffOver, BackoffInterrupted, MarkProcessing, MarkProcessingError,
         GatePass, GateDeny, Send, SendCancelled, SendReplyLost, SendUnknown, UpdateSent, IncrementRetry,
         UpdateFailed, RecordFailed, SettleError, Finish, SendAgain, Announce, Requeue, rowVars, apiVars, schedVars, mqVars
<1>2. \/ UNCHANGED status
      \/ \E s \in {"processing", "sent", "failed"} : status' = [status EXCEPT ![Handled(w)] = s]
  BY DEF Process, Read, ReadError, BackoffOver, BackoffInterrupted, MarkProcessing, MarkProcessingError,
         GatePass, GateDeny, Send, SendCancelled, SendReplyLost, SendUnknown, UpdateSent, IncrementRetry,
         UpdateFailed, RecordFailed, SettleError, Finish, SendAgain, Announce, UpdateStatus, RecordSent, rowVars
<1>3. \A n \in Notifications : status'[n] = "absent" => status[n] = "absent"
  BY <1>2 DEF TypeOK
<1> QED BY <1>1, <1>3, PublishFrame

LEMMA PublishApi ==
  ASSUME TypeOK, PublishInv, Api
  PROVE  PublishInv'
<1>1. ASSUME NEW c \in Clients, NEW S \in SUBSET Notifications,
             NEW when \in [S -> {"none", "future", "due"}], CreateBatch(c, S, when)
      PROVE  PublishInv'
  <2>1. \A n \in S : pub[n] = 0 /\ n \notin schedList /\ \A d \in Clients : n \notin apiTodo[d]
    BY <1>1 DEF TypeOK, PublishInv, CreateBatch, Insert, Unscheduled
  <2>2. UNCHANGED <<pub, schedList>>
    BY <1>1 DEF CreateBatch, Insert, mqVars, schedVars
  <2>3. \A n \in Notifications : n \in S \/ (sched'[n] = sched[n] /\ status'[n] = status[n])
    BY <1>1 DEF CreateBatch, Insert
  <2>4. \A n \in S : status'[n] # "absent"
    BY <1>1 DEF CreateBatch, Insert
  <2>5. \A d \in Clients : apiTodo'[d] = IF d = c THEN S ELSE apiTodo[d]
    BY <1>1 DEF TypeOK, CreateBatch, Insert
  <2>6. S \subseteq Notifications /\ TypeOK /\ PublishInv
    OBVIOUS
  <2>7. \A n \in Notifications : sched'[n] = "none" => pub'[n] <= 1 /\ n \notin schedList'
    BY <2>1, <2>2, <2>3, <2>6 DEF PublishInv, Unscheduled
  <2>8. \A n \in Notifications : status'[n] = "absent" => sched'[n] = "none" /\ pub'[n] = 0
    BY <2>2, <2>3, <2>4, <2>6 DEF PublishInv, Unscheduled
  <2>9. \A d \in Clients, n \in Notifications : n \in apiTodo'[d] =>
           status'[n] # "absent" /\ (sched'[n] = "none" => pub'[n] = 0)
    BY <2>1, <2>2, <2>3, <2>4, <2>5, <2>6 DEF PublishInv, Unscheduled
  <2>10. \A d, e \in Clients, n \in Notifications : n \in apiTodo'[d] /\ n \in apiTodo'[e] => d = e
    BY <2>1, <2>5, <2>6 DEF PublishInv
  <2> QED BY <2>7, <2>8, <2>9, <2>10 DEF PublishInv, Unscheduled
<1>8. ASSUME NEW c \in Clients, NEW n \in Notifications, NEW when \in {"none", "future", "due"},
             Create(c, n, when)
      PROVE  PublishInv'
  <2>1. {n} \in SUBSET Notifications /\ [m \in {n} |-> when] \in [{n} -> {"none", "future", "due"}]
    OBVIOUS
  <2> QED BY <1>8, <2>1, <1>1 DEF Create
<1>2. ASSUME NEW c \in Clients, NEW n \in Notifications, ApiPublish(c, n)
      PROVE  PublishInv'
  <2>1. n \in apiTodo[c] /\ pub' = [pub EXCEPT ![n] = @ + 1]
    BY <1>2 DEF ApiPublish, Published, Put
  <2>2. UNCHANGED <<status, sched, schedList>>
    BY <1>2 DEF ApiPublish, rowVars, schedVars
  <2>3. apiTodo' = [apiTodo EXCEPT ![c] = @ \ {n}]
    BY <1>2 DEF ApiPublish
  <2> QED BY <2>1, <2>2, <2>3 DEF TypeOK, PublishInv, Unscheduled
<1>3. ASSUME NEW c \in Clients, NEW n \in Notifications, ApiSkip(c, n) \/ ApiPublishError(c, n)
      PROVE  PublishInv'
  BY <1>3, PublishFrame DEF TypeOK, ApiSkip, ApiPublishError, rowVars, schedVars, mqVars
<1>4. ASSUME NEW c \in Clients, ApiMark(c) \/ ApiMarkError(c) PROVE PublishInv'
  BY <1>4, PublishFrame DEF TypeOK, ApiMark, ApiMarkError, UpdateStatus, rowVars, schedVars, mqVars
<1>5. ASSUME NEW n \in Notifications, Cancel(n) PROVE PublishInv'
  BY <1>5, PublishFrame DEF TypeOK, Cancel, apiVars, schedVars, mqVars
<1> QED BY <1>1, <1>2, <1>3, <1>4, <1>5, <1>8 DEF Api

LEMMA PublishScheduler ==
  ASSUME TypeOK, PublishInv, Scheduler
  PROVE  PublishInv'
<1>1. CASE SchedPoll
  <2>1. UNCHANGED <<status, sched, pub, apiTodo>>
    BY <1>1 DEF SchedPoll, rowVars, mqVars, apiVars
  <2>2. \A n \in schedList' : sched[n] = "due"
    BY <1>1 DEF SchedPoll, ScheduledReady
  <2> QED BY <2>1, <2>2 DEF TypeOK, PublishInv, Unscheduled
<1>2. ASSUME NEW n \in Notifications, SchedPublish(n) PROVE PublishInv'
  <2>1. n \in schedList /\ pub' = [pub EXCEPT ![n] = @ + 1] /\ schedList' = schedList \ {n}
    BY <1>2 DEF SchedPublish, Published, Put
  <2>2. UNCHANGED <<status, sched, apiTodo>>
    BY <1>2 DEF SchedPublish, rowVars, apiVars
  <2>3. ~Unscheduled(n)
    BY <2>1 DEF PublishInv
  <2> QED BY <2>1, <2>2, <2>3 DEF TypeOK, PublishInv, Unscheduled
<1>3. ASSUME NEW n \in Notifications, SchedPublishError(n) PROVE PublishInv'
  BY <1>3, PublishFrame DEF TypeOK, SchedPublishError, rowVars, apiVars, mqVars
<1>4. CASE SchedMark \/ SchedMarkError
  BY <1>4, PublishFrame DEF TypeOK, SchedMark, SchedMarkError, UpdateStatus, rowVars, apiVars, mqVars
<1> QED BY <1>1, <1>2, <1>3, <1>4 DEF Scheduler

LEMMA PublishStep == ASSUME TypeOK, PublishInv, [Next]_vars PROVE PublishInv'
<1>1. CASE Environment
  <2>1. ASSUME NEW n \in Notifications, FallsDue(n) PROVE PublishInv'
    BY <2>1 DEF TypeOK, PublishInv, Unscheduled, FallsDue, apiVars, schedVars, mqVars
  <2>2. ASSUME Fresh, UNCHANGED <<rowVars, pub>> PROVE PublishInv'
    BY <2>2, PublishFrame DEF Fresh, rowVars
  <2>3. ASSUME NEW w \in Workers, NEW m \in Copies, Deliver(w, m) PROVE PublishInv'
    BY <2>3, PublishFrame DEF Deliver, rowVars, apiVars, schedVars
  <2>4. CASE Crash \/ Exit
    BY <2>2, <2>4 DEF Crash, Exit
  <2>5. CASE ConnectionLost \/ Sigterm \/ CancelConsumer
    BY <2>5, PublishFrame DEF ConnectionLost, Sigterm, CancelConsumer, rowVars, apiVars, schedVars, mqVars
  <2> QED BY <1>1, <2>1, <2>3, <2>4, <2>5 DEF Environment
<1>2. CASE UNCHANGED vars
  BY <1>2, PublishFrame DEF vars, rowVars, apiVars, schedVars, mqVars
<1> QED BY <1>1, <1>2, PublishApi, PublishScheduler, PublishProcess DEF Next

THEOREM PublishedByOne == Spec => []PublishInv
<1>1. Init => PublishInv
  BY DEF Init, PublishInv, Unscheduled
<1>2. TypeOK /\ PublishInv /\ [Next]_vars => PublishInv'
  BY PublishStep
<1> QED BY <1>1, <1>2, TypeCorrect, PTL DEF Spec

\* A goroutine at work on an unscheduled notification holds its only message.
LEMMA OnlyCopy ==
  ASSUME TypeOK, CopyInv, PublishInv, NEW w \in Workers, pc[w] # "idle", Unscheduled(held[w][1])
  PROVE  held[w] = <<held[w][1], 1>>
<1>1. held[w] \in Copies
  BY DEF TypeOK
<1>2. held[w][1] \in Notifications /\ held[w][2] \in 1..MaxCopies /\ held[w] = <<held[w][1], held[w][2]>>
  BY <1>1 DEF Copies
<1>3. held[w][2] <= 1
  BY <1>2 DEF CopyInv, PublishInv, TypeOK
<1> QED BY <1>2, <1>3

\* No two goroutines work on one unscheduled notification at a time.
THEOREM OneHandler == Spec => []SingleHandler
<1>1. TypeOK /\ CopyInv /\ PublishInv => SingleHandler
  <2> SUFFICES ASSUME TypeOK, CopyInv, PublishInv, NEW n \in Notifications, Unscheduled(n),
                      NEW v \in Workers, NEW w \in Workers, Handles(v, n), Handles(w, n)
               PROVE  v = w
    BY DEF SingleHandler
  <2>1. held[v] = <<n, 1>> /\ held[w] = <<n, 1>>
    BY OnlyCopy DEF Handles, Handled
  <2>2. pc[v] \in Working /\ pc[w] \in Working
    BY DEF TypeOK, Handles, Steps, Working
  <2> QED BY <2>1, <2>2 DEF CopyInv
<1> QED BY <1>1, TypeCorrect, CopiesHeld, PublishedByOne, PTL

-----------------------------------------------------------------------------
(* The retry counter *)

\* Steps between the read of the row and the update that depends on it.
HoldsRow == {"wait", "mark", "gate", "send", "settle"}

\* A step that neither counts a retry nor reads a row.
LEMMA RetryFrame ==
  ASSUME TypeOK, RetryInv, UNCHANGED retryCount,
         \A n \in Notifications : sched'[n] = "none" => sched[n] = "none",
         \A w \in Workers : pc'[w] \in HoldsRow =>
             pc[w] \in HoldsRow /\ held'[w] = held[w] /\ snap'[w] = snap[w]
  PROVE  RetryInv'
<1>1. \A w \in Workers : pc[w] \in HoldsRow => held[w][1] \in Notifications
  BY DEF TypeOK, Copies, HoldsRow
<1> QED BY <1>1 DEF RetryInv, RetryBound, Unscheduled, HoldsRow

LEMMA RetryProcess ==
  ASSUME TypeOK, RetryInv, SingleHandler, NEW w \in Workers, Process(w)
  PROVE  RetryInv'
<1> USE DEF HoldsRow
<1>n. pc[w] # "idle" => held[w] \in Copies /\ held[w][1] \in Notifications
  BY DEF TypeOK, Copies
<1>1. CASE Read(w)
  <2>1. UNCHANGED <<retryCount, sched, held>>
    BY <1>1 DEF Read, rowVars
  <2>2. snap'[w] = retryCount[held[w][1]] /\ \A v \in Workers \ {w} : snap'[v] = snap[v] /\ pc'[v] = pc[v]
    BY <1>1 DEF TypeOK, Read, Goto, Handled
  <2> QED BY <2>1, <2>2 DEF RetryInv, RetryBound, Unscheduled
<1>2. CASE BackoffOver(w) \/ MarkProcessing(w) \/ GatePass(w)
  <2>1. UNCHANGED <<retryCount, sched, held, snap>>
    BY <1>2 DEF BackoffOver, MarkProcessing, GatePass, rowVars
  <2>2. \A v \in Workers : pc'[v] \in HoldsRow => pc[v] \in HoldsRow
    BY <1>2 DEF TypeOK, BackoffOver, MarkProcessing, GatePass, Goto
  <2> QED BY <2>1, <2>2, RetryFrame
<1>3. CASE Send(w) \/ SendCancelled(w) \/ SendReplyLost(w) \/ SendUnknown(w)
  <2>1. UNCHANGED <<retryCount, sched, held, snap>>
    BY <1>3 DEF Send, SendCancelled, SendReplyLost, SendUnknown, rowVars
  <2>2. \A v \in Workers : pc'[v] \in HoldsRow => pc[v] \in HoldsRow
    BY <1>3 DEF TypeOK, Send, SendCancelled, SendReplyLost, SendUnknown, Goto
  <2> QED BY <2>1, <2>2, RetryFrame
<1>4. CASE UpdateSent(w) \/ UpdateFailed(w) \/ SettleError(w) \/ Finish(w)
  <2>1. UNCHANGED <<retryCount, sched, held, snap>>
    BY <1>4 DEF UpdateSent, UpdateFailed, RecordFailed, SettleError, Finish, rowVars
  <2>2. \A v \in Workers : pc'[v] \in HoldsRow => pc[v] \in HoldsRow
    BY <1>4 DEF TypeOK, UpdateSent, UpdateFailed, RecordFailed, SettleError, Finish, Goto
  <2> QED BY <2>1, <2>2, RetryFrame
<1>5. CASE IncrementRetry(w)
  <2> DEFINE k == held[w][1]
  <2>1. pc[w] = "settle" /\ k \in Notifications /\ snap[w] < MaxRetries
    BY <1>5, <1>n DEF IncrementRetry, Retries, MayRetry
  <2>2. retryCount' = [retryCount EXCEPT ![k] = @ + 1] /\ UNCHANGED <<sched, held, snap>>
    BY <1>5 DEF IncrementRetry, CountRetry, Handled
  <2>3. \A v \in Workers : pc'[v] \in HoldsRow => v # w /\ pc[v] \in HoldsRow
    BY <1>5 DEF TypeOK, IncrementRetry, Goto
  <2>4. Unscheduled(k) => \A v \in Workers : pc[v] \in HoldsRow /\ v # w => held[v][1] # k
    BY <2>1 DEF SingleHandler, Handles, Handled
  <2>5. Unscheduled(k) => retryCount[k] < MaxRetries
    BY <2>1 DEF RetryInv
  <2>6. \A v \in Workers : pc[v] \in HoldsRow => held[v][1] \in Notifications
    BY DEF TypeOK, Copies
  <2> HIDE DEF k
  <2> QED BY <2>1, <2>2, <2>3, <2>4, <2>5, <2>6 DEF TypeOK, RetryInv, RetryBound, Unscheduled
<1>6. CASE ReadError(w) \/ BackoffInterrupted(w) \/ MarkProcessingError(w) \/ GateDeny(w) \/ SendAgain(w) \/ Announce(w)
  <2>1. UNCHANGED <<retryCount, sched>> /\ Free(w)
    BY <1>6 DEF ReadError, BackoffInterrupted, MarkProcessingError, GateDeny, SendAgain, Announce, Requeue, rowVars
  <2>2. \A v \in Workers : pc'[v] \in HoldsRow => pc[v] \in HoldsRow /\ held'[v] = held[v] /\ snap'[v] = snap[v]
    BY <2>1 DEF TypeOK, Free
  <2> QED BY <2>1, <2>2, RetryFrame
<1> QED BY <1>1, <1>2, <1>3, <1>4, <1>5, <1>6 DEF Process

LEMMA RetryStep == ASSUME TypeOK, PublishInv, SingleHandler, RetryInv, [Next]_vars PROVE RetryInv'
<1>1. CASE Api
  <2>1. UNCHANGED <<retryCount, pc, held, snap>>
    BY <1>1 DEF Api, Create, CreateBatch, Insert, ApiSkip, ApiPublish, ApiPublishError, ApiMark, ApiMarkError, Cancel,
                rowVars, workerVars
  <2>2. \A n \in Notifications : sched'[n] = "none" => sched[n] = "none"
    BY <1>1 DEF Api, Create, CreateBatch, Insert, ApiSkip, ApiPublish, ApiPublishError, ApiMark, ApiMarkError, Cancel,
                rowVars, PublishInv, Unscheduled
  <2> QED BY <2>1, <2>2, RetryFrame
<1>2. CASE Scheduler \/ UNCHANGED vars
  BY <1>2, RetryFrame DEF Scheduler, SchedPoll, SchedPublish, SchedPublishError, SchedMark, SchedMarkError,
                          vars, rowVars, workerVars
<1>3. CASE Environment
  <2>1. UNCHANGED retryCount /\ \A n \in Notifications : sched'[n] = "none" => sched[n] = "none"
    BY <1>3 DEF TypeOK, Environment, FallsDue, Deliver, Crash, Exit, ConnectionLost, Sigterm, CancelConsumer, rowVars
  <2>2. \A w \in Workers : pc'[w] \in HoldsRow => pc[w] \in HoldsRow /\ held'[w] = held[w] /\ snap'[w] = snap[w]
    BY <1>3 DEF TypeOK, HoldsRow, Environment, FallsDue, Deliver, Goto, Crash, Exit, Fresh, ConnectionLost, Sigterm,
                CancelConsumer, workerVars
  <2> QED BY <2>1, <2>2, RetryFrame
<1> QED BY <1>1, <1>2, <1>3, RetryProcess DEF Next

\* The row a goroutine decides on is still the row in the table when it updates
\* it, for an unscheduled notification.
THEOREM RowStillRead == Spec => []RetryInv
<1>1. Init => RetryInv
  BY DEF Init, RetryInv, RetryBound
<1>2. TypeOK /\ PublishInv /\ SingleHandler /\ RetryInv /\ [Next]_vars => RetryInv'
  BY RetryStep
<1> QED BY <1>1, <1>2, TypeCorrect, PublishedByOne, OneHandler, PTL DEF Spec

\* retry_count of an unscheduled notification never exceeds MAX_RETRIES.
THEOREM RetriesBounded == Spec => []RetryBound
<1>1. RetryInv => RetryBound
  BY DEF RetryInv
<1> QED BY <1>1, RowStillRead, PTL

-----------------------------------------------------------------------------
(* Acceptance by the provider *)

\* A step that sends nothing and acknowledges nothing.
LEMMA ResultFrame ==
  ASSUME TypeOK, ResultInv, UNCHANGED acc,
         \A m \in Copies : loc'[m] = "acked" => loc[m] = "acked",
         \A w \in Workers : pc'[w] \in {"settle", "ack"} =>
             pc'[w] = pc[w] /\ held'[w] = held[w] /\ result'[w] = result[w]
  PROVE  ResultInv'
  BY DEF ResultInv, AckedMeansAccepted

LEMMA ResultProcess ==
  ASSUME TypeOK, ResultInv, NEW w \in Workers, Process(w)
  PROVE  ResultInv'
<1>n. pc[w] # "idle" => held[w] \in Copies
  BY DEF TypeOK
<1>1. CASE Read(w) \/ BackoffOver(w) \/ MarkProcessing(w) \/ GatePass(w)
  <2>1. UNCHANGED <<acc, loc, held, result>>
    BY <1>1 DEF Read, BackoffOver, MarkProcessing, GatePass, mqVars, histVars
  <2>2. \A v \in Workers : pc'[v] \in {"settle", "ack"} => pc'[v] = pc[v]
    BY <1>1 DEF TypeOK, Read, BackoffOver, MarkProcessing, GatePass, Goto
  <2> QED BY <2>1, <2>2, ResultFrame
<1>2. CASE Send(w)
  <2>1. PICK r \in {"ok", "retry", "permanent"} :
           /\ result' = [result EXCEPT ![w] = r]
           /\ acc' = IF r = "ok" THEN [acc EXCEPT ![held[w]] = @ + 1] ELSE acc
    BY <1>2 DEF Send
  <2>2. pc' = [pc EXCEPT ![w] = "settle"] /\ UNCHANGED <<loc, held>>
    BY <1>2 DEF Send, Goto, mqVars
  <2>3. held[w] \in Copies
    BY <1>2, <1>n DEF Send
  <2>4. \A m \in Copies : acc'[m] >= acc[m] /\ acc'[m] \in Nat /\ (m = held[w] /\ r = "ok" => acc'[m] > 0)
    BY <2>1, <2>3 DEF TypeOK
  <2> QED BY <2>1, <2>2, <2>3, <2>4 DEF TypeOK, ResultInv, AckedMeansAccepted
<1>3. CASE SendCancelled(w) \/ SendReplyLost(w)
  <2>1. result' = [result EXCEPT ![w] = "retry"] /\ pc' = [pc EXCEPT ![w] = "settle"] /\ UNCHANGED <<loc, held>>
    BY <1>3 DEF SendCancelled, SendReplyLost, Goto, mqVars
  <2>2. acc' = acc \/ acc' = [acc EXCEPT ![held[w]] = @ + 1]
    BY <1>3 DEF SendCancelled, SendReplyLost
  <2>3. \A m \in Copies : acc'[m] >= acc[m] /\ acc'[m] \in Nat
    BY <2>2 DEF TypeOK
  <2> QED BY <2>1, <2>3 DEF TypeOK, ResultInv, AckedMeansAccepted
<1>4. CASE SendUnknown(w)
  BY <1>4 DEF TypeOK, ResultInv, AckedMeansAccepted, SendUnknown, Goto, mqVars, histVars
<1>5. CASE UpdateSent(w) \/ IncrementRetry(w) \/ UpdateFailed(w) \/ SettleError(w)
  <2>1. UNCHANGED <<acc, loc, held, result>> /\ pc[w] = "settle" /\ pc' = [pc EXCEPT ![w] = "ack"]
    BY <1>5 DEF UpdateSent, IncrementRetry, UpdateFailed, RecordFailed, SettleError, Goto, mqVars, histVars
  <2> QED BY <2>1 DEF TypeOK, ResultInv, AckedMeansAccepted
<1>6. CASE Finish(w)
  BY <1>6, <1>n DEF TypeOK, ResultInv, AckedMeansAccepted, Finish, Resolve, Verdict, Goto, histVars
<1>7. CASE ReadError(w) \/ BackoffInterrupted(w) \/ MarkProcessingError(w) \/ GateDeny(w) \/ SendAgain(w)
  <2>1. UNCHANGED acc /\ Requeue(w)
    BY <1>7 DEF ReadError, BackoffInterrupted, MarkProcessingError, GateDeny, SendAgain, histVars
  <2> QED BY <2>1, ResultFrame DEF TypeOK, Requeue, Resolve, Free
<1>8. CASE Announce(w)
  BY <1>8, ResultFrame DEF TypeOK, Announce, Free, mqVars
<1> QED BY <1>1, <1>2, <1>3, <1>4, <1>5, <1>6, <1>7, <1>8 DEF Process

LEMMA ResultStep == ASSUME TypeOK, CopyInv, ResultInv, [Next]_vars PROVE ResultInv'
<1>1. ASSUME NEW n \in Notifications, Published(n), UNCHANGED <<acc, pc, held, result>>
      PROVE  ResultInv'
  BY <1>1, ResultFrame DEF TypeOK, Published, Put
<1>2. ASSUME UNCHANGED <<acc, loc, pc, held, result>> PROVE ResultInv'
  BY <1>2, ResultFrame
<1>3. CASE Api
  BY <1>1, <1>2, <1>3 DEF Api, Create, CreateBatch, Insert, ApiSkip, ApiPublish, ApiPublishError, ApiMark, ApiMarkError, Cancel,
                          mqVars, workerVars, histVars
<1>4. CASE Scheduler
  BY <1>1, <1>2, <1>4 DEF Scheduler, SchedPoll, SchedPublish, SchedPublishError, SchedMark, SchedMarkError,
                          mqVars, workerVars, histVars
<1>5. CASE Environment
  <2>1. ASSUME NEW w \in Workers, NEW m \in Copies, Deliver(w, m) PROVE ResultInv'
    BY <2>1, ResultFrame DEF TypeOK, Deliver, Goto, histVars
  <2>2. CASE Crash \/ Exit
    BY <2>2, ResultFrame DEF Crash, Exit, Fresh, TakenBack, histVars
  <2>3. CASE ConnectionLost
    BY <2>3, ResultFrame DEF ConnectionLost, TakenBack, workerVars, histVars
  <2>4. CASE Sigterm \/ CancelConsumer \/ \E n \in Notifications : FallsDue(n)
    BY <2>4, <1>2 DEF Sigterm, CancelConsumer, FallsDue, mqVars, workerVars, histVars
  <2> QED BY <1>5, <2>1, <2>2, <2>3, <2>4 DEF Environment
<1>6. CASE UNCHANGED vars
  BY <1>2, <1>6 DEF vars, mqVars, workerVars, histVars
<1> QED BY <1>3, <1>4, <1>5, <1>6, ResultProcess DEF Next

\* A goroutine that saw "ok" holds a message the provider accepted, and so does
\* every acknowledged one.
THEOREM OutcomeKnown == Spec => []ResultInv
<1>1. Init => ResultInv
  BY DEF Init, ResultInv, AckedMeansAccepted
<1>2. TypeOK /\ CopyInv /\ ResultInv /\ [Next]_vars => ResultInv'
  BY ResultStep
<1> QED BY <1>1, <1>2, TypeCorrect, CopiesHeld, PTL DEF Spec

\* A message is acknowledged only after the provider accepted it.
THEOREM AcceptedBeforeAck == Spec => []AckedMeansAccepted
<1>1. ResultInv => AckedMeansAccepted
  BY DEF ResultInv
<1> QED BY <1>1, OutcomeKnown, PTL

-----------------------------------------------------------------------------
(* Duplicates *)

\* A message whose request is still to be made has a failure to spare.
LEMMA NotSpent ==
  ASSUME TypeOK, CopyInv, DuplicateInv, NEW w \in Workers, pc[w] \in BeforeSend
  PROVE  acc[held[w]] <= faults
<1>1. held[w] \in Copies /\ pc[w] \in Working /\ pc[w] # "idle"
  BY DEF TypeOK, BeforeSend, Working
<1>2. loc[held[w]] # "acked"
  BY <1>1 DEF CopyInv
<1>3. \A v \in Workers : held[v] = held[w] /\ pc[v] \in {"settle", "ack"} => FALSE
  BY <1>1 DEF CopyInv, Working, BeforeSend
<1>4. acc[held[w]] # 1 + faults
  BY <1>1, <1>2, <1>3 DEF DuplicateInv
<1> QED BY <1>1, <1>4 DEF TypeOK, DuplicateInv, DuplicatesExplained

\* A failure pays for whatever the message cost so far.
LEMMA DuplicateFault ==
  ASSUME TypeOK, CopyInv, DuplicateInv, faults' = faults + 1, UNCHANGED acc,
         \A w \in Workers : pc'[w] \in BeforeSend => pc[w] \in BeforeSend /\ held'[w] = held[w]
  PROVE  DuplicateInv'
<1>1. \A m \in Copies : acc'[m] <= faults' /\ acc'[m] \in Nat
  BY DEF TypeOK, DuplicateInv, DuplicatesExplained
<1>2. faults' \in Nat
  BY DEF TypeOK
<1>3. \A w \in Workers : pc'[w] \in BeforeSend => acc'[held'[w]] < faults'
  <2>1. SUFFICES ASSUME NEW w \in Workers, pc'[w] \in BeforeSend PROVE acc'[held'[w]] < faults'
    OBVIOUS
  <2>2. held[w] \in Copies
    BY <2>1 DEF TypeOK, BeforeSend
  <2>3. acc[held[w]] <= faults
    BY <2>1, NotSpent
  <2> QED BY <2>1, <2>2, <2>3 DEF TypeOK
<1> QED BY <1>1, <1>2, <1>3 DEF DuplicateInv, DuplicatesExplained, BeforeSend

\* A step without failure that sends nothing: what was acknowledged stays so,
\* a goroutine that saw "ok" keeps it until the Ack, nobody comes closer to a
\* send after the context is cancelled or the connection lost.
LEMMA DuplicateFrame ==
  ASSUME TypeOK, DuplicateInv, UNCHANGED <<acc, faults, mqUp, phase>>,
         \A m \in Copies : loc[m] = "acked" => loc'[m] = "acked",
         \A w \in Workers : mqUp /\ pc[w] \in {"settle", "ack"} /\ result[w] = "ok" =>
            \/ pc'[w] \in {"settle", "ack"} /\ result'[w] = "ok" /\ held'[w] = held[w]
            \/ loc'[held[w]] = "acked",
         \A w \in Workers : pc'[w] \in BeforeSend =>
            \/ /\ pc[w] \in BeforeSend
               /\ held'[w] = held[w]
               /\ CtxDone /\ pc'[w] \in {"gate", "send"} => pc[w] \in {"gate", "send"}
            \/ pc'[w] = "read" /\ mqUp
  PROVE  DuplicateInv'
  BY DEF TypeOK, DuplicateInv, DuplicatesExplained, CtxDone, BeforeSend

\* The three ways a request can be accepted.
LEMMA DuplicateSend ==
  ASSUME TypeOK, CopyInv, DuplicateInv, NEW w \in Workers, pc[w] = "send",
         UNCHANGED <<loc, mqUp, phase, held>>, pc' = [pc EXCEPT ![w] = "settle"],
         acc' = [acc EXCEPT ![held[w]] = @ + 1],
         \A v \in Workers \ {w} : result'[v] = result[v],
         \/ faults' = faults + 1
         \/ faults' = faults /\ (CtxDone \/ result'[w] = "ok")
  PROVE  DuplicateInv'
<1>1. held[w] \in Copies /\ acc[held[w]] <= faults /\ pc[w] \in Working
  BY NotSpent DEF TypeOK, BeforeSend, Working
<1>2. \A m \in Copies : acc'[m] = IF m = held[w] THEN acc[m] + 1 ELSE acc[m]
  BY <1>1 DEF TypeOK
<1>3. \A v \in Workers : v # w => pc'[v] = pc[v]
  BY DEF TypeOK
<1>4. pc'[w] = "settle"
  BY DEF TypeOK
<1>5. \A v \in Workers : pc[v] \in BeforeSend /\ v # w =>
         /\ held[v] \in Copies /\ held[v] # held[w]
         /\ acc'[held[v]] = acc[held[v]] /\ acc[held[v]] <= faults
  BY <1>1, <1>2, NotSpent DEF TypeOK, CopyInv, BeforeSend, Working
<1>6. faults \in Nat /\ faults' \in Nat /\ \A m \in Copies : acc[m] \in Nat /\ acc[m] <= 1 + faults
  BY DEF TypeOK, DuplicateInv, DuplicatesExplained
<1>7. CASE faults' = faults + 1
  <2>1. \A m \in Copies : acc'[m] <= faults'
    BY <1>1, <1>2, <1>6, <1>7
  <2>2. \A v \in Workers : pc'[v] \in BeforeSend => acc'[held'[v]] < faults'
    BY <1>3, <1>4, <1>5, <1>6, <1>7 DEF BeforeSend
  <2> QED BY <1>2, <1>6, <2>1, <2>2 DEF DuplicateInv, DuplicatesExplained, BeforeSend
<1>8. CASE faults' = faults /\ (CtxDone \/ result'[w] = "ok")
  <2>1. \A m \in Copies : acc'[m] <= 1 + faults'
    BY <1>1, <1>2, <1>6, <1>8
  <2>2. CtxDone \/ ~mqUp => acc[held[w]] < faults
    BY DEF DuplicateInv, BeforeSend
  <2>3. acc'[held[w]] = 1 + faults' => mqUp' /\ result'[w] = "ok"
    BY <1>1, <1>2, <1>6, <1>8, <2>2
  <2>4. \A m \in Copies : acc'[m] = 1 + faults' =>
           \/ loc'[m] = "acked"
           \/ mqUp' /\ \E v \in Workers : held'[v] = m /\ pc'[v] \in {"settle", "ack"} /\ result'[v] = "ok"
    <3>1. SUFFICES ASSUME NEW m \in Copies, acc'[m] = 1 + faults', m # held[w], loc'[m] # "acked"
                   PROVE  mqUp' /\ \E v \in Workers : held'[v] = m /\ pc'[v] \in {"settle", "ack"} /\ result'[v] = "ok"
      BY <1>4, <2>3
    <3>2. acc[m] = 1 + faults
      BY <1>2, <1>8, <3>1
    <3>3. mqUp /\ \E v \in Workers : held[v] = m /\ pc[v] \in {"settle", "ack"} /\ result[v] = "ok"
      BY <3>1, <3>2 DEF DuplicateInv
    <3> QED BY <1>3, <3>1, <3>3
  <2>5. \A v \in Workers :
           (CtxDone' /\ pc'[v] \in {"gate", "send"}) \/ (~mqUp' /\ pc'[v] \in BeforeSend)
              => acc'[held'[v]] < faults'
    BY <1>3, <1>4, <1>5, <1>8 DEF DuplicateInv, CtxDone, BeforeSend
  <2> QED BY <2>1, <2>4, <2>5 DEF DuplicateInv, DuplicatesExplained, CtxDone
<1> QED BY <1>7, <1>8

LEMMA DuplicateProcess ==
  ASSUME TypeOK, CopyInv, ResultInv, DuplicateInv, NEW w \in Workers, Process(w)
  PROVE  DuplicateInv'
<1> USE DEF BeforeSend
<1>1. CASE Read(w) \/ BackoffOver(w) \/ MarkProcessing(w) \/ GatePass(w)
  <2>1. UNCHANGED <<acc, faults, mqUp, phase, loc, held, result>>
    BY <1>1 DEF Read, BackoffOver, MarkProcessing, GatePass, mqVars, histVars
  <2>2. \A v \in Workers : pc[v] \in {"settle", "ack"} => pc'[v] = pc[v]
    BY <1>1 DEF TypeOK, Read, BackoffOver, MarkProcessing, GatePass, Goto
  <2>3. \A v \in Workers : pc'[v] \in BeforeSend =>
           pc[v] \in BeforeSend /\ (CtxDone /\ pc'[v] \in {"gate", "send"} => pc[v] \in {"gate", "send"})
    BY <1>1 DEF TypeOK, Read, BackoffOver, MarkProcessing, GatePass, Goto
  <2> QED BY <2>1, <2>2, <2>3, DuplicateFrame
<1>2. CASE Send(w)
  <2>1. PICK r \in {"ok", "retry", "permanent"} :
           /\ result' = [result EXCEPT ![w] = r]
           /\ acc' = IF r = "ok" THEN [acc EXCEPT ![held[w]] = @ + 1] ELSE acc
    BY <1>2 DEF Send
  <2>2. pc[w] = "send" /\ pc' = [pc EXCEPT ![w] = "settle"] /\ UNCHANGED <<loc, mqUp, phase, faults, held>>
    BY <1>2 DEF Send, Goto, mqVars
  <2>3. CASE r = "ok"
    BY <2>1, <2>2, <2>3, DuplicateSend DEF TypeOK
  <2>4. CASE r # "ok"
    <3>1. \A v \in Workers : pc[v] \in {"settle", "ack"} => pc'[v] = pc[v] /\ result'[v] = result[v]
      BY <2>1, <2>2 DEF TypeOK
    <3>2. \A v \in Workers : pc'[v] \in BeforeSend => pc'[v] = pc[v]
      BY <2>2 DEF TypeOK
    <3> QED BY <2>1, <2>2, <2>4, <3>1, <3>2, DuplicateFrame
  <2> QED BY <2>3, <2>4
<1>3. CASE SendCancelled(w)
  <2>1. /\ pc[w] = "send" /\ CtxDone /\ result' = [result EXCEPT ![w] = "retry"]
        /\ pc' = [pc EXCEPT ![w] = "settle"] /\ UNCHANGED <<loc, mqUp, phase, faults, held>>
        /\ acc' = acc \/ acc' = [acc EXCEPT ![held[w]] = @ + 1]
    BY <1>3 DEF SendCancelled, Goto, mqVars
  <2>2. CASE acc' = [acc EXCEPT ![held[w]] = @ + 1]
    BY <2>1, <2>2, DuplicateSend DEF TypeOK
  <2>3. CASE acc' = acc
    <3>1. \A v \in Workers : pc[v] \in {"settle", "ack"} => pc'[v] = pc[v] /\ result'[v] = result[v]
      BY <2>1 DEF TypeOK
    <3>2. \A v \in Workers : pc'[v] \in BeforeSend => pc'[v] = pc[v]
      BY <2>1 DEF TypeOK
    <3> QED BY <2>1, <2>3, <3>1, <3>2, DuplicateFrame
  <2> QED BY <2>1, <2>2, <2>3
<1>4. CASE SendReplyLost(w)
  <2>1. /\ pc[w] = "send" /\ result' = [result EXCEPT ![w] = "retry"]
        /\ pc' = [pc EXCEPT ![w] = "settle"] /\ UNCHANGED <<loc, mqUp, phase, held>>
        /\ acc' = [acc EXCEPT ![held[w]] = @ + 1] /\ faults' = faults + 1
    BY <1>4 DEF SendReplyLost, Fault, Goto, mqVars
  <2> QED BY <2>1, DuplicateSend DEF TypeOK
<1>5. CASE SendUnknown(w)
  <2>1. faults' = faults + 1 /\ UNCHANGED <<acc, held>> /\ pc' = [pc EXCEPT ![w] = "ack"]
    BY <1>5 DEF SendUnknown, Fault, Goto, histVars
  <2> QED BY <2>1, DuplicateFault DEF TypeOK
<1>6. CASE UpdateSent(w) \/ IncrementRetry(w) \/ UpdateFailed(w) \/ SettleError(w)
  <2>1. /\ UNCHANGED <<acc, mqUp, phase, loc, held, result>>
        /\ pc[w] = "settle" /\ pc' = [pc EXCEPT ![w] = "ack"]
        /\ faults' = faults \/ faults' = faults + 1
    BY <1>6 DEF UpdateSent, IncrementRetry, UpdateFailed, RecordFailed, SettleError, StatementFails, Fault, Goto, mqVars, histVars
  <2>2. \A v \in Workers : pc[v] \in {"settle", "ack"} => pc'[v] \in {"settle", "ack"}
    BY <2>1 DEF TypeOK
  <2>3. \A v \in Workers : pc'[v] \in BeforeSend => pc'[v] = pc[v]
    BY <2>1 DEF TypeOK
  <2>4. CASE faults' = faults
    BY <2>1, <2>2, <2>3, <2>4, DuplicateFrame
  <2>5. CASE faults' = faults + 1
    BY <2>1, <2>3, <2>5, DuplicateFault
  <2> QED BY <2>1, <2>4, <2>5
<1>7. CASE Finish(w)
  <2>1. /\ UNCHANGED <<acc, faults, mqUp, phase, held, result>>
        /\ pc[w] = "ack" /\ pc' = [pc EXCEPT ![w] = "announce"]
        /\ loc' = IF mqUp THEN [loc EXCEPT ![held[w]] = Verdict(w)] ELSE loc
    BY <1>7 DEF Finish, Resolve, Goto, histVars
  <2>2. held[w] \in Copies /\ loc[held[w]] # "acked"
    BY <2>1 DEF TypeOK, CopyInv, Working
  <2>3. \A m \in Copies : loc[m] = "acked" => loc'[m] = "acked"
    BY <2>1, <2>2 DEF TypeOK
  <2>4. mqUp /\ result[w] = "ok" => loc'[held[w]] = "acked"
    BY <2>1, <2>2 DEF TypeOK, Verdict
  <2>5. \A v \in Workers : v # w => pc'[v] = pc[v]
    BY <2>1 DEF TypeOK
  <2>6. \A v \in Workers : pc'[v] \in BeforeSend => pc'[v] = pc[v]
    BY <2>1 DEF TypeOK
  <2> QED BY <2>1, <2>3, <2>4, <2>5, <2>6, DuplicateFrame
<1>8. CASE ReadError(w) \/ BackoffInterrupted(w) \/ MarkProcessingError(w) \/ GateDeny(w) \/ SendAgain(w)
  <2>1. /\ UNCHANGED <<acc, mqUp, phase>> /\ Requeue(w)
        /\ faults' = faults \/ faults' = faults + 1
        /\ pc[w] \in BeforeSend \/ (pc[w] = "ack" /\ result[w] # "ok")
    BY <1>8 DEF ReadError, BackoffInterrupted, MarkProcessingError, GateDeny, SendAgain, Retries, StatementFails,
                Fault, histVars
  <2>2. held[w] \in Copies /\ loc[held[w]] # "acked"
    BY <2>1 DEF TypeOK, CopyInv, Working
  <2>3. \A m \in Copies : loc[m] = "acked" => loc'[m] = "acked"
    BY <2>1, <2>2 DEF TypeOK, Requeue, Resolve
  <2>4. \A v \in Workers : v # w => pc'[v] = pc[v] /\ held'[v] = held[v] /\ result'[v] = result[v]
    BY <2>1 DEF TypeOK, Requeue, Free
  <2>5. pc'[w] = "idle"
    BY <2>1 DEF TypeOK, Requeue, Free
  <2>6. CASE faults' = faults
    BY <2>1, <2>3, <2>4, <2>5, <2>6, DuplicateFrame
  <2>7. CASE faults' = faults + 1
    BY <2>1, <2>4, <2>5, <2>7, DuplicateFault
  <2> QED BY <2>1, <2>6, <2>7
<1>9. CASE Announce(w)
  <2>1. UNCHANGED <<acc, faults, mqUp, phase, loc>> /\ Free(w) /\ pc[w] = "announce"
    BY <1>9 DEF Announce, mqVars
  <2>2. \A v \in Workers : v # w => pc'[v] = pc[v] /\ held'[v] = held[v] /\ result'[v] = result[v]
    BY <2>1 DEF TypeOK, Free
  <2>3. pc'[w] = "idle"
    BY <2>1 DEF TypeOK, Free
  <2> QED BY <2>1, <2>2, <2>3, DuplicateFrame
<1> QED BY <1>1, <1>2, <1>3, <1>4, <1>5, <1>6, <1>7, <1>8, <1>9 DEF Process

LEMMA DuplicateStep == ASSUME TypeOK, CopyInv, ResultInv, DuplicateInv, [Next]_vars PROVE DuplicateInv'
<1>1. ASSUME UNCHANGED <<acc, pc, held, result, mqUp, phase>>, faults' = faults \/ faults' = faults + 1,
             \A m \in Copies : loc[m] = "acked" => loc'[m] = "acked"
      PROVE  DuplicateInv'
  <2>1. CASE faults' = faults
    BY <1>1, <2>1, DuplicateFrame DEF BeforeSend
  <2>2. CASE faults' = faults + 1
    BY <1>1, <2>2, DuplicateFault
  <2> QED BY <1>1, <2>1, <2>2
<1>2. ASSUME NEW n \in Notifications, Published(n) PROVE \A m \in Copies : loc[m] = "acked" => loc'[m] = "acked"
  <2>1. <<n, pub[n] + 1>> \in Copies /\ loc[<<n, pub[n] + 1>>] = "none"
    BY <1>2 DEF TypeOK, CopyInv, Published, Put, Copies
  <2> QED BY <1>2, <2>1 DEF TypeOK, Published, Put
<1>3. ASSUME NEW n \in Notifications, Published(n), UNCHANGED <<acc, pc, held, result, mqUp, phase>>
      PROVE  DuplicateInv'
  BY <1>1, <1>2, <1>3 DEF Published, Fault
<1>4. ASSUME UNCHANGED <<acc, pc, held, result, mqUp, phase, loc>>, faults' = faults \/ faults' = faults + 1
      PROVE  DuplicateInv'
  BY <1>1, <1>4
<1>5. CASE Api
  BY <1>3, <1>4, <1>5 DEF Api, Create, CreateBatch, Insert, ApiSkip, ApiPublish, ApiPublishError, ApiMark, ApiMarkError, Cancel,
                          PublishFailed, Fault, mqVars, workerVars, histVars
<1>6. CASE Scheduler
  BY <1>3, <1>4, <1>6 DEF Scheduler, SchedPoll, SchedPublish, SchedPublishError, SchedMark, SchedMarkError,
                          StatementFails, PublishFailed, Fault, mqVars, workerVars, histVars
<1>7. CASE Environment
  <2>1. ASSUME NEW w \in Workers, NEW m \in Copies, Deliver(w, m) PROVE DuplicateInv'
    <3>1. UNCHANGED <<acc, faults, mqUp, phase, result>> /\ mqUp /\ pc[w] = "idle" /\ loc[m] = "ready"
      BY <2>1 DEF Deliver, histVars
    <3>2. \A k \in Copies : loc[k] = "acked" => loc'[k] = "acked"
      BY <2>1 DEF TypeOK, Deliver
    <3>3. \A v \in Workers : v # w => pc'[v] = pc[v] /\ held'[v] = held[v]
      BY <2>1 DEF TypeOK, Deliver, Goto
    <3>4. pc'[w] = "read"
      BY <2>1 DEF TypeOK, Deliver, Goto
    <3> QED BY <3>1, <3>2, <3>3, <3>4, DuplicateFrame
  <2>2. CASE Crash
    <3>1. faults' = faults + 1 /\ UNCHANGED acc /\ \A w \in Workers : pc'[w] = "idle"
      BY <2>2 DEF Crash, Fault, Fresh, histVars
    <3> QED BY <3>1, DuplicateFault DEF BeforeSend
  <2>3. CASE ConnectionLost
    BY <2>3, DuplicateFault DEF ConnectionLost, Fault, workerVars, histVars
  <2>4. CASE Sigterm
    BY <2>4, DuplicateFault DEF Sigterm, Fault, workerVars, histVars
  <2>5. CASE CancelConsumer
    <3>1. UNCHANGED <<acc, faults, mqUp, loc, pc, held, result>> /\ CtxDone /\ CtxDone'
      BY <2>5 DEF CancelConsumer, CtxDone, mqVars, workerVars, histVars
    <3> QED BY <3>1 DEF DuplicateInv, DuplicatesExplained, BeforeSend
  <2>6. CASE Exit
    <3>1. UNCHANGED <<acc, faults>> /\ loc' = TakenBack /\ \A w \in Workers : pc[w] = "idle" /\ pc'[w] = "idle"
      BY <2>6 DEF Exit, Fresh, histVars
    <3>2. \A m \in Copies : loc[m] = "acked" => loc'[m] = "acked"
      BY <3>1 DEF TakenBack
    <3> QED BY <3>1, <3>2 DEF DuplicateInv, DuplicatesExplained, BeforeSend
  <2>7. CASE \E n \in Notifications : FallsDue(n)
    BY <1>4, <2>7 DEF FallsDue, mqVars, workerVars, histVars
  <2> QED BY <1>7, <2>1, <2>2, <2>3, <2>4, <2>5, <2>6, <2>7 DEF Environment
<1>8. CASE UNCHANGED vars
  BY <1>4, <1>8 DEF vars, mqVars, workerVars, histVars
<1> QED BY <1>5, <1>6, <1>7, <1>8, DuplicateProcess DEF Next

\* The last acceptance the failures pay for ends the life of its message.
THEOREM DuplicatesCounted == Spec => []DuplicateInv
<1>1. Init => DuplicateInv
  BY DEF Init, DuplicateInv, DuplicatesExplained, CtxDone, BeforeSend
<1>2. TypeOK /\ CopyInv /\ ResultInv /\ DuplicateInv /\ [Next]_vars => DuplicateInv'
  BY DuplicateStep
<1> QED BY <1>1, <1>2, TypeCorrect, CopiesHeld, OutcomeKnown, PTL DEF Spec

\* One message is accepted at most once more than there were failures.
THEOREM DuplicatesPaidFor == Spec => []DuplicatesExplained
<1>1. DuplicateInv => DuplicatesExplained
  BY DEF DuplicateInv
<1> QED BY <1>1, DuplicatesCounted, PTL
=============================================================================
