------------------------ MODULE DeliveryOutcomeProofs ------------------------
(* What a notification costs and how it ends: the budget of requests, the    *)
(* rows of settled messages, the last word of the feed, and cancellation     *)
(* before publishing.  Rests on the invariants proved in DeliveryProofs.     *)
(* Then: every behaviour of Delivery is one of AtLeastOnce.                  *)
EXTENDS DeliveryProofs, DeliveryRefinement

USE NoneAssumption, RetriesAssumption, CopiesAssumption, FaultsAssumption

-----------------------------------------------------------------------------
(* The budget of requests *)

\* A request still to be made is within the budget.
LEMMA BudgetNotSpent ==
  ASSUME TypeOK, CopyInv, PublishInv, BudgetInv, NEW w \in Workers, pc[w] \in BeforeSend,
         Unscheduled(held[w][1])
  PROVE  attempts[held[w][1]] <= retryCount[held[w][1]] + faults
<1> DEFINE n == held[w][1]
<1>1. held[w] \in Copies /\ pc[w] \in Working /\ n \in Notifications
  BY DEF TypeOK, BeforeSend, Working, Copies
<1>2. held[w] = <<n, 1>>
  BY OnlyCopy DEF BeforeSend
<1>3. loc[<<n, 1>>] \notin {"acked", "dead"}
  BY <1>1, <1>2 DEF CopyInv
<1>4. \A v \in Concluding : held[v] # <<n, 1>>
  BY <1>1, <1>2 DEF CopyInv, Concluding, Working, BeforeSend
<1>5. attempts[n] # retryCount[n] + 1 + faults
  BY <1>1, <1>3, <1>4 DEF BudgetInv
<1>6. attempts[n] \in Nat /\ retryCount[n] \in Nat /\ faults \in Nat /\ attempts[n] <= retryCount[n] + 1 + faults
  BY <1>1 DEF TypeOK, BudgetInv
<1> HIDE DEF n
<1>7. attempts[n] <= retryCount[n] + faults
  BY <1>5, <1>6
<1> QED BY <1>7 DEF n

\* A goroutine at work on an unscheduled notification is alone with it.
LEMMA BudgetAlone ==
  ASSUME TypeOK, CopyInv, PublishInv, NEW v \in Workers, NEW w \in Workers, v # w,
         pc[v] \in Working, pc[w] \in Working, Unscheduled(held[v][1])
  PROVE  held[v][1] # held[w][1]
<1>1. SUFFICES ASSUME held[v][1] = held[w][1] PROVE FALSE
  OBVIOUS
<1>2. held[v] = held[w]
  BY <1>1, OnlyCopy DEF Working
<1> QED BY <1>2 DEF CopyInv

\* A failure pays for whatever was requested so far.
LEMMA BudgetFault ==
  ASSUME TypeOK, TypeOK', CopyInv, PublishInv, BudgetInv, faults' = faults + 1,
         UNCHANGED <<attempts, retryCount>>,
         \A n \in Notifications : sched'[n] = "none" => sched[n] = "none",
         \A w \in Workers : pc'[w] \in BeforeSend => pc[w] \in BeforeSend /\ held'[w] = held[w]
  PROVE  BudgetInv'
<1>1. \A n \in Notifications : attempts[n] \in Nat /\ retryCount[n] \in Nat /\ faults \in Nat
  BY DEF TypeOK
<1>2. \A w \in Workers : pc'[w] # "idle" => held'[w][1] \in Notifications
  BY DEF TypeOK, Copies
<1>3. \A n \in Notifications : sched'[n] = "none" => attempts'[n] <= retryCount'[n] + faults'
  BY <1>1 DEF BudgetInv, Unscheduled
<1>4. \A n \in Notifications : sched'[n] = "none" =>
         attempts'[n] <= retryCount'[n] + 1 + faults' /\ attempts'[n] # retryCount'[n] + 1 + faults'
  BY <1>1, <1>3
<1>5. ASSUME NEW w \in Workers, pc'[w] \in BeforeSend, sched'[held'[w][1]] = "none"
      PROVE  attempts'[held'[w][1]] < retryCount'[held'[w][1]] + faults'
  <2>1. held'[w] = held[w] /\ held[w][1] \in Notifications
    BY <1>2, <1>5 DEF BeforeSend
  <2>2. attempts[held[w][1]] <= retryCount[held[w][1]] + faults
    BY <1>5, <2>1, BudgetNotSpent DEF Unscheduled
  <2> QED BY <1>1, <2>1, <2>2
<1> QED BY <1>2, <1>3, <1>4, <1>5 DEF BudgetInv, Unscheduled, BeforeSend

\* A step without failure that neither requests nor counts: what was settled
\* stays so, a goroutine that will settle goes on to do it, nobody comes closer
\* to a request after the context is cancelled or the connection lost.
LEMMA BudgetFrame ==
  ASSUME TypeOK, TypeOK', BudgetInv, UNCHANGED <<attempts, retryCount, faults, mqUp, phase>>,
         \A n \in Notifications : sched'[n] = "none" => sched[n] = "none",
         \A m \in Copies : loc[m] \in {"acked", "dead"} => loc'[m] \in {"acked", "dead"},
         \A w \in Concluding : mqUp =>
            \/ w \in Concluding' /\ held'[w] = held[w]
            \/ loc'[held[w]] \in {"acked", "dead"},
         \A w \in Workers : pc'[w] \in BeforeSend =>
            \/ /\ pc[w] \in BeforeSend
               /\ held'[w] = held[w]
               /\ CtxDone /\ pc'[w] \in {"gate", "send"} => pc[w] \in {"gate", "send"}
            \/ pc'[w] = "read" /\ mqUp,
         \A w \in Workers : CtxDone /\ pc'[w] = "settle" => pc[w] = "settle" /\ held'[w] = held[w]
  PROVE  BudgetInv'
<1>1. \A w \in Workers : pc'[w] # "idle" => held'[w][1] \in Notifications
  BY DEF TypeOK, Copies
<1>2. \A n \in Notifications : <<n, 1>> \in Copies
  BY DEF Copies
<1>3. \A w \in Concluding : w \in Workers
  BY DEF Concluding
<1>4. \A n \in Notifications : sched'[n] = "none" /\ attempts'[n] = retryCount'[n] + 1 + faults' =>
          \/ loc'[<<n, 1>>] \in {"acked", "dead"}
          \/ mqUp' /\ \E w \in Concluding' : held'[w] = <<n, 1>>
  BY <1>2, <1>3, SMTT(60) DEF BudgetInv, Unscheduled
<1>6. CtxDone' = CtxDone /\ UNCHANGED <<attempts, retryCount, faults, mqUp>>
  BY DEF CtxDone
<1>7. ASSUME NEW w \in Workers, sched'[held'[w][1]] = "none",
             (CtxDone /\ pc'[w] \in {"gate", "send"}) \/ (~mqUp /\ pc'[w] \in BeforeSend)
      PROVE  attempts[held'[w][1]] < retryCount[held'[w][1]] + faults
  <2>1. held'[w][1] \in Notifications /\ held'[w] = held[w]
    BY <1>1, <1>7 DEF BeforeSend
  <2>2. (CtxDone /\ pc[w] \in {"gate", "send"}) \/ (~mqUp /\ pc[w] \in BeforeSend)
    BY <1>7 DEF BeforeSend
  <2> QED BY <1>7, <2>1, <2>2 DEF BudgetInv, Unscheduled
<1>8. ASSUME NEW w \in Workers, sched'[held'[w][1]] = "none", CtxDone, pc'[w] = "settle"
      PROVE  attempts[held'[w][1]] <= retryCount[held'[w][1]] + faults
  BY <1>1, <1>8 DEF BudgetInv, Unscheduled
<1>9. \A n \in Notifications : sched'[n] = "none" => attempts'[n] <= retryCount'[n] + 1 + faults'
  BY <1>6 DEF BudgetInv, Unscheduled
<1>10. \A w \in Workers :
          (CtxDone' /\ pc'[w] \in {"gate", "send"}) \/ (~mqUp' /\ pc'[w] \in BeforeSend) =>
             (sched'[held'[w][1]] = "none" => attempts'[held'[w][1]] < retryCount'[held'[w][1]] + faults')
  BY <1>6, <1>7
<1>11. \A w \in Workers : CtxDone' /\ pc'[w] = "settle" =>
          (sched'[held'[w][1]] = "none" => attempts'[held'[w][1]] <= retryCount'[held'[w][1]] + faults')
  BY <1>6, <1>8
<1> QED BY <1>4, <1>9, <1>10, <1>11 DEF BudgetInv, Unscheduled

\* A request: within the budget, and the last one of the budget only when the
\* goroutine will settle the message.
LEMMA BudgetSend ==
  ASSUME TypeOK, TypeOK', CopyInv, PublishInv, BudgetInv, NEW w \in Workers, pc[w] = "send",
         UNCHANGED <<loc, mqUp, phase, held, snap, sched, retryCount>>,
         pc' = [pc EXCEPT ![w] = "settle"],
         \A v \in Workers \ {w} : result'[v] = result[v],
         attempts' = [attempts EXCEPT ![held[w][1]] = @ + 1],
         faults' = faults \/ faults' = faults + 1
  PROVE  BudgetInv'
<1> DEFINE k == held[w][1]
<1>1. k \in Notifications /\ pc[w] \in Working /\ pc[w] \in BeforeSend
  BY DEF TypeOK, Copies, Working, BeforeSend
<1>2. \A n \in Notifications : attempts'[n] = IF n = k THEN attempts[n] + 1 ELSE attempts[n]
  BY DEF TypeOK
<1>3. \A n \in Notifications : attempts[n] \in Nat /\ retryCount[n] \in Nat
  BY DEF TypeOK
<1>4. faults \in Nat /\ faults' \in Nat
  BY DEF TypeOK
<1>5. pc'[w] = "settle" /\ \A v \in Workers : v # w => pc'[v] = pc[v]
  BY DEF TypeOK
<1>6. Unscheduled(k) => attempts[k] <= retryCount[k] + faults
  BY <1>1, BudgetNotSpent
<1>7. Unscheduled(k) /\ (CtxDone \/ ~mqUp) => attempts[k] < retryCount[k] + faults
  BY <1>1 DEF BudgetInv
<1>8. \A v \in Workers : v # w /\ pc[v] \in Working /\ Unscheduled(held[v][1]) => held[v][1] # k
  BY <1>1, BudgetAlone
<1>9. \A v \in Workers : pc'[v] # "idle" => held[v][1] \in Notifications
  BY DEF TypeOK, Copies
<1>10. Unscheduled(k) => held[w] = <<k, 1>>
  BY <1>1, OnlyCopy
<1>11. Concluding' = Concluding \cup {w}
  BY <1>5 DEF Concluding, GivesUp, MayRetry
<1>12. held' = held /\ retryCount' = retryCount /\ sched' = sched /\ mqUp' = mqUp /\ loc' = loc /\ CtxDone' = CtxDone
  BY DEF CtxDone
<1> HIDE DEF k
<1>13. \A n \in Notifications : Unscheduled(n) => attempts'[n] <= retryCount[n] + 1 + faults'
  BY <1>2, <1>3, <1>4, <1>6 DEF BudgetInv
<1>14. ASSUME NEW n \in Notifications, Unscheduled(n), attempts'[n] = retryCount[n] + 1 + faults'
       PROVE  \/ loc[<<n, 1>>] \in {"acked", "dead"}
              \/ mqUp /\ \E v \in Concluding' : held[v] = <<n, 1>>
  <2>1. CASE n = k
    <3>1. mqUp
      BY <1>2, <1>3, <1>4, <1>7, <1>14, <2>1
    <3> QED BY <1>10, <1>11, <1>14, <2>1, <3>1
  <2>2. CASE n # k
    <3>1. attempts[n] = retryCount[n] + 1 + faults
      BY <1>2, <1>3, <1>4, <1>14, <2>2 DEF BudgetInv
    <3>2. \/ loc[<<n, 1>>] \in {"acked", "dead"}
          \/ mqUp /\ \E v \in Concluding : held[v] = <<n, 1>>
      BY <1>14, <3>1 DEF BudgetInv
    <3> QED BY <1>11, <3>2
  <2> QED BY <2>1, <2>2
<1>15. ASSUME NEW v \in Workers, (CtxDone /\ pc'[v] \in {"gate", "send"}) \/ (~mqUp /\ pc'[v] \in BeforeSend),
              Unscheduled(held[v][1])
       PROVE  attempts'[held[v][1]] < retryCount[held[v][1]] + faults'
  <2>1. v # w /\ pc'[v] = pc[v] /\ pc[v] \in Working /\ pc'[v] # "idle"
    BY <1>5, <1>15 DEF BeforeSend, Working
  <2>2. held[v][1] \in Notifications /\ held[v][1] # k
    BY <1>8, <1>9, <1>15, <2>1
  <2>3. attempts[held[v][1]] < retryCount[held[v][1]] + faults
    BY <1>15, <2>1 DEF BudgetInv
  <2> QED BY <1>2, <1>3, <1>4, <2>2, <2>3
<1>16. ASSUME NEW v \in Workers, CtxDone, pc'[v] = "settle", Unscheduled(held[v][1])
       PROVE  attempts'[held[v][1]] <= retryCount[held[v][1]] + faults'
  <2>1. CASE v = w
    BY <1>1, <1>2, <1>3, <1>4, <1>7, <1>16, <2>1 DEF k
  <2>2. CASE v # w
    <3>1. pc[v] = "settle" /\ pc[v] \in Working /\ pc'[v] # "idle"
      BY <1>5, <1>16, <2>2 DEF Working
    <3>2. held[v][1] \in Notifications /\ held[v][1] # k
      BY <1>8, <1>9, <1>16, <2>2, <3>1
    <3>3. attempts[held[v][1]] <= retryCount[held[v][1]] + faults
      BY <1>16, <3>1 DEF BudgetInv
    <3> QED BY <1>2, <1>3, <1>4, <3>2, <3>3
  <2> QED BY <2>1, <2>2
<1> QED BY <1>12, <1>13, <1>14, <1>15, <1>16, SMTT(60) DEF BudgetInv, Unscheduled

LEMMA BudgetProcess ==
  ASSUME TypeOK, TypeOK', CopyInv, PublishInv, BudgetInv, NEW w \in Workers, Process(w)
  PROVE  BudgetInv'
<1> USE DEF BeforeSend
<1>n. pc[w] # "idle" => held[w] \in Copies /\ held[w][1] \in Notifications
  BY DEF TypeOK, Copies
<1>1. CASE Read(w) \/ BackoffOver(w) \/ MarkProcessing(w) \/ GatePass(w)
  <2>1. /\ UNCHANGED <<attempts, retryCount, sched, faults, mqUp, phase, loc, held, result>>
        /\ pc[w] \in BeforeSend
    BY <1>1 DEF Read, BackoffOver, MarkProcessing, GatePass, rowVars, mqVars, histVars
  <2>2. \A v \in Workers : v # w => pc'[v] = pc[v] /\ snap'[v] = snap[v]
    BY <1>1 DEF TypeOK, Read, BackoffOver, MarkProcessing, GatePass, Goto
  <2>3. /\ pc'[w] \in BeforeSend
        /\ CtxDone /\ pc'[w] \in {"gate", "send"} => pc[w] \in {"gate", "send"}
    BY <1>1 DEF TypeOK, Read, BackoffOver, MarkProcessing, GatePass, Goto
  <2>4. Concluding' = Concluding
    BY <2>1, <2>2, <2>3 DEF Concluding, GivesUp, MayRetry
  <2> QED BY <2>1, <2>2, <2>3, <2>4, BudgetFrame
<1>2. CASE Send(w) \/ SendReplyLost(w)
  <2>1. /\ pc[w] = "send" /\ pc' = [pc EXCEPT ![w] = "settle"]
        /\ UNCHANGED <<loc, mqUp, phase, held, snap, sched, retryCount>>
        /\ attempts' = [attempts EXCEPT ![held[w][1]] = @ + 1]
        /\ faults' = faults \/ faults' = faults + 1
    BY <1>2 DEF Send, SendReplyLost, Fault, Goto, Handled, rowVars, mqVars
  <2>2. \A v \in Workers \ {w} : result'[v] = result[v]
    BY <1>2 DEF TypeOK, Send, SendReplyLost
  <2> QED BY <2>1, <2>2, BudgetSend
<1>3. CASE SendCancelled(w)
  <2>1. /\ pc[w] = "send" /\ CtxDone /\ result' = [result EXCEPT ![w] = "retry"]
        /\ pc' = [pc EXCEPT ![w] = "settle"]
        /\ UNCHANGED <<loc, mqUp, phase, held, snap, sched, retryCount, faults>>
        /\ attempts' = attempts \/ attempts' = [attempts EXCEPT ![held[w][1]] = @ + 1]
    BY <1>3 DEF SendCancelled, Goto, Handled, rowVars, mqVars
  <2>2. CASE attempts' = [attempts EXCEPT ![held[w][1]] = @ + 1]
    <3>1. \A v \in Workers \ {w} : result'[v] = result[v]
      BY <2>1 DEF TypeOK
    <3> QED BY <2>1, <2>2, <3>1, BudgetSend
  <2>3. CASE attempts' = attempts
    <3>1. /\ pc'[w] = "settle" /\ UNCHANGED <<attempts, retryCount, faults, held, mqUp, loc, sched>>
          /\ CtxDone' = CtxDone
          /\ \A v \in Workers : v # w => pc'[v] = pc[v] /\ result'[v] = result[v]
      BY <2>1, <2>3 DEF TypeOK, CtxDone
    <3>2. Concluding' = Concluding \cup {w}
      BY <2>1, <3>1 DEF Concluding, GivesUp, MayRetry
    <3>3. Unscheduled(held[w][1]) => attempts[held[w][1]] < retryCount[held[w][1]] + faults
      BY <2>1 DEF BudgetInv
    <3>4. Unscheduled(held[w][1]) => attempts[held[w][1]] <= retryCount[held[w][1]] + faults
      BY <1>n, <2>1, <3>3 DEF TypeOK
    <3> QED BY <3>1, <3>2, <3>4 DEF BudgetInv, Unscheduled
  <2> QED BY <2>1, <2>2, <2>3
<1>4. CASE SendUnknown(w)
  <2>1. /\ faults' = faults + 1 /\ UNCHANGED <<attempts, retryCount, held, sched>>
        /\ pc' = [pc EXCEPT ![w] = "ack"]
    BY <1>4 DEF SendUnknown, Fault, Goto, rowVars, histVars
  <2> QED BY <2>1, BudgetFault DEF TypeOK
<1>5. CASE UpdateSent(w) \/ UpdateFailed(w)
  <2>1. /\ UNCHANGED <<attempts, retryCount, sched, faults, mqUp, phase, loc, held, result, snap>>
        /\ pc[w] = "settle" /\ pc' = [pc EXCEPT ![w] = "ack"] /\ (result[w] = "ok" \/ GivesUp(w))
    BY <1>5 DEF UpdateSent, UpdateFailed, RecordSent, RecordFailed, Goto, mqVars, histVars
  <2>2. pc'[w] = "ack" /\ \A v \in Workers : v # w => pc'[v] = pc[v]
    BY <2>1 DEF TypeOK
  <2>3. Concluding' = Concluding
    BY <2>1, <2>2 DEF Concluding, GivesUp, MayRetry
  <2> QED BY <2>1, <2>2, <2>3, BudgetFrame
<1>6. CASE IncrementRetry(w)
  <2> DEFINE k == held[w][1]
  <2>1. /\ UNCHANGED <<attempts, sched, faults, mqUp, phase, loc, held, result, snap>>
        /\ pc[w] = "settle" /\ pc' = [pc EXCEPT ![w] = "ack"]
        /\ retryCount' = [retryCount EXCEPT ![k] = @ + 1]
    BY <1>6 DEF IncrementRetry, CountRetry, Goto, Handled, mqVars, histVars
  <2>2. pc'[w] = "ack" /\ \A v \in Workers : v # w => pc'[v] = pc[v]
    BY <2>1 DEF TypeOK
  <2>3. k \in Notifications /\ (Unscheduled(k) => held[w] = <<k, 1>>)
    BY <1>n, <2>1, OnlyCopy
  <2>4. /\ faults \in Nat
        /\ \A n \in Notifications : /\ attempts[n] \in Nat /\ retryCount[n] \in Nat
                                    /\ retryCount'[n] = IF n = k THEN retryCount[n] + 1 ELSE retryCount[n]
    BY <2>1, <2>3 DEF TypeOK
  <2>5. Concluding \ {w} \subseteq Concluding' /\ w \in Workers
    BY <2>1, <2>2 DEF Concluding, GivesUp, MayRetry
  <2>6. \A v \in Workers : pc'[v] # "idle" => held[v][1] \in Notifications
    BY <2>1 DEF TypeOK, Copies
  <2>7. CtxDone' = CtxDone
    BY <2>1 DEF CtxDone
  <2> HIDE DEF k
  <2>8. \A n \in Notifications : Unscheduled(n) => attempts[n] <= retryCount'[n] + 1 + faults
    BY <2>4 DEF BudgetInv
  <2>9. ASSUME NEW n \in Notifications, Unscheduled(n), attempts[n] = retryCount'[n] + 1 + faults
        PROVE  \/ loc[<<n, 1>>] \in {"acked", "dead"}
               \/ mqUp /\ \E v \in Concluding' : held[v] = <<n, 1>>
    <3>1. n # k
      BY <2>4, <2>9 DEF BudgetInv
    <3>2. held[w] # <<n, 1>>
      BY <3>1 DEF k
    <3> QED BY <2>4, <2>5, <2>9, <3>1, <3>2 DEF BudgetInv
  <2>10. \A v \in Workers :
            (CtxDone /\ pc'[v] \in {"gate", "send"}) \/ (~mqUp /\ pc'[v] \in BeforeSend) =>
              (Unscheduled(held[v][1]) => attempts[held[v][1]] < retryCount'[held[v][1]] + faults)
    <3>1. SUFFICES ASSUME NEW v \in Workers, Unscheduled(held[v][1]),
                          (CtxDone /\ pc'[v] \in {"gate", "send"}) \/ (~mqUp /\ pc'[v] \in BeforeSend)
                   PROVE  attempts[held[v][1]] < retryCount'[held[v][1]] + faults
      OBVIOUS
    <3>2. pc'[v] = pc[v] /\ held[v][1] \in Notifications
      BY <2>2, <2>6, <3>1
    <3>3. attempts[held[v][1]] < retryCount[held[v][1]] + faults
      BY <3>1, <3>2 DEF BudgetInv
    <3> QED BY <2>4, <3>2, <3>3
  <2>11. \A v \in Workers : CtxDone /\ pc'[v] = "settle" =>
            (Unscheduled(held[v][1]) => attempts[held[v][1]] <= retryCount'[held[v][1]] + faults)
    <3>1. SUFFICES ASSUME NEW v \in Workers, Unscheduled(held[v][1]), CtxDone, pc'[v] = "settle"
                   PROVE  attempts[held[v][1]] <= retryCount'[held[v][1]] + faults
      OBVIOUS
    <3>2. pc'[v] = pc[v] /\ held[v][1] \in Notifications
      BY <2>2, <2>6, <3>1
    <3>3. attempts[held[v][1]] <= retryCount[held[v][1]] + faults
      BY <3>1, <3>2 DEF BudgetInv
    <3> QED BY <2>4, <3>2, <3>3
  <2> QED BY <2>1, <2>7, <2>8, <2>9, <2>10, <2>11 DEF BudgetInv, Unscheduled
<1>7. CASE SettleError(w)
  <2>1. /\ UNCHANGED <<attempts, retryCount, sched, mqUp, phase, loc, held, result, snap>>
        /\ pc[w] = "settle" /\ pc' = [pc EXCEPT ![w] = "ack"]
        /\ (CtxDone /\ faults' = faults) \/ faults' = faults + 1
    BY <1>7 DEF SettleError, StatementFails, Fault, Goto, rowVars, mqVars, histVars
  <2>2. pc'[w] = "ack" /\ \A v \in Workers : v # w => pc'[v] = pc[v]
    BY <2>1 DEF TypeOK
  <2>3. CASE faults' = faults + 1
    BY <2>1, <2>2, <2>3, BudgetFault
  <2>4. CASE CtxDone /\ faults' = faults
    <3> DEFINE k == held[w][1]
    <3>1. k \in Notifications /\ (Unscheduled(k) => attempts[k] <= retryCount[k] + faults)
      BY <1>n, <2>1, <2>4 DEF BudgetInv
    <3>2. Unscheduled(k) => attempts[k] # retryCount[k] + 1 + faults
      BY <3>1 DEF TypeOK
    <3>3. Concluding \ {w} \subseteq Concluding'
      BY <2>1, <2>2 DEF Concluding, GivesUp, MayRetry
    <3>4. CtxDone' = CtxDone
      BY <2>1 DEF CtxDone
    <3> HIDE DEF k
    <3>5. \A n \in Notifications : Unscheduled(n) /\ attempts[n] = retryCount[n] + 1 + faults =>
             \/ loc[<<n, 1>>] \in {"acked", "dead"}
             \/ mqUp /\ \E v \in Concluding' : held[v] = <<n, 1>>
      BY <3>2, <3>3 DEF BudgetInv, k
    <3> QED BY <2>1, <2>2, <2>4, <3>4, <3>5 DEF BudgetInv, Unscheduled
  <2> QED BY <2>1, <2>3, <2>4
<1>8. CASE Finish(w)
  <2>1. /\ UNCHANGED <<attempts, retryCount, sched, faults, mqUp, phase, held, result, snap>>
        /\ pc[w] = "ack" /\ pc' = [pc EXCEPT ![w] = "announce"]
        /\ loc' = IF mqUp THEN [loc EXCEPT ![held[w]] = Verdict(w)] ELSE loc
    BY <1>8 DEF Finish, Resolve, Goto, rowVars, histVars
  <2>2. Verdict(w) \in {"acked", "dead"}
    BY DEF Verdict
  <2>3. /\ \A m \in Copies : loc[m] \in {"acked", "dead"} => loc'[m] \in {"acked", "dead"}
        /\ mqUp => loc'[held[w]] \in {"acked", "dead"}
    BY <1>n, <2>1, <2>2 DEF TypeOK
  <2>4. pc'[w] = "announce" /\ \A v \in Workers : v # w => pc'[v] = pc[v]
    BY <2>1 DEF TypeOK
  <2>5. Concluding \ {w} \subseteq Concluding'
    BY <2>1, <2>4 DEF Concluding, GivesUp, MayRetry
  <2> QED BY <2>1, <2>3, <2>4, <2>5, BudgetFrame
<1>9. CASE ReadError(w) \/ BackoffInterrupted(w) \/ MarkProcessingError(w) \/ GateDeny(w) \/ SendAgain(w) \/ Announce(w)
  <2>1. /\ UNCHANGED <<attempts, retryCount, sched, mqUp, phase>> /\ Free(w)
        /\ faults' = faults \/ faults' = faults + 1
        /\ loc' = loc \/ (pc[w] \in Working /\ mqUp /\ loc' = [loc EXCEPT ![held[w]] = "ready"])
        /\ w \notin Concluding
    BY <1>9 DEF ReadError, BackoffInterrupted, MarkProcessingError, GateDeny, SendAgain, Announce, Requeue, Resolve,
                StatementFails, Fault, Working, Concluding, Retries, GivesUp, rowVars, mqVars, histVars
  <2>2. \A m \in Copies : loc[m] \in {"acked", "dead"} => loc'[m] \in {"acked", "dead"}
    BY <1>n, <2>1 DEF TypeOK, CopyInv, Working
  <2>3. pc'[w] = "idle" /\ \A v \in Workers : v # w =>
           pc'[v] = pc[v] /\ held'[v] = held[v] /\ result'[v] = result[v] /\ snap'[v] = snap[v]
    BY <2>1 DEF TypeOK, Free
  <2>4. \A v \in Concluding : v \in Concluding' /\ held'[v] = held[v]
    BY <2>1, <2>3 DEF Concluding, GivesUp, MayRetry
  <2>5. CASE faults' = faults
    BY <2>1, <2>2, <2>3, <2>4, <2>5, BudgetFrame
  <2>6. CASE faults' = faults + 1
    BY <2>1, <2>3, <2>6, BudgetFault
  <2> QED BY <2>1, <2>5, <2>6
<1> QED BY <1>1, <1>2, <1>3, <1>4, <1>5, <1>6, <1>7, <1>8, <1>9 DEF Process

\* A scheduled notification never becomes an unscheduled one.
LEMMA StaysScheduled ==
  ASSUME TypeOK, PublishInv, [Next]_vars, NEW n \in Notifications, sched'[n] = "none"
  PROVE  sched[n] = "none"
<1>1. CASE Api
  BY <1>1 DEF Api, Create, CreateBatch, Insert, ApiSkip, ApiPublish, ApiPublishError, ApiMark, ApiMarkError, Cancel,
              rowVars, PublishInv, Unscheduled
<1>2. CASE Scheduler \/ UNCHANGED vars
  BY <1>2 DEF Scheduler, SchedPoll, SchedPublish, SchedPublishError, SchedMark, SchedMarkError, vars, rowVars
<1>3. CASE Environment
  BY <1>3 DEF TypeOK, Environment, FallsDue, Deliver, Crash, Exit, ConnectionLost, Sigterm, CancelConsumer, rowVars
<1>4. ASSUME NEW w \in Workers, Process(w) PROVE UNCHANGED sched
  BY <1>4 DEF Process, Read, ReadError, BackoffOver, BackoffInterrupted, MarkProcessing, MarkProcessingError,
         GatePass, GateDeny, Send, SendCancelled, SendReplyLost, SendUnknown, UpdateSent, IncrementRetry,
         UpdateFailed, RecordFailed, SettleError, Finish, SendAgain, Announce, rowVars
<1> QED BY <1>1, <1>2, <1>3, <1>4 DEF Next

\* A publish leaves every earlier message where it is.
LEMMA PublishedNew ==
  ASSUME TypeOK, CopyInv, NEW n \in Notifications, Published(n)
  PROVE  \A m \in Copies : loc[m] # "none" => loc'[m] = loc[m]
<1>1. <<n, pub[n] + 1>> \in Copies /\ loc[<<n, pub[n] + 1>>] = "none"
  BY DEF TypeOK, CopyInv, Published, Put, Copies
<1> QED BY <1>1 DEF TypeOK, Published, Put

LEMMA BudgetStep ==
  ASSUME TypeOK, TypeOK', CopyInv, PublishInv, BudgetInv, [Next]_vars
  PROVE  BudgetInv'
<1>s. \A n \in Notifications : sched'[n] = "none" => sched[n] = "none"
  BY StaysScheduled
<1>1. ASSUME UNCHANGED <<attempts, retryCount, pc, held, snap, result, mqUp, phase>>,
             faults' = faults \/ faults' = faults + 1,
             \A m \in Copies : loc[m] \in {"acked", "dead"} => loc'[m] \in {"acked", "dead"}
      PROVE  BudgetInv'
  <2>1. CASE faults' = faults
    <3>1. Concluding' = Concluding
      BY <1>1 DEF Concluding, GivesUp, MayRetry
    <3> QED BY <1>s, <1>1, <2>1, <3>1, BudgetFrame DEF BeforeSend
  <2>2. CASE faults' = faults + 1
    BY <1>s, <1>1, <2>2, BudgetFault
  <2> QED BY <1>1, <2>1, <2>2
<1>2. ASSUME NEW n \in Notifications, Published(n),
             UNCHANGED <<attempts, retryCount, pc, held, snap, result, mqUp, phase>>
      PROVE  BudgetInv'
  <2>1. \A m \in Copies : loc[m] \in {"acked", "dead"} => loc'[m] \in {"acked", "dead"}
    BY <1>2, PublishedNew
  <2> QED BY <1>1, <1>2, <2>1 DEF Published, Fault
<1>3. ASSUME UNCHANGED <<attempts, retryCount, pc, held, snap, result, mqUp, phase, loc>>,
             faults' = faults \/ faults' = faults + 1
      PROVE  BudgetInv'
  BY <1>1, <1>3
<1>4. CASE Api
  BY <1>2, <1>3, <1>4 DEF Api, Create, CreateBatch, Insert, ApiSkip, ApiPublish, ApiPublishError, ApiMark, ApiMarkError, Cancel,
                          PublishFailed, Fault, rowVars, mqVars, workerVars, histVars
<1>5. CASE Scheduler
  BY <1>2, <1>3, <1>5 DEF Scheduler, SchedPoll, SchedPublish, SchedPublishError, SchedMark, SchedMarkError,
                          StatementFails, PublishFailed, Fault, rowVars, mqVars, workerVars, histVars
<1>6. CASE Environment
  <2>1. ASSUME NEW w \in Workers, NEW m \in Copies, Deliver(w, m) PROVE BudgetInv'
    <3>1. /\ UNCHANGED <<attempts, retryCount, faults, mqUp, phase, snap, result>>
          /\ mqUp /\ pc[w] = "idle" /\ loc[m] = "ready"
      BY <2>1 DEF Deliver, rowVars, histVars
    <3>2. \A k \in Copies : loc[k] \in {"acked", "dead"} => loc'[k] \in {"acked", "dead"}
      BY <2>1 DEF TypeOK, Deliver
    <3>3. pc'[w] = "read" /\ \A v \in Workers : v # w => pc'[v] = pc[v] /\ held'[v] = held[v]
      BY <2>1 DEF TypeOK, Deliver, Goto
    <3>4. \A v \in Concluding : v \in Concluding' /\ held'[v] = held[v]
      BY <3>1, <3>3 DEF Concluding, GivesUp, MayRetry
    <3> QED BY <1>s, <3>1, <3>2, <3>3, <3>4, BudgetFrame
  <2>2. CASE Crash
    <3>1. faults' = faults + 1 /\ UNCHANGED <<attempts, retryCount>> /\ \A w \in Workers : pc'[w] = "idle"
      BY <2>2 DEF Crash, Fault, Fresh, rowVars, histVars
    <3> QED BY <1>s, <3>1, BudgetFault DEF BeforeSend
  <2>3. CASE ConnectionLost \/ Sigterm
    BY <1>s, <2>3, BudgetFault DEF ConnectionLost, Sigterm, Fault, rowVars, workerVars, histVars
  <2>4. CASE CancelConsumer
    <3>1. UNCHANGED <<attempts, retryCount, sched, faults, mqUp, loc, pc, held, result, snap>> /\ CtxDone /\ CtxDone'
      BY <2>4 DEF CancelConsumer, CtxDone, rowVars, mqVars, workerVars, histVars
    <3>2. Concluding' = Concluding
      BY <3>1 DEF Concluding, GivesUp, MayRetry
    <3> QED BY <3>1, <3>2 DEF BudgetInv, Unscheduled
  <2>5. CASE Exit
    <3>1. /\ UNCHANGED <<attempts, retryCount, sched, faults>> /\ loc' = TakenBack
          /\ \A w \in Workers : pc[w] = "idle" /\ pc'[w] = "idle"
      BY <2>5 DEF Exit, Fresh, rowVars, histVars
    <3>2. \A m \in Copies : loc[m] \in {"acked", "dead"} => loc'[m] \in {"acked", "dead"}
      BY <3>1 DEF TakenBack
    <3>3. Concluding = {} /\ \A n \in Notifications : <<n, 1>> \in Copies
      BY <3>1 DEF Concluding, Copies
    <3> QED BY <3>1, <3>2, <3>3 DEF BudgetInv, Unscheduled, BeforeSend
  <2>6. CASE \E n \in Notifications : FallsDue(n)
    BY <1>3, <2>6 DEF FallsDue, mqVars, workerVars, histVars
  <2> QED BY <1>6, <2>1, <2>2, <2>3, <2>4, <2>5, <2>6 DEF Environment
<1>7. CASE UNCHANGED vars
  BY <1>3, <1>7 DEF vars, rowVars, mqVars, workerVars, histVars
<1> QED BY <1>4, <1>5, <1>6, <1>7, BudgetProcess DEF Next

\* The requests made for an unscheduled notification stay within the retries its
\* row counts, one more, and one per failure; the last one of that budget is the
\* last one made.
THEOREM RequestsCounted == Spec => []BudgetInv
<1>1. Init => BudgetInv
  BY DEF Init, BudgetInv, CtxDone, BeforeSend
<1>2. TypeOK /\ TypeOK' /\ CopyInv /\ PublishInv /\ BudgetInv /\ [Next]_vars => BudgetInv'
  BY BudgetStep
<1> QED BY <1>1, <1>2, TypeCorrect, CopiesHeld, PublishedByOne, PTL DEF Spec

\* An unscheduled notification costs at most MAX_RETRIES + 1 requests, plus one
\* per failure.
THEOREM RequestsBounded == Spec => []RetryBudget
<1>1. TypeOK /\ RetryBound /\ BudgetInv => RetryBudget
  BY DEF TypeOK, RetryBound, BudgetInv, RetryBudget
<1> QED BY <1>1, TypeCorrect, RetriesBounded, RequestsCounted, PTL

-----------------------------------------------------------------------------
(* Cancellation before publishing *)

\* Nothing is ever unpublished, and only the two publish actions publish.
LEMMA PublishGrows ==
  ASSUME TypeOK, [Next]_vars
  PROVE  \/ UNCHANGED pub
         \/ \E n \in Notifications : Published(n) /\ pub' = [pub EXCEPT ![n] = @ + 1]
                                     /\ (n \in schedList \/ \E c \in Clients : n \in apiTodo[c])
<1>1. CASE Api
  BY <1>1 DEF Api, Create, CreateBatch, Insert, ApiSkip, ApiPublish, ApiPublishError, ApiMark, ApiMarkError, Cancel,
              Published, Put, mqVars
<1>2. CASE Scheduler
  BY <1>2 DEF Scheduler, SchedPoll, SchedPublish, SchedPublishError, SchedMark, SchedMarkError, Published, Put, mqVars
<1>3. CASE Environment \/ UNCHANGED vars
  BY <1>3 DEF Environment, FallsDue, Deliver, Crash, Exit, ConnectionLost, Sigterm, CancelConsumer, vars, mqVars
<1>4. ASSUME NEW w \in Workers, Process(w) PROVE UNCHANGED pub
  BY <1>4 DEF Process, Read, ReadError, BackoffOver, BackoffInterrupted, MarkProcessing, MarkProcessingError,
         GatePass, GateDeny, Send, SendCancelled, SendReplyLost, SendUnknown, UpdateSent, IncrementRetry,
         UpdateFailed, SettleError, Finish, SendAgain, Announce, Requeue, mqVars
<1> QED BY <1>1, <1>2, <1>3, <1>4 DEF Next

LEMMA MarkStep == ASSUME TypeOK, MarkInv, [Next]_vars PROVE MarkInv'
<1>1. \A n \in Notifications : pub[n] \in Nat /\ pub'[n] \in Nat /\ pub[n] <= pub'[n]
  BY PublishGrows DEF TypeOK
<1>2. ASSUME \A c \in Clients : apiMark'[c] \in {apiMark[c], None}, schedMark' \in {schedMark, None} PROVE MarkInv'
  BY <1>1, <1>2 DEF TypeOK, MarkInv
<1>3. ASSUME NEW n \in Notifications, Published(n) PROVE pub'[n] > 0
  BY <1>3 DEF TypeOK, Published, Put
<1>4. CASE Api
  <2>1. ASSUME NEW c \in Clients, NEW n \in Notifications, ApiPublish(c, n) PROVE MarkInv'
    <3>1. pub'[n] > 0 /\ UNCHANGED schedMark /\ apiMark' = [apiMark EXCEPT ![c] = n]
      BY <1>3, <2>1 DEF ApiPublish, schedVars
    <3> QED BY <1>1, <3>1 DEF TypeOK, MarkInv
  <2>2. ASSUME NEW c \in Clients, ApiMark(c) \/ ApiMarkError(c) PROVE MarkInv'
    BY <1>2, <2>2 DEF TypeOK, ApiMark, ApiMarkError, schedVars
  <2> QED BY <1>2, <1>4, <2>1, <2>2 DEF Api, Create, CreateBatch, Insert, ApiSkip, ApiPublishError, Cancel, apiVars, schedVars
<1>5. CASE Scheduler
  <2>1. ASSUME NEW n \in Notifications, SchedPublish(n) PROVE MarkInv'
    <3>1. pub'[n] > 0 /\ UNCHANGED apiMark /\ schedMark' = n
      BY <1>3, <2>1 DEF SchedPublish, apiVars
    <3> QED BY <1>1, <3>1 DEF TypeOK, MarkInv
  <2> QED BY <1>2, <1>5, <2>1 DEF Scheduler, SchedPoll, SchedPublishError, SchedMark, SchedMarkError, apiVars
<1>6. CASE Environment \/ UNCHANGED vars
  BY <1>2, <1>6 DEF Environment, FallsDue, Deliver, Crash, Exit, Fresh, ConnectionLost, Sigterm, CancelConsumer, vars,
                    apiVars, schedVars
<1>7. ASSUME NEW w \in Workers, Process(w) PROVE UNCHANGED <<apiMark, schedMark>>
  BY <1>7 DEF Process, Read, ReadError, BackoffOver, BackoffInterrupted, MarkProcessing, MarkProcessingError,
         GatePass, GateDeny, Send, SendCancelled, SendReplyLost, SendUnknown, UpdateSent, IncrementRetry,
         UpdateFailed, RecordFailed, SettleError, Finish, SendAgain, Announce, apiVars, schedVars
<1> QED BY <1>2, <1>4, <1>5, <1>6, <1>7 DEF Next

\* One step keeps a notification that was cancelled in time out of every
\* publisher's hands, and nobody overwrites its status.
LEMMA CancelStep ==
  ASSUME TypeOK, CopyInv, MarkInv, [Next]_vars, NEW n \in Notifications, status[n] = "cancelled", NotInHand(n)
  PROVE  status'[n] = "cancelled" /\ NotInHand(n)'
<1>1. pub'[n] = 0
  BY PublishGrows DEF TypeOK, NotInHand
<1>2. n \notin schedList' /\ \A c \in Clients : n \notin apiTodo'[c]
  <2>1. CASE Api
    <3>1. ASSUME NEW c \in Clients, NEW S \in SUBSET Notifications, NEW when, CreateBatch(c, S, when)
          PROVE  n \notin schedList' /\ \A d \in Clients : n \notin apiTodo'[d]
      <4>1. n \notin S /\ UNCHANGED schedList /\ apiTodo' = [apiTodo EXCEPT ![c] = S]
        BY <3>1 DEF CreateBatch, Insert, schedVars
      <4> QED BY <4>1 DEF TypeOK, NotInHand
    <3>2. ASSUME NEW c \in Clients, NEW k \in Notifications, NEW when \in {"none", "future", "due"}, Create(c, k, when)
          PROVE  n \notin schedList' /\ \A d \in Clients : n \notin apiTodo'[d]
      BY <3>1, <3>2 DEF Create
    <3>3. ASSUME NEW c \in Clients, NEW k \in Notifications, ApiSkip(c, k) \/ ApiPublish(c, k) \/ ApiPublishError(c, k)
          PROVE  n \notin schedList' /\ \A d \in Clients : n \notin apiTodo'[d]
      <4>1. UNCHANGED schedList /\ apiTodo' = [apiTodo EXCEPT ![c] = @ \ {k}]
        BY <3>3 DEF ApiSkip, ApiPublish, ApiPublishError, schedVars
      <4> QED BY <4>1 DEF TypeOK, NotInHand
    <3>4. CASE (\E c \in Clients : ApiMark(c) \/ ApiMarkError(c)) \/ \E k \in Notifications : Cancel(k)
      BY <3>4 DEF ApiMark, ApiMarkError, Cancel, apiVars, schedVars, NotInHand
    <3> QED BY <2>1, <3>1, <3>2, <3>3, <3>4 DEF Api
  <2>2. CASE Scheduler
    BY <2>2 DEF Scheduler, SchedPoll, ScheduledReady, SchedPublish, SchedPublishError, SchedMark, SchedMarkError,
                apiVars, NotInHand
  <2>3. CASE Environment \/ UNCHANGED vars
    BY <2>3 DEF Environment, FallsDue, Deliver, Crash, Exit, Fresh, ConnectionLost, Sigterm, CancelConsumer, vars,
                apiVars, schedVars, NotInHand
  <2>4. ASSUME NEW w \in Workers, Process(w) PROVE UNCHANGED <<apiTodo, schedList>>
    BY <2>4 DEF Process, Read, ReadError, BackoffOver, BackoffInterrupted, MarkProcessing, MarkProcessingError,
         GatePass, GateDeny, Send, SendCancelled, SendReplyLost, SendUnknown, UpdateSent, IncrementRetry,
         UpdateFailed, RecordFailed, SettleError, Finish, SendAgain, Announce, apiVars, schedVars
  <2> QED BY <2>1, <2>2, <2>3, <2>4 DEF Next, NotInHand
<1>3. status'[n] = "cancelled"
  <2>1. CASE Api
    <3>1. ASSUME NEW c \in Clients, ApiMark(c) PROVE status'[n] = "cancelled"
      BY <3>1 DEF TypeOK, MarkInv, NotInHand, ApiMark, UpdateStatus
    <3>2. ASSUME NEW k \in Notifications, Cancel(k) PROVE status'[n] = "cancelled"
      BY <3>2 DEF TypeOK, Cancel
    <3> QED BY <2>1, <3>1, <3>2 DEF Api, Create, CreateBatch, Insert, ApiSkip, ApiPublish, ApiPublishError, ApiMarkError, rowVars
  <2>2. CASE Scheduler
    <3>1. ASSUME SchedMark PROVE status'[n] = "cancelled"
      BY <3>1 DEF TypeOK, MarkInv, NotInHand, SchedMark, UpdateStatus
    <3> QED BY <2>2, <3>1 DEF Scheduler, SchedPoll, SchedPublish, SchedPublishError, SchedMarkError, rowVars
  <2>3. CASE Environment \/ UNCHANGED vars
    BY <2>3 DEF Environment, FallsDue, Deliver, Crash, Exit, ConnectionLost, Sigterm, CancelConsumer, vars, rowVars
  <2>4. ASSUME NEW w \in Workers, Process(w) PROVE status'[n] = "cancelled"
    <3>1. \/ UNCHANGED status
          \/ pc[w] # "idle" /\ \E s \in {"processing", "sent", "failed"} : status' = [status EXCEPT ![held[w][1]] = s]
      BY <2>4 DEF Process, Read, ReadError, BackoffOver, BackoffInterrupted, MarkProcessing, MarkProcessingError,
         GatePass, GateDeny, Send, SendCancelled, SendReplyLost, SendUnknown, UpdateSent, IncrementRetry,
         UpdateFailed, RecordFailed, SettleError, Finish, SendAgain, Announce, UpdateStatus, RecordSent, Handled, rowVars
    <3>2. pc[w] # "idle" => held[w][1] # n
      BY DEF TypeOK, CopyInv, Copies, NotInHand
    <3> QED BY <3>1, <3>2 DEF TypeOK
  <2> QED BY <2>1, <2>2, <2>3, <2>4 DEF Next
<1> QED BY <1>1, <1>2, <1>3 DEF NotInHand

\* Whoever will mark a notification queued has published it.
THEOREM MarkedAfterPublish == Spec => []MarkInv
<1>1. Init => MarkInv
  BY DEF Init, MarkInv
<1>2. TypeOK /\ MarkInv /\ [Next]_vars => MarkInv'
  BY MarkStep
<1> QED BY <1>1, <1>2, TypeCorrect, PTL DEF Spec

\* A notification cancelled before anyone picked it up for publishing stays
\* cancelled and is never published.
THEOREM CancelledInTime == Spec => CancelBeforePublish
<1>1. TypeOK /\ CopyInv /\ MarkInv /\ [Next]_vars =>
         [\A n \in Notifications :
             status[n] = "cancelled" /\ NotInHand(n) => status'[n] = "cancelled" /\ NotInHand(n)']_vars
  BY CancelStep
<1> QED BY <1>1, TypeCorrect, CopiesHeld, MarkedAfterPublish, PTL DEF Spec, CancelBeforePublish

-----------------------------------------------------------------------------
(* The rows of settled messages, while no statement fails *)

\* A step that settles nothing and leaves the outcomes in the rows.
LEMMA RecordFrame ==
  ASSUME TypeOK, RecordInv, UNCHANGED phase,
         \A n \in Notifications : (sentAt[n] => sentAt'[n]) /\ (failedAt[n] => failedAt'[n]),
         \A m \in Copies : loc'[m] \in {"acked", "dead"} => loc'[m] = loc[m],
         \A w \in Workers : pc'[w] = "ack" =>
            pc[w] = "ack" /\ held'[w] = held[w] /\ result'[w] = result[w] /\ snap'[w] = snap[w]
  PROVE  RecordInv'
<1>1. \A w \in Workers : pc[w] = "ack" => held[w][1] \in Notifications
  BY DEF TypeOK, Copies
<1>2. \A m \in Copies : m[1] \in Notifications
  BY DEF Copies
<1>3. \A w \in Workers : pc'[w] = "ack" => (GivesUp(w)' <=> GivesUp(w))
  BY DEF GivesUp, MayRetry
<1>4. phase' = "up" /\ SettledIsRecorded'
  BY <1>2 DEF RecordInv, SettledIsRecorded
<1>5. ASSUME NEW w \in Workers, pc'[w] = "ack"
      PROVE  (result'[w] = "ok" => sentAt'[held'[w][1]]) /\ (GivesUp(w)' => failedAt'[held'[w][1]])
  BY <1>1, <1>3, <1>5 DEF RecordInv
<1> QED BY <1>4, <1>5 DEF RecordInv

LEMMA RecordProcess ==
  ASSUME "db" \notin Faults, TypeOK, RecordInv, NEW w \in Workers, Process(w)
  PROVE  RecordInv'
<1>n. pc[w] # "idle" => held[w] \in Copies /\ held[w][1] \in Notifications
  BY DEF TypeOK, Copies
<1>1. ~CtxDone /\ ~StatementFails
  BY DEF RecordInv, CtxDone, StatementFails, Fault
<1>2. CASE Read(w) \/ BackoffOver(w) \/ MarkProcessing(w) \/ GatePass(w)
  <2>1. UNCHANGED <<phase, sentAt, failedAt, loc, held, result>>
    BY <1>2 DEF Read, BackoffOver, MarkProcessing, GatePass, rowVars, mqVars
  <2>2. \A v \in Workers : pc'[v] = "ack" => pc[v] = "ack" /\ snap'[v] = snap[v]
    BY <1>2 DEF TypeOK, Read, BackoffOver, MarkProcessing, GatePass, Goto
  <2> QED BY <2>1, <2>2, RecordFrame
<1>3. CASE Send(w) \/ SendCancelled(w) \/ SendReplyLost(w)
  <2>1. UNCHANGED <<phase, sentAt, failedAt, loc, held, snap>>
    BY <1>3 DEF Send, SendCancelled, SendReplyLost, rowVars, mqVars
  <2>2. \A v \in Workers : pc'[v] = "ack" => pc[v] = "ack" /\ result'[v] = result[v]
    BY <1>3 DEF TypeOK, Send, SendCancelled, SendReplyLost, Goto
  <2> QED BY <2>1, <2>2, RecordFrame
<1>4. CASE SendUnknown(w)
  <2>1. /\ UNCHANGED <<phase, sentAt, failedAt, loc, held, snap>>
        /\ result' = [result EXCEPT ![w] = "unknown"] /\ pc' = [pc EXCEPT ![w] = "ack"]
    BY <1>4 DEF SendUnknown, Goto, rowVars, mqVars
  <2>2. /\ result'[w] = "unknown"
        /\ \A v \in Workers : v # w => pc'[v] = pc[v] /\ result'[v] = result[v]
    BY <2>1 DEF TypeOK
  <2> QED BY <2>1, <2>2 DEF RecordInv, SettledIsRecorded, GivesUp, MayRetry
<1>5. CASE UpdateSent(w) \/ IncrementRetry(w) \/ UpdateFailed(w) \/ SettleError(w)
  <2>1. /\ UNCHANGED <<phase, loc, held, snap, result>> /\ pc[w] = "settle" /\ pc' = [pc EXCEPT ![w] = "ack"]
        /\ sentAt' = sentAt \/ sentAt' = [sentAt EXCEPT ![held[w][1]] = TRUE]
        /\ failedAt' = failedAt \/ failedAt' = [failedAt EXCEPT ![held[w][1]] = TRUE]
    BY <1>1, <1>5 DEF UpdateSent, IncrementRetry, UpdateFailed, SettleError, RecordSent, RecordFailed, Handled, Goto, mqVars
  <2>2. /\ result[w] = "ok" => sentAt' = [sentAt EXCEPT ![held[w][1]] = TRUE]
        /\ GivesUp(w) => failedAt' = [failedAt EXCEPT ![held[w][1]] = TRUE]
    BY <1>1, <1>5 DEF UpdateSent, IncrementRetry, UpdateFailed, SettleError, RecordSent, RecordFailed, Handled,
                      GivesUp, Retries
  <2>3. pc'[w] = "ack" /\ \A v \in Workers : v # w => pc'[v] = pc[v]
    BY <2>1 DEF TypeOK
  <2>4. \A n \in Notifications : (sentAt[n] => sentAt'[n]) /\ (failedAt[n] => failedAt'[n])
    BY <2>1 DEF TypeOK
  <2>5. (result[w] = "ok" => sentAt'[held[w][1]]) /\ (GivesUp(w) => failedAt'[held[w][1]])
    BY <1>n, <2>1, <2>2 DEF TypeOK
  <2>6. \A v \in Workers : pc[v] = "ack" => held[v][1] \in Notifications
    BY DEF TypeOK, Copies
  <2>7. \A m \in Copies : m[1] \in Notifications
    BY DEF Copies
  <2>8. SettledIsRecorded'
    BY <2>1, <2>4, <2>7 DEF RecordInv, SettledIsRecorded
  <2>9. \A v \in Workers : pc'[v] = "ack" =>
          (result[v] = "ok" => sentAt'[held[v][1]]) /\ (GivesUp(v) => failedAt'[held[v][1]])
    BY <2>3, <2>4, <2>5, <2>6 DEF RecordInv
  <2> QED BY <2>1, <2>8, <2>9 DEF RecordInv, GivesUp, MayRetry
<1>6. CASE Finish(w)
  <2>1. /\ UNCHANGED <<phase, sentAt, failedAt, held, snap, result>>
        /\ pc[w] = "ack" /\ pc' = [pc EXCEPT ![w] = "announce"] /\ (result[w] = "ok" \/ GivesUp(w))
        /\ loc' = IF mqUp THEN [loc EXCEPT ![held[w]] = Verdict(w)] ELSE loc
    BY <1>6 DEF Finish, Resolve, Goto, rowVars
  <2>2. /\ Verdict(w) = "acked" => result[w] = "ok" /\ sentAt[held[w][1]]
        /\ Verdict(w) = "dead" => GivesUp(w) /\ failedAt[held[w][1]]
    BY <2>1 DEF Verdict, RecordInv, GivesUp
  <2>3. \A v \in Workers : pc'[v] = "ack" => pc[v] = "ack"
    BY <2>1 DEF TypeOK
  <2>4. SettledIsRecorded'
    BY <1>n, <2>1, <2>2 DEF TypeOK, RecordInv, SettledIsRecorded
  <2> QED BY <2>1, <2>3, <2>4 DEF RecordInv, GivesUp, MayRetry
<1>7. CASE ReadError(w) \/ BackoffInterrupted(w) \/ MarkProcessingError(w) \/ GateDeny(w) \/ SendAgain(w) \/ Announce(w)
  <2>1. /\ UNCHANGED <<phase, sentAt, failedAt>> /\ Free(w)
        /\ loc' = loc \/ (pc[w] # "idle" /\ loc' = [loc EXCEPT ![held[w]] = "ready"])
    BY <1>7 DEF ReadError, BackoffInterrupted, MarkProcessingError, GateDeny, SendAgain, Announce, Requeue, Resolve,
                rowVars, mqVars
  <2>2. \A m \in Copies : loc'[m] \in {"acked", "dead"} => loc'[m] = loc[m]
    BY <1>n, <2>1 DEF TypeOK
  <2>3. \A v \in Workers : pc'[v] = "ack" =>
           pc[v] = "ack" /\ held'[v] = held[v] /\ result'[v] = result[v] /\ snap'[v] = snap[v]
    BY <2>1 DEF TypeOK, Free
  <2> QED BY <2>1, <2>2, <2>3, RecordFrame
<1> QED BY <1>2, <1>3, <1>4, <1>5, <1>6, <1>7 DEF Process

LEMMA RecordStep ==
  ASSUME "db" \notin Faults, "sigterm" \notin Faults, TypeOK, RecordInv, [Next]_vars
  PROVE  RecordInv'
<1>1. ASSUME UNCHANGED <<phase, sentAt, failedAt, workerVars>>,
             \A m \in Copies : loc'[m] \in {"acked", "dead"} => loc'[m] = loc[m]
      PROVE  RecordInv'
  BY <1>1, RecordFrame DEF workerVars
<1>2. ASSUME NEW n \in Notifications, Published(n), UNCHANGED <<phase, sentAt, failedAt, workerVars>>
      PROVE  RecordInv'
  <2>1. \A m \in Copies : loc'[m] \in {"acked", "dead"} => loc'[m] = loc[m]
    BY <1>2 DEF TypeOK, Published, Put
  <2> QED BY <1>1, <1>2, <2>1
<1>3. ASSUME UNCHANGED <<phase, sentAt, failedAt, workerVars, loc>> PROVE RecordInv'
  BY <1>1, <1>3
<1>4. CASE Api
  BY <1>2, <1>3, <1>4 DEF Api, Create, CreateBatch, Insert, ApiSkip, ApiPublish, ApiPublishError, ApiMark, ApiMarkError, Cancel,
                          rowVars, mqVars
<1>5. CASE Scheduler
  BY <1>2, <1>3, <1>5 DEF Scheduler, SchedPoll, SchedPublish, SchedPublishError, SchedMark, SchedMarkError, rowVars, mqVars
<1>6. CASE Environment
  <2>1. ASSUME NEW w \in Workers, NEW m \in Copies, Deliver(w, m) PROVE RecordInv'
    <3>1. UNCHANGED <<phase, sentAt, failedAt, result, snap>>
      BY <2>1 DEF Deliver, rowVars
    <3>2. \A k \in Copies : loc'[k] \in {"acked", "dead"} => loc'[k] = loc[k]
      BY <2>1 DEF TypeOK, Deliver
    <3>3. \A v \in Workers : pc'[v] = "ack" => pc[v] = "ack" /\ held'[v] = held[v]
      BY <2>1 DEF TypeOK, Deliver, Goto
    <3> QED BY <3>1, <3>2, <3>3, RecordFrame
  <2>2. CASE Crash \/ Exit
    <3>1. /\ UNCHANGED <<sentAt, failedAt>> /\ phase' = "up" /\ loc' = TakenBack
          /\ \A w \in Workers : pc'[w] = "idle"
      BY <2>2 DEF Crash, Exit, Fresh, rowVars
    <3> QED BY <3>1 DEF RecordInv, SettledIsRecorded, TakenBack
  <2>3. CASE ConnectionLost
    <3>1. \A m \in Copies : loc'[m] \in {"acked", "dead"} => loc'[m] = loc[m]
      BY <2>3 DEF ConnectionLost, TakenBack
    <3> QED BY <1>1, <2>3, <3>1 DEF ConnectionLost, rowVars
  <2>4. ~Sigterm /\ ~CancelConsumer
    BY DEF Sigterm, CancelConsumer, Fault, RecordInv
  <2>5. CASE \E n \in Notifications : FallsDue(n)
    BY <1>3, <2>5 DEF FallsDue, mqVars
  <2> QED BY <1>6, <2>1, <2>2, <2>3, <2>4, <2>5 DEF Environment
<1>7. CASE UNCHANGED vars
  BY <1>3, <1>7 DEF vars, rowVars, mqVars
<1> QED BY <1>4, <1>5, <1>6, <1>7, RecordProcess DEF Next

\* While no statement fails, by itself or because a shutdown cancelled its
\* context, an acknowledged message has sent_at recorded and a dead-lettered one
\* failed_at: whatever the process, the broker and the provider do.
THEOREM SettledAndRecorded ==
  ASSUME "db" \notin Faults, "sigterm" \notin Faults
  PROVE  Spec => []SettledIsRecorded
<1>1. Init => RecordInv
  BY DEF Init, RecordInv, SettledIsRecorded
<1>2. TypeOK /\ RecordInv /\ [Next]_vars => RecordInv'
  BY RecordStep
<1>3. RecordInv => SettledIsRecorded
  BY DEF RecordInv
<1> QED BY <1>1, <1>2, <1>3, TypeCorrect, PTL DEF Spec

-----------------------------------------------------------------------------
(* The last word of the feed, while the connection to the broker stays *)

\* A step that announces nothing: who holds a settled message is the one who
\* settled it, and nobody takes it up again.
LEMMA FeedFrame ==
  ASSUME TypeOK, FeedInv, UNCHANGED mqUp,
         \A n \in Notifications : sched'[n] = "none" => sched[n] = "none",
         \A n \in Notifications : feed'[n] \in {"sent", "failed"} => feed'[n] = feed[n],
         \A m \in Copies : loc[m] \in {"acked", "dead"} => loc'[m] = loc[m],
         \A w \in Workers : pc'[w] # "idle" =>
            \/ pc[w] # "idle" /\ held'[w] = held[w] /\ (pc'[w] = "announce" => pc[w] = "announce")
            \/ pc'[w] # "announce" /\ held'[w] \in Copies /\ loc[held'[w]] = "ready"
  PROVE  FeedInv'
<1>1. \A n \in Notifications : <<n, 1>> \in Copies
  BY DEF Copies
<1>2. \A w \in Workers : pc[w] # "idle" => held[w] \in Copies
  BY DEF TypeOK
<1>3. \A w \in Workers : pc'[w] = "announce" => pc[w] = "announce" /\ held'[w] = held[w]
  OBVIOUS
<1>4. \A n \in Notifications : sched'[n] = "none" /\ feed'[n] \in {"sent", "failed"} =>
         /\ loc'[<<n, 1>>] \in {"acked", "dead"}
         /\ \A w \in Workers : pc'[w] # "idle" => held'[w] # <<n, 1>>
  <2>1. SUFFICES ASSUME NEW n \in Notifications, sched'[n] = "none", feed'[n] \in {"sent", "failed"}
                 PROVE  /\ loc'[<<n, 1>>] \in {"acked", "dead"}
                        /\ \A w \in Workers : pc'[w] # "idle" => held'[w] # <<n, 1>>
    OBVIOUS
  <2>2. /\ loc[<<n, 1>>] \in {"acked", "dead"}
        /\ \A w \in Workers : pc[w] # "idle" => held[w] # <<n, 1>>
    BY <2>1 DEF FeedInv, Unscheduled
  <2> QED BY <1>1, <2>2
<1>5. mqUp' /\ \A w \in Workers : pc'[w] = "announce" => loc'[held'[w]] \in {"acked", "dead"}
  BY <1>2, <1>3 DEF FeedInv
<1>6. \A v, w \in Workers : pc'[v] = "announce" /\ pc'[w] = "announce" /\ held'[v] = held'[w] => v = w
  BY <1>3 DEF FeedInv
<1> QED BY <1>4, <1>5, <1>6 DEF FeedInv, Unscheduled

\* A goroutine with a message in hand works on a notification whose outcome was
\* not announced.
LEMMA NotAnnounced ==
  ASSUME TypeOK, CopyInv, PublishInv, FeedInv, NEW w \in Workers, pc[w] # "idle", Unscheduled(held[w][1])
  PROVE  held[w][1] \in Notifications /\ feed[held[w][1]] \notin {"sent", "failed"}
<1>1. held[w][1] \in Notifications
  BY DEF TypeOK, Copies
<1>2. held[w] = <<held[w][1], 1>>
  BY OnlyCopy
<1> QED BY <1>1, <1>2 DEF FeedInv

\* What a goroutine does to the feed.
LEMMA FeedTold ==
  ASSUME TypeOK, NEW w \in Workers, Process(w)
  PROVE  \/ UNCHANGED feed
         \/ /\ pc[w] # "idle"
            /\ \E s \in {"processing", "sent", "failed"} :
                  /\ feed' = [feed EXCEPT ![held[w][1]] = s]
                  /\ s # "processing" => Announce(w)
<1>1. CASE Announce(w)
  BY <1>1 DEF Announce, Tell, Handled
<1>2. CASE GatePass(w) \/ GateDeny(w)
  BY <1>2 DEF GatePass, GateDeny, Tell, Handled
<1>3. CASE ~Announce(w) /\ ~GatePass(w) /\ ~GateDeny(w)
  BY <1>3 DEF Process, Read, ReadError, BackoffOver, BackoffInterrupted, MarkProcessing, MarkProcessingError,
         Send, SendCancelled, SendReplyLost, SendUnknown, UpdateSent, IncrementRetry,
         UpdateFailed, SettleError, Finish, SendAgain, histVars
<1> QED BY <1>1, <1>2, <1>3

LEMMA FeedProcess ==
  ASSUME TypeOK, CopyInv, PublishInv, FeedInv, NEW w \in Workers, Process(w)
  PROVE  FeedInv'
<1>n. pc[w] # "idle" => held[w] \in Copies
  BY DEF TypeOK
<1>0. UNCHANGED <<mqUp, sched>>
  BY DEF Process, Read, ReadError, BackoffOver, BackoffInterrupted, MarkProcessing, MarkProcessingError,
         GatePass, GateDeny, Send, SendCancelled, SendReplyLost, SendUnknown, UpdateSent, IncrementRetry,
         UpdateFailed, RecordFailed, SettleError, Finish, SendAgain, Announce, rowVars
<1>1. ~Announce(w) => \A n \in Notifications : feed'[n] \in {"sent", "failed"} => feed'[n] = feed[n]
  BY FeedTold DEF TypeOK
<1>2. CASE \/ Read(w) \/ BackoffOver(w) \/ MarkProcessing(w) \/ GatePass(w)
           \/ Send(w) \/ SendCancelled(w) \/ SendReplyLost(w) \/ SendUnknown(w)
           \/ UpdateSent(w) \/ IncrementRetry(w) \/ UpdateFailed(w) \/ SettleError(w)
  <2>1. UNCHANGED <<loc, held>> /\ pc[w] \notin {"idle", "announce"} /\ (\E s \in Working : pc' = [pc EXCEPT ![w] = s])
    BY <1>2 DEF Read, BackoffOver, MarkProcessing, GatePass, Send, SendCancelled, SendReplyLost, SendUnknown,
                UpdateSent, IncrementRetry, UpdateFailed, RecordFailed, SettleError, Goto, Working, mqVars
  <2>2. ~Announce(w)
    BY <2>1 DEF Announce
  <2>3. \A v \in Workers : pc'[v] # "idle" => pc[v] # "idle" /\ (pc'[v] = "announce" => pc[v] = "announce")
    BY <2>1 DEF TypeOK, Working
  <2> QED BY <1>0, <1>1, <2>1, <2>2, <2>3, FeedFrame
<1>3. CASE ReadError(w) \/ BackoffInterrupted(w) \/ MarkProcessingError(w) \/ GateDeny(w) \/ SendAgain(w)
  <2>1. Requeue(w) /\ pc[w] \in Working
    BY <1>3 DEF ReadError, BackoffInterrupted, MarkProcessingError, GateDeny, SendAgain, Working
  <2>2. ~Announce(w)
    BY <2>1 DEF Announce, Working
  <2>3. \A m \in Copies : loc[m] \in {"acked", "dead"} => loc'[m] = loc[m]
    BY <2>1 DEF TypeOK, CopyInv, Requeue, Resolve
  <2>4. \A v \in Workers : pc'[v] # "idle" =>
           pc[v] # "idle" /\ held'[v] = held[v] /\ (pc'[v] = "announce" => pc[v] = "announce")
    BY <2>1 DEF TypeOK, Requeue, Free
  <2> QED BY <1>0, <1>1, <2>2, <2>3, <2>4, FeedFrame
<1>4. CASE Finish(w)
  <2>1. /\ UNCHANGED <<held, feed>> /\ pc[w] = "ack" /\ pc' = [pc EXCEPT ![w] = "announce"]
        /\ loc' = [loc EXCEPT ![held[w]] = Verdict(w)] /\ mqUp
    BY <1>4 DEF Finish, Resolve, Goto, histVars, FeedInv
  <2>2. Verdict(w) \in {"acked", "dead"}
    BY DEF Verdict
  <2>3. pc'[w] = "announce" /\ (\A v \in Workers : v # w => pc'[v] = pc[v]) /\ held[w] \in Copies
    BY <1>n, <2>1 DEF TypeOK
  <2>4. loc[held[w]] = "unacked"
    BY <2>1 DEF CopyInv, Working
  <2>5. \A m \in Copies : loc[m] \in {"acked", "dead"} => loc'[m] = loc[m] /\ m # held[w]
    BY <2>1, <2>4 DEF TypeOK
  <2>6. loc'[held[w]] \in {"acked", "dead"}
    BY <2>1, <2>2, <2>3 DEF TypeOK
  <2>7. \A v \in Workers : pc[v] = "announce" => held[v] \in Copies /\ held[v] # held[w]
    BY <2>5 DEF TypeOK, FeedInv
  <2>8. \A n \in Notifications : <<n, 1>> \in Copies
    BY DEF Copies
  <2>9. \A v \in Workers : pc'[v] = "announce" => loc'[held[v]] \in {"acked", "dead"}
    BY <2>3, <2>5, <2>6, <2>7 DEF FeedInv
  <2>10. \A u, v \in Workers : pc'[u] = "announce" /\ pc'[v] = "announce" /\ held[u] = held[v] => u = v
    BY <2>3, <2>7 DEF FeedInv
  <2>11. \A n \in Notifications : Unscheduled(n) /\ feed[n] \in {"sent", "failed"} =>
            /\ loc'[<<n, 1>>] \in {"acked", "dead"}
            /\ \A v \in Workers : pc'[v] # "idle" => held[v] # <<n, 1>>
    BY <2>1, <2>3, <2>5, <2>8 DEF FeedInv
  <2> QED BY <1>0, <2>1, <2>9, <2>10, <2>11 DEF FeedInv, Unscheduled
<1>5. CASE Announce(w)
  <2> DEFINE k == held[w][1]
  <2>1. Free(w) /\ UNCHANGED loc /\ pc[w] = "announce" /\ mqUp
    BY <1>5 DEF Announce, mqVars, FeedInv
  <2>2. pc'[w] = "idle" /\ \A v \in Workers : v # w => pc'[v] = pc[v] /\ held'[v] = held[v]
    BY <2>1 DEF TypeOK, Free
  <2>3. k \in Notifications /\ held[w] \in Copies /\ (Unscheduled(k) => held[w] = <<k, 1>>)
    BY <1>n, <2>1, OnlyCopy DEF Copies
  <2>4. \A n \in Notifications : n # k => feed'[n] = feed[n]
    BY <2>1, FeedTold DEF TypeOK
  <2>5. loc[held[w]] \in {"acked", "dead"}
    BY <2>1 DEF FeedInv
  <2>6. \A v \in Workers : pc'[v] # "idle" => held'[v] # held[w]
    <3>1. SUFFICES ASSUME NEW v \in Workers, v # w, pc[v] # "idle", held[v] = held[w] PROVE FALSE
      BY <2>2
    <3>2. pc[v] # "announce"
      BY <2>1, <3>1 DEF FeedInv
    <3>3. pc[v] \in Working
      BY <3>1, <3>2 DEF TypeOK, Steps, Working
    <3> QED BY <2>1, <2>5, <3>1, <3>3 DEF CopyInv
  <2> HIDE DEF k
  <2>7. \A n \in Notifications : Unscheduled(n) /\ feed'[n] \in {"sent", "failed"} =>
           /\ loc[<<n, 1>>] \in {"acked", "dead"}
           /\ \A v \in Workers : pc'[v] # "idle" => held'[v] # <<n, 1>>
    <3>1. SUFFICES ASSUME NEW n \in Notifications, Unscheduled(n), feed'[n] \in {"sent", "failed"}
                   PROVE  /\ loc[<<n, 1>>] \in {"acked", "dead"}
                          /\ \A v \in Workers : pc'[v] # "idle" => held'[v] # <<n, 1>>
      OBVIOUS
    <3>2. CASE n = k
      BY <2>3, <2>5, <2>6, <3>1, <3>2
    <3>3. CASE n # k
      BY <2>2, <2>4, <3>1, <3>3 DEF FeedInv
    <3> QED BY <3>2, <3>3
  <2>8. \A v \in Workers : pc'[v] = "announce" => v # w /\ pc[v] = "announce" /\ held'[v] = held[v]
    BY <2>2
  <2> QED BY <1>0, <2>1, <2>7, <2>8 DEF FeedInv, Unscheduled
<1> QED BY <1>2, <1>3, <1>4, <1>5 DEF Process

LEMMA FeedStep ==
  ASSUME "mqLost" \notin Faults, TypeOK, CopyInv, PublishInv, FeedInv, [Next]_vars
  PROVE  FeedInv'
<1>s. \A n \in Notifications : sched'[n] = "none" => sched[n] = "none"
  BY StaysScheduled
<1>1. ASSUME UNCHANGED <<mqUp, pc, held, feed>>,
             \A m \in Copies : loc[m] \in {"acked", "dead"} => loc'[m] = loc[m]
      PROVE  FeedInv'
  BY <1>s, <1>1, FeedFrame
<1>2. ASSUME NEW n \in Notifications, Published(n), UNCHANGED <<mqUp, pc, held, feed>> PROVE FeedInv'
  BY <1>1, <1>2, PublishedNew
<1>3. ASSUME UNCHANGED <<mqUp, pc, held, feed, loc>> PROVE FeedInv'
  BY <1>1, <1>3
<1>4. CASE Api
  BY <1>2, <1>3, <1>4 DEF Api, Create, CreateBatch, Insert, ApiSkip, ApiPublish, ApiPublishError, ApiMark, ApiMarkError, Cancel,
                          mqVars, workerVars, histVars
<1>5. CASE Scheduler
  BY <1>2, <1>3, <1>5 DEF Scheduler, SchedPoll, SchedPublish, SchedPublishError, SchedMark, SchedMarkError,
                          mqVars, workerVars, histVars
<1>6. CASE Environment
  <2>1. ASSUME NEW w \in Workers, NEW m \in Copies, Deliver(w, m) PROVE FeedInv'
    <3>1. UNCHANGED <<mqUp, feed>> /\ loc[m] = "ready"
      BY <2>1 DEF Deliver, histVars
    <3>2. \A k \in Copies : loc[k] \in {"acked", "dead"} => loc'[k] = loc[k]
      BY <2>1 DEF TypeOK, Deliver
    <3>3. pc'[w] = "read" /\ held'[w] = m /\ \A v \in Workers : v # w => pc'[v] = pc[v] /\ held'[v] = held[v]
      BY <2>1 DEF TypeOK, Deliver, Goto
    <3> QED BY <1>s, <3>1, <3>2, <3>3, FeedFrame
  <2>2. CASE Crash \/ Exit
    <3>1. /\ mqUp' = TRUE /\ mqUp /\ UNCHANGED feed /\ loc' = TakenBack
          /\ \A w \in Workers : pc'[w] = "idle"
      BY <2>2 DEF Crash, Exit, Fresh, histVars, FeedInv
    <3>2. \A m \in Copies : loc[m] \in {"acked", "dead"} => loc'[m] = loc[m]
      BY <3>1 DEF TakenBack
    <3>3. UNCHANGED mqUp
      BY <3>1 DEF TypeOK
    <3> QED BY <1>s, <3>1, <3>2, <3>3, FeedFrame
  <2>3. ~ConnectionLost
    BY DEF ConnectionLost, Fault
  <2>4. CASE Sigterm \/ CancelConsumer \/ \E n \in Notifications : FallsDue(n)
    BY <1>3, <2>4 DEF Sigterm, CancelConsumer, FallsDue, mqVars, workerVars, histVars
  <2> QED BY <1>6, <2>1, <2>2, <2>3, <2>4 DEF Environment
<1>7. CASE UNCHANGED vars
  BY <1>3, <1>7 DEF vars, mqVars, workerVars, histVars
<1> QED BY <1>4, <1>5, <1>6, <1>7, FeedProcess DEF Next

\* Only goroutines speak to the feed.
LEMMA FeedSteps ==
  ASSUME TypeOK, [Next]_vars
  PROVE  UNCHANGED feed \/ \E w \in Workers : Process(w)
  BY DEF Next, Api, Create, CreateBatch, Insert, ApiSkip, ApiPublish, ApiPublishError, ApiMark, ApiMarkError, Cancel,
         Scheduler, SchedPoll, SchedPublish, SchedPublishError, SchedMark, SchedMarkError,
         Environment, FallsDue, Deliver, Crash, Exit, ConnectionLost, Sigterm, CancelConsumer, vars, histVars

\* While the connection to the broker stays, "sent" or "failed" is the last word
\* of the WebSocket feed about an unscheduled notification, whatever else fails.
THEOREM LastWord ==
  ASSUME "mqLost" \notin Faults
  PROVE  Spec => FeedFinal
<1>1. Init => FeedInv
  BY DEF Init, FeedInv
<1>2. TypeOK /\ CopyInv /\ PublishInv /\ FeedInv /\ [Next]_vars => FeedInv'
  BY FeedStep
<1>3. TypeOK /\ CopyInv /\ PublishInv /\ FeedInv /\ [Next]_vars =>
        [\A n \in Notifications : Unscheduled(n) /\ feed[n] \in {"sent", "failed"} => feed'[n] = feed[n]]_vars
  <2> SUFFICES ASSUME TypeOK, CopyInv, PublishInv, FeedInv, [Next]_vars, NEW n \in Notifications,
                      Unscheduled(n), feed[n] \in {"sent", "failed"}
               PROVE  feed'[n] = feed[n]
    OBVIOUS
  <2>1. ASSUME NEW w \in Workers, Process(w) PROVE feed'[n] = feed[n]
    <3>1. pc[w] # "idle" => held[w][1] # n
      BY NotAnnounced
    <3> QED BY <2>1, <3>1, FeedTold DEF TypeOK
  <2> QED BY <2>1, FeedSteps
<1> QED BY <1>1, <1>2, <1>3, TypeCorrect, CopiesHeld, PublishedByOne, PTL DEF Spec, FeedFinal

-----------------------------------------------------------------------------
(* Delivery implements AtLeastOnce: each step of the pipeline is mapped to the *)
(* one abstract step it amounts to, or to none.  That messages are settled in  *)
(* the end needs fairness and stays with TLC.                                  *)

\* The invariants the mapping rests on.
MapInv == TypeOK /\ CopyInv /\ PublishInv /\ MarkInv /\ ResultInv /\ DuplicateInv

\* Where a message is, to the abstract specification.
LEMMA Fates ==
  /\ Fate("none") = "none"
  /\ Fate("ready") = "waiting"
  /\ Fate("unacked") = "waiting"
  /\ Fate("acked") = "delivered"
  /\ Fate("dead") = "givenUp"
  /\ Fate("lost") = "lost"
  BY DEF Fate

\* A copy that moves to another place, seen from above.
LEMMA MessageMoved ==
  ASSUME TypeOK, NEW m \in Copies, NEW place, loc' = [loc EXCEPT ![m] = place]
  PROVE  /\ Messages' = [Messages EXCEPT ![m] = Fate(place)]
         /\ Fate(place) = Fate(loc[m]) => Messages' = Messages
<1>1. \A k \in Copies : loc'[k] = IF k = m THEN place ELSE loc[k]
  BY DEF TypeOK
<1>2. Messages' = [k \in Copies |-> Fate(loc'[k])]
  BY DEF Messages, Fate
<1>3. Messages = [k \in Copies |-> Fate(loc[k])]
  BY DEF Messages
<1>4. Messages' = [Messages EXCEPT ![m] = Fate(place)]
  BY <1>1, <1>2, <1>3
<1>5. ASSUME Fate(place) = Fate(loc[m]) PROVE Messages' = Messages
  BY <1>1, <1>2, <1>3, <1>5
<1> QED BY <1>4, <1>5

\* A broker that takes its copies back changes no fate.
LEMMA MessagesKept ==
  ASSUME TypeOK, loc' = TakenBack
  PROVE  Messages' = Messages
<1>1. Messages' = [k \in Copies |-> Fate(loc'[k])]
  BY DEF Messages, Fate
<1>2. \A k \in Copies : Fate(loc'[k]) = Fate(loc[k])
  BY Fates DEF TakenBack
<1> QED BY <1>1, <1>2 DEF Messages

LEMMA MessagesUnchanged == ASSUME UNCHANGED loc PROVE Messages' = Messages
  BY DEF Messages, Fate

\* Nothing but an INSERT stores a notification, and nothing removes one: every
\* other writer of the row holds a notification that was published.
LEMMA StoredFrame ==
  ASSUME MapInv, NEW n \in Notifications, pub[n] > 0, NEW s \in Statuses \ {"absent"},
         status' = [status EXCEPT ![n] = s]
  PROVE  Stored' = Stored
<1>1. status[n] # "absent"
  BY DEF MapInv, PublishInv, TypeOK
<1> QED BY <1>1 DEF MapInv, TypeOK, Stored

\* The abstract step a publish amounts to.
LEMMA MapPublish ==
  ASSUME MapInv, NEW n \in Notifications, Published(n), UNCHANGED <<status, acc>>,
         n \in schedList \/ \E c \in Clients : n \in apiTodo[c]
  PROVE  \E fate \in {"waiting", "lost"} : Promise!Publish(n, fate)
<1>1. n \in Stored
  BY DEF MapInv, PublishInv, TypeOK, Stored
<1>2. Stored' = Stored
  BY DEF Stored
<1>3. pub[n] < MaxCopies /\ pub' = [pub EXCEPT ![n] = @ + 1] /\ <<n, pub[n] + 1>> \in Copies
  BY DEF MapInv, TypeOK, Published, Put, Copies
<1>4. CASE loc' = [loc EXCEPT ![<<n, pub[n] + 1>>] = "ready"] /\ UNCHANGED faults
  <2>1. Messages' = [Messages EXCEPT ![<<n, pub[n] + 1>>] = Fate("ready")]
    BY <1>3, <1>4, MessageMoved DEF MapInv
  <2>2. Promise!Publish(n, "waiting")
    BY <1>1, <1>2, <1>3, <1>4, <2>1, Fates DEF Promise!Publish
  <2> QED BY <2>2
<1>5. CASE loc' = [loc EXCEPT ![<<n, pub[n] + 1>>] = "lost"] /\ faults' = faults + 1
  <2>1. Messages' = [Messages EXCEPT ![<<n, pub[n] + 1>>] = Fate("lost")]
    BY <1>3, <1>5, MessageMoved DEF MapInv
  <2>2. Promise!Publish(n, "lost")
    BY <1>1, <1>2, <1>3, <1>5, <2>1, Fates DEF Promise!Publish
  <2> QED BY <2>2
<1> QED BY <1>4, <1>5 DEF Published, Put, Fault

\* A step that only fails, and one that changes nothing the abstract
\* specification sees.
LEMMA MapQuiet ==
  ASSUME UNCHANGED <<pub, acc>>, Stored' = Stored, Messages' = Messages, faults' = faults \/ faults' = faults + 1
  PROVE  [Promise!Next]_(Promise!avars)
<1>1. CASE faults' = faults
  BY <1>1 DEF Promise!avars
<1>2. CASE faults' = faults + 1
  BY <1>2 DEF Promise!Next, Promise!Fail
<1> QED BY <1>1, <1>2

\* The request of a goroutine that the provider accepts.
LEMMA MapSend ==
  ASSUME MapInv, NEW w \in Workers, pc[w] = "send", UNCHANGED <<status, pub, loc>>,
         acc' = [acc EXCEPT ![held[w]] = @ + 1], faults' = faults \/ faults' = faults + 1
  PROVE  [Promise!Next]_(Promise!avars)
<1>1. held[w] \in Copies /\ Fate(loc[held[w]]) = "waiting"
  BY Fates DEF MapInv, TypeOK, CopyInv, Working
<1>2. Messages[held[w]] = "waiting" /\ Messages' = Messages /\ Stored' = Stored
  BY <1>1, MessagesUnchanged DEF Messages, Stored
<1>3. acc[held[w]] <= faults'
  <2>1. acc[held[w]] <= faults
    BY NotSpent DEF MapInv, BeforeSend
  <2> QED BY <1>1, <2>1 DEF MapInv, TypeOK
<1>4. Promise!Deliver(held[w])
  BY <1>2, <1>3 DEF Promise!Deliver, Promise!MayFail
<1>5. held[w] \in Promise!Messages
  BY <1>1 DEF Copies, Promise!Messages
<1> QED BY <1>4, <1>5 DEF Promise!Next

\* The Ack or Nack that ends a message.
LEMMA MapFinish ==
  ASSUME MapInv, NEW w \in Workers, Finish(w)
  PROVE  [Promise!Next]_(Promise!avars)
<1>1. /\ UNCHANGED <<status, pub, acc, faults>> /\ pc[w] = "ack"
      /\ loc' = IF mqUp THEN [loc EXCEPT ![held[w]] = Verdict(w)] ELSE loc
  BY DEF Finish, Resolve, rowVars, histVars
<1>2. Stored' = Stored
  BY <1>1 DEF Stored
<1>3. CASE ~mqUp
  BY <1>1, <1>2, <1>3, MessagesUnchanged, MapQuiet
<1>4. CASE mqUp
  <2>1. held[w] \in Copies /\ Fate(loc[held[w]]) = "waiting"
    BY <1>1, Fates DEF MapInv, TypeOK, CopyInv, Working
  <2>2. Messages[held[w]] = "waiting" /\ Messages' = [Messages EXCEPT ![held[w]] = Fate(Verdict(w))]
    BY <1>1, <1>4, <2>1, MessageMoved DEF Messages, MapInv
  <2>3. \/ acc[held[w]] > 0 /\ Fate(Verdict(w)) = "delivered"
        \/ Fate(Verdict(w)) = "givenUp"
    BY <1>1, Fates DEF MapInv, ResultInv, Verdict
  <2>4. Promise!Settle(held[w])
    BY <1>1, <1>2, <2>2, <2>3 DEF Promise!Settle
  <2>5. held[w] \in Promise!Messages
    BY <2>1 DEF Copies, Promise!Messages
  <2> QED BY <2>4, <2>5 DEF Promise!Next
<1> QED BY <1>3, <1>4

LEMMA MapProcess ==
  ASSUME MapInv, NEW w \in Workers, Process(w)
  PROVE  [Promise!Next]_(Promise!avars)
<1>n. pc[w] # "idle" => held[w] \in Copies /\ held[w][1] \in Notifications /\ pub[held[w][1]] > 0
  BY DEF MapInv, TypeOK, CopyInv, Copies
<1>1. ASSUME UNCHANGED status \/ \E s \in {"processing", "sent", "failed"} :
                pc[w] # "idle" /\ status' = [status EXCEPT ![held[w][1]] = s]
      PROVE  Stored' = Stored
  <2>1. CASE UNCHANGED status
    BY <2>1 DEF Stored
  <2>2. ASSUME NEW s \in {"processing", "sent", "failed"}, pc[w] # "idle", status' = [status EXCEPT ![held[w][1]] = s]
        PROVE  Stored' = Stored
    BY <1>n, <2>2, StoredFrame DEF Statuses
  <2> QED BY <1>1, <2>1, <2>2
<1>2. CASE \/ Read(w) \/ BackoffOver(w) \/ MarkProcessing(w) \/ GatePass(w) \/ SendUnknown(w)
           \/ UpdateSent(w) \/ IncrementRetry(w) \/ UpdateFailed(w) \/ SettleError(w)
  <2>1. /\ UNCHANGED <<pub, acc, loc>>
        /\ faults' = faults \/ faults' = faults + 1
        /\ UNCHANGED status \/ \E s \in {"processing", "sent", "failed"} :
                pc[w] # "idle" /\ status' = [status EXCEPT ![held[w][1]] = s]
    BY <1>2 DEF Read, BackoffOver, MarkProcessing, GatePass, SendUnknown, UpdateSent, IncrementRetry, UpdateFailed,
                SettleError, StatementFails, Fault, UpdateStatus, RecordSent, RecordFailed, Handled,
                rowVars, mqVars, histVars
  <2> QED BY <1>1, <2>1, MessagesUnchanged, MapQuiet
<1>3. CASE Send(w) \/ SendCancelled(w) \/ SendReplyLost(w)
  <2>1. /\ UNCHANGED <<status, pub, loc>> /\ pc[w] = "send"
        /\ faults' = faults \/ faults' = faults + 1
        /\ acc' = acc \/ acc' = [acc EXCEPT ![held[w]] = @ + 1]
    BY <1>3 DEF Send, SendCancelled, SendReplyLost, Fault, rowVars, mqVars
  <2>2. CASE acc' = acc
    BY <1>1, <2>1, <2>2, MessagesUnchanged, MapQuiet
  <2>3. CASE acc' = [acc EXCEPT ![held[w]] = @ + 1]
    BY <2>1, <2>3, MapSend
  <2> QED BY <2>1, <2>2, <2>3
<1>4. CASE ReadError(w) \/ BackoffInterrupted(w) \/ MarkProcessingError(w) \/ GateDeny(w) \/ SendAgain(w) \/ Announce(w)
  <2>1. /\ UNCHANGED <<pub, acc>>
        /\ faults' = faults \/ faults' = faults + 1
        /\ UNCHANGED loc \/ (pc[w] \in Working /\ loc' = [loc EXCEPT ![held[w]] = "ready"])
        /\ UNCHANGED status \/ \E s \in {"processing", "sent", "failed"} :
                pc[w] # "idle" /\ status' = [status EXCEPT ![held[w][1]] = s]
    BY <1>4 DEF ReadError, BackoffInterrupted, MarkProcessingError, GateDeny, SendAgain, Announce, Requeue, Resolve,
                StatementFails, Fault, UpdateStatus, Handled, Working, rowVars, mqVars, histVars
  <2>2. Messages' = Messages
    <3>1. CASE UNCHANGED loc
      BY <3>1, MessagesUnchanged
    <3>2. CASE pc[w] \in Working /\ loc' = [loc EXCEPT ![held[w]] = "ready"]
      <4>1. held[w] \in Copies /\ loc[held[w]] \in {"ready", "unacked"}
        BY <3>2 DEF MapInv, TypeOK, CopyInv, Working
      <4>2. Fate("ready") = Fate(loc[held[w]])
        BY <4>1, Fates
      <4> QED BY <3>2, <4>1, <4>2, MessageMoved DEF MapInv
    <3> QED BY <2>1, <3>1, <3>2
  <2> QED BY <1>1, <2>1, <2>2, MapQuiet
<1> QED BY <1>2, <1>3, <1>4, MapFinish DEF Process

LEMMA MapApi ==
  ASSUME MapInv, Api
  PROVE  [Promise!Next]_(Promise!avars)
<1>1. ASSUME NEW c \in Clients, NEW S \in SUBSET Notifications, NEW when, CreateBatch(c, S, when)
      PROVE  [Promise!Next]_(Promise!avars)
  <2>1. S \subseteq Notifications \ Stored /\ Stored' = Stored \cup S
    BY <1>1 DEF CreateBatch, Insert, Stored
  <2>2. UNCHANGED <<pub, acc, faults, loc>>
    BY <1>1 DEF CreateBatch, mqVars, histVars
  <2>3. Promise!Accept(S)
    BY <2>1, <2>2, MessagesUnchanged DEF Promise!Accept
  <2> QED BY <2>3 DEF Promise!Next
<1>2. ASSUME NEW c \in Clients, NEW n \in Notifications, NEW when \in {"none", "future", "due"}, Create(c, n, when)
      PROVE  [Promise!Next]_(Promise!avars)
  BY <1>1, <1>2 DEF Create
<1>3. ASSUME NEW c \in Clients, NEW n \in Notifications, ApiPublish(c, n)
      PROVE  [Promise!Next]_(Promise!avars)
  <2>1. \E fate \in {"waiting", "lost"} : Promise!Publish(n, fate)
    BY <1>3, MapPublish DEF ApiPublish, rowVars, histVars
  <2> QED BY <2>1 DEF Promise!Next
<1>4. ASSUME UNCHANGED <<pub, acc, loc>>, faults' = faults \/ faults' = faults + 1, Stored' = Stored
      PROVE  [Promise!Next]_(Promise!avars)
  BY <1>4, MessagesUnchanged, MapQuiet
<1>5. ASSUME NEW c \in Clients, ApiMark(c) PROVE [Promise!Next]_(Promise!avars)
  <2>1. apiMark[c] \in Notifications /\ pub[apiMark[c]] > 0 /\ status' = [status EXCEPT ![apiMark[c]] = "queued"]
    BY <1>5 DEF MapInv, TypeOK, MarkInv, ApiMark, UpdateStatus
  <2>2. Stored' = Stored
    BY <2>1, StoredFrame DEF Statuses
  <2> QED BY <1>4, <1>5, <2>2 DEF ApiMark, mqVars, histVars
<1>6. ASSUME NEW n \in Notifications, Cancel(n) PROVE [Promise!Next]_(Promise!avars)
  <2>1. Stored' = Stored
    BY <1>6 DEF MapInv, TypeOK, Cancel, Cancellable, Stored
  <2> QED BY <1>4, <1>6, <2>1 DEF Cancel, mqVars, histVars
<1>7. ASSUME NEW c \in Clients,
             ApiMarkError(c) \/ \E n \in Notifications : ApiSkip(c, n) \/ ApiPublishError(c, n)
      PROVE  [Promise!Next]_(Promise!avars)
  <2>1. UNCHANGED <<status, pub, acc, loc>> /\ (faults' = faults \/ faults' = faults + 1)
    BY <1>7 DEF ApiMarkError, ApiSkip, ApiPublishError, PublishFailed, Fault, rowVars, mqVars, histVars
  <2> QED BY <1>4, <2>1 DEF Stored
<1> QED BY <1>1, <1>2, <1>3, <1>5, <1>6, <1>7 DEF Api

LEMMA MapScheduler ==
  ASSUME MapInv, Scheduler
  PROVE  [Promise!Next]_(Promise!avars)
<1>1. ASSUME NEW n \in Notifications, SchedPublish(n) PROVE [Promise!Next]_(Promise!avars)
  <2>1. \E fate \in {"waiting", "lost"} : Promise!Publish(n, fate)
    BY <1>1, MapPublish DEF SchedPublish, rowVars, histVars
  <2> QED BY <2>1 DEF Promise!Next
<1>2. CASE SchedMark
  <2>1. schedMark \in Notifications /\ pub[schedMark] > 0 /\ status' = [status EXCEPT ![schedMark] = "queued"]
    BY <1>2 DEF MapInv, TypeOK, MarkInv, SchedMark, UpdateStatus
  <2>2. Stored' = Stored
    BY <2>1, StoredFrame DEF Statuses
  <2> QED BY <1>2, <2>2, MessagesUnchanged, MapQuiet DEF SchedMark, mqVars, histVars
<1>3. CASE SchedPoll \/ SchedMarkError \/ \E n \in Notifications : SchedPublishError(n)
  <2>1. UNCHANGED <<status, pub, acc, loc>> /\ (faults' = faults \/ faults' = faults + 1)
    BY <1>3 DEF SchedPoll, SchedMarkError, SchedPublishError, PublishFailed, StatementFails, Fault, rowVars, mqVars, histVars
  <2> QED BY <2>1, MessagesUnchanged, MapQuiet DEF Stored
<1> QED BY <1>1, <1>2, <1>3 DEF Scheduler

LEMMA MapEnvironment ==
  ASSUME MapInv, Environment \/ UNCHANGED vars
  PROVE  [Promise!Next]_(Promise!avars)
<1>1. ASSUME UNCHANGED <<status, pub, acc>>, faults' = faults \/ faults' = faults + 1, Messages' = Messages
      PROVE  [Promise!Next]_(Promise!avars)
  BY <1>1, MapQuiet DEF Stored
<1>2. ASSUME NEW w \in Workers, NEW m \in Copies, Deliver(w, m) PROVE [Promise!Next]_(Promise!avars)
  <2>1. Messages' = Messages
    <3>1. TypeOK /\ loc[m] = "ready" /\ loc' = [loc EXCEPT ![m] = "unacked"]
      BY <1>2 DEF MapInv, Deliver
    <3>2. Fate("unacked") = Fate(loc[m])
      BY <3>1, Fates
    <3> QED BY <3>1, <3>2, MessageMoved
  <2> QED BY <1>1, <1>2, <2>1 DEF Deliver, rowVars, histVars
<1>3. CASE Crash \/ Exit \/ ConnectionLost
  <2>1. Messages' = Messages
    BY <1>3, MessagesKept DEF MapInv, Crash, Exit, Fresh, ConnectionLost
  <2> QED BY <1>1, <1>3, <2>1 DEF Crash, Exit, ConnectionLost, Fault, rowVars, histVars
<1>4. CASE Sigterm \/ CancelConsumer \/ (\E n \in Notifications : FallsDue(n)) \/ UNCHANGED vars
  BY <1>1, <1>4, MessagesUnchanged DEF Sigterm, CancelConsumer, FallsDue, Fault, vars, rowVars, mqVars, histVars
<1> QED BY <1>2, <1>3, <1>4 DEF Environment

\* The pipeline implements the safety of an at-least-once channel, whatever
\* fails: a message stays with the broker until the provider accepted it or
\* Process gave it up, only an unconfirmed publish loses one, and every
\* acceptance beyond the first is paid for by a failure.
THEOREM ImplementsPromise == Spec => Promise!Spec
<1>1. Init => Promise!Init
  <2>1. ASSUME Init PROVE Messages = [m \in Promise!Messages |-> "none"]
    BY <2>1, Fates DEF Init, Messages, Copies, Promise!Messages
  <2>2. ASSUME Init PROVE Stored = {}
    BY <2>2 DEF Init, Stored
  <2> QED BY <2>1, <2>2 DEF Init, Copies, Promise!Init, Promise!Messages
<1>2. MapInv /\ [Next]_vars => [Promise!Next]_(Promise!avars)
  BY MapApi, MapScheduler, MapEnvironment, MapProcess DEF Next
<1>3. Spec => []MapInv
  BY TypeCorrect, CopiesHeld, PublishedByOne, MarkedAfterPublish, OutcomeKnown, DuplicatesCounted, PTL DEF MapInv
<1> QED BY <1>1, <1>2, <1>3, PTL DEF Spec, Promise!Spec
=============================================================================
