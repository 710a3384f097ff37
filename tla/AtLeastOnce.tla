----------------------------- MODULE AtLeastOnce -----------------------------
(***************************************************************************)
(* What the pipeline promises, without workers, rows or connections: an    *)
(* accepted notification is handed to the broker as one or more messages,  *)
(* and a message the broker has is kept until the provider accepted it or  *)
(* the system gave it up.  Acceptances beyond the first, and messages that *)
(* never reach the broker, are paid for by failures.                       *)
(***************************************************************************)
EXTENDS Naturals

CONSTANTS
    Notifications,
    MaxCopies       \* how often one notification is published at most

VARIABLES
    accepted,       \* the notifications the service has stored
    published,      \* how many messages were published for n
    message,        \* what has become of the k-th message of n
    deliveries,     \* how often the provider accepted it
    failures        \* failures so far

avars == <<accepted, published, message, deliveries, failures>>

Messages == Notifications \X (1..MaxCopies)
Fates    == {"none", "waiting", "delivered", "givenUp", "lost"}

Init ==
    /\ accepted = {}
    /\ published = [n \in Notifications |-> 0]
    /\ message = [m \in Messages |-> "none"]
    /\ deliveries = [m \in Messages |-> 0]
    /\ failures = 0

\* A step may coincide with one failure.
MayFail == failures' \in {failures, failures + 1}

Accept(S) ==
    /\ S \subseteq Notifications \ accepted
    /\ accepted' = accepted \cup S
    /\ UNCHANGED <<published, message, deliveries, failures>>

\* The next message of n reaches the broker or is lost by a failure.
Publish(n, fate) ==
    /\ n \in accepted
    /\ published[n] < MaxCopies
    /\ published' = [published EXCEPT ![n] = @ + 1]
    /\ message' = [message EXCEPT ![<<n, published[n] + 1>>] = fate]
    /\ \/ fate = "waiting" /\ UNCHANGED failures
       \/ fate = "lost" /\ failures' = failures + 1
    /\ UNCHANGED <<accepted, deliveries>>

\* The provider accepts m: once for free, again only if something failed.
Deliver(m) ==
    /\ message[m] = "waiting"
    /\ MayFail
    /\ deliveries[m] <= failures'
    /\ deliveries' = [deliveries EXCEPT ![m] = @ + 1]
    /\ UNCHANGED <<accepted, published, message>>

\* The broker forgets m, because it was delivered or because it is given up.
Settle(m) ==
    /\ message[m] = "waiting"
    /\ \/ deliveries[m] > 0 /\ message' = [message EXCEPT ![m] = "delivered"]
       \/ message' = [message EXCEPT ![m] = "givenUp"]
    /\ UNCHANGED <<accepted, published, deliveries, failures>>

Fail ==
    /\ failures' = failures + 1
    /\ UNCHANGED <<accepted, published, message, deliveries>>

Next ==
    \/ \E S \in SUBSET Notifications : Accept(S)
    \/ \E n \in Notifications : \E fate \in {"waiting", "lost"} : Publish(n, fate)
    \/ \E m \in Messages : Deliver(m) \/ Settle(m)
    \/ Fail

Spec == Init /\ [][Next]_avars

\* Every message the broker has is settled in the end.
FairSpec == Spec /\ \A m \in Messages : WF_avars(Settle(m))
=============================================================================
