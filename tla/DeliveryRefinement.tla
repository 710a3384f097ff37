-------------------------- MODULE DeliveryRefinement --------------------------
(***************************************************************************)
(* Delivery implements AtLeastOnce.  A message is waiting while the broker *)
(* has it, whether a goroutine is working on it or not; rows, goroutines,  *)
(* the connection and the process are invisible.                           *)
(***************************************************************************)
EXTENDS Delivery

\* Where a copy is, as the abstract specification sees it.
Fate(place) ==
    CASE place = "none" -> "none"
      [] place \in {"ready", "unacked"} -> "waiting"
      [] place = "acked" -> "delivered"
      [] place = "dead" -> "givenUp"
      [] place = "lost" -> "lost"

\* The notifications in the table, and the fates of their messages.
Stored   == {n \in Notifications : status[n] # "absent"}
Messages == [m \in Copies |-> Fate(loc[m])]

Promise == INSTANCE AtLeastOnce WITH
    accepted   <- Stored,
    published  <- pub,
    message    <- Messages,
    deliveries <- acc,
    failures   <- faults

\* The pipeline is an at-least-once channel (docs/ARCHITECTURE.md on RabbitMQ:
\* "at-least-once delivery"): whatever goroutines, a crash or a shutdown do in
\* between, a published message stays with the broker until the provider
\* accepted it or Process gave it up, and one of the two happens.  A message can
\* only vanish in an unconfirmed publish; each duplicate is paid for by a
\* failure.
ImplementsAtLeastOnce == Promise!FairSpec
=============================================================================
