----------------------------- MODULE MCDelivery -----------------------------
(* Instances of Delivery for TLC. *)
EXTENDS DeliveryInv, DeliveryRefinement, TLC

\* The members of each set play the same part, so permuting them changes no
\* safety property.  Not used with liveness.
Symmetry == Permutations(Notifications) \cup Permutations(Workers) \cup Permutations(Clients)

\* All but feed, which no action reads: states that differ only in it have the
\* same successors otherwise.  Used where no property is about it.
WithoutFeed == <<rowVars, apiVars, schedVars, mqVars, mqUp, workerVars, phase, faults, attempts, acc>>
=============================================================================
