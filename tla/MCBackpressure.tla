--------------------------- MODULE MCBackpressure ---------------------------
(* Instance of Backpressure for TLC. *)
EXTENDS Backpressure, TLC

Order == <<"sms", "email">>
=============================================================================
