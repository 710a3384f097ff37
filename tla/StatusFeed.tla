------------------------------ MODULE StatusFeed ------------------------------
(***************************************************************************)
(* A client that asks for the WebSocket status feed, from the request to   *)
(* the subscription.  Every route is behind the middleware of NewRouter;   *)
(* Logging hands the next handler its own ResponseWriter.  websocket.Accept*)
(* of coder/websocket is external: it takes the connection over from the   *)
(* ResponseWriter, or from one that it unwraps to, and answers 501 when    *)
(* there is none that can give it away.  What HandleWS does with an        *)
(* accepted connection is not modelled, since no request gets there.       *)
(***************************************************************************)
CONSTANT Clients    \* proper upgrade requests, one per client

VARIABLES
    at,             \* the handler the request is with, or "client", "loop", "returned"
    writer,         \* the ResponseWriter that handler is given
    answer,         \* HTTP status, 0 before
    subscribed      \* clients with a subscription to the Redis channel

vars == <<at, writer, answer, subscribed>>

Init ==
    /\ at = [c \in Clients |-> "client"]
    /\ writer = [c \in Clients |-> "http.response"]
    /\ answer = [c \in Clients |-> 0]
    /\ subscribed = {}

\* GET /api/v1/ws: the router puts the request through the middleware.
Connect(c) ==
    /\ at[c] = "client"
    /\ at' = [at EXCEPT ![c] = "Correlation"]
    /\ UNCHANGED <<writer, answer, subscribed>>

\* A header and a context value; the writer is passed on as it is.
Correlation(c) ==
    /\ at[c] = "Correlation"
    /\ at' = [at EXCEPT ![c] = "Logging"]
    /\ UNCHANGED <<writer, answer, subscribed>>

\* The next handler is given a statusWriter.
Logging(c) ==
    /\ at[c] = "Logging"
    /\ at' = [at EXCEPT ![c] = "HandleWS"]
    /\ writer' = [writer EXCEPT ![c] = "statusWriter"]
    /\ UNCHANGED <<answer, subscribed>>

\* A statusWriter has WriteHeader and Write of its own and what the interface
\* http.ResponseWriter has: neither Hijack nor Unwrap.
Hijackable(w) == w = "http.response"

\* websocket.Accept succeeds, and the handler subscribes.
Accept(c) ==
    /\ at[c] = "HandleWS"
    /\ Hijackable(writer[c])
    /\ answer' = [answer EXCEPT ![c] = 101]
    /\ subscribed' = subscribed \cup {c}
    /\ at' = [at EXCEPT ![c] = "loop"]
    /\ UNCHANGED writer

\* It fails and has answered; HandleWS logs and returns.
AcceptFails(c) ==
    /\ at[c] = "HandleWS"
    /\ ~Hijackable(writer[c])
    /\ answer' = [answer EXCEPT ![c] = 501]
    /\ at' = [at EXCEPT ![c] = "returned"]
    /\ UNCHANGED <<writer, subscribed>>

Serve(c) == Correlation(c) \/ Logging(c) \/ Accept(c) \/ AcceptFails(c)

Next == \E c \in Clients : Connect(c) \/ Serve(c)

\* net/http runs the handlers of a request it has read.
FairSpec == Init /\ [][Next]_vars /\ \A c \in Clients : WF_vars(Serve(c))

\* A client that connects to /api/v1/ws is subscribed to the status updates, as
\* the README says of the real-time status push.
ClientIsSubscribed == \A c \in Clients : at[c] = "Correlation" ~> c \in subscribed
=============================================================================
