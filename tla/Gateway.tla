------------------------------ MODULE Gateway ------------------------------
(***************************************************************************)
(* The path gateway (gateway.ts): one Node process that passes every call  *)
(* of the browsers on to the service of its prefix and the answer back.    *)
(* What the services do is not modelled here: a module that composes with  *)
(* this one says when they answer and when they fail.                      *)
(*                                                                         *)
(* A handler of an event may throw; nothing catches it, so the process     *)
(* ends and takes every call it carries with it.                           *)
(***************************************************************************)
CONSTANT Call

VARIABLES
    up,         \* the gateway process runs
    upstream,   \* the gateway's request to the service, for each call
    conn,       \* what the browser has of the call
    strain      \* history: a service was silent for the 60 s of the timeout, or
                \* the connection to one was reset in the middle of an answer

gateway == <<up, upstream, conn, strain>>

Upstream == {"none", "waiting", "destroyed"}
\* "lost": the fetch rejects, or is answered by the gateway itself.
Conn     == {"closed", "open", "lost"}

GatewayTypeOK ==
    /\ up \in BOOLEAN
    /\ upstream \in [Call -> Upstream]
    /\ conn \in [Call -> Conn]
    /\ strain \subseteq {"silence", "reset"}

GatewayInit ==
    /\ up = TRUE
    /\ upstream = [c \in Call |-> "none"]
    /\ conn = [c \in Call |-> "closed"]
    /\ strain = {}

Becomes(c, state) == upstream' = [upstream EXCEPT ![c] = state]

\* The browser learns how its call ended, if it still waits for it.
Tell(c, outcome) ==
    conn' = [conn EXCEPT ![c] = IF @ = "open" THEN outcome ELSE @]

\* An exception no handler catches.
Crash ==
    /\ up' = FALSE
    /\ upstream' = [c \in Call |-> "none"]
    /\ conn' = [c \in Call |-> IF conn[c] = "open" THEN "lost" ELSE conn[c]]

\* The browser calls: proxy sends the request on.  Without a gateway fetch
\* rejects.
Dial(c) ==
    /\ conn' = [conn EXCEPT ![c] = IF up THEN "open" ELSE "lost"]
    /\ upstream' = IF up THEN [upstream EXCEPT ![c] = "waiting"] ELSE upstream
    /\ UNCHANGED <<up, strain>>

\* The service has answered: head and body are passed on, and the call ends.
Relay(c) ==
    /\ upstream[c] = "waiting"
    /\ Becomes(c, "none")
    /\ Tell(c, "closed")
    /\ UNCHANGED <<up, strain>>

\* Mutant: a service that fails takes the gateway down.
UnavailableThrows(c) ==
    /\ upstream[c] = "waiting"
    /\ Crash
    /\ UNCHANGED strain

\* The service cannot be reached, or dies before it has answered: 503.
Unavailable(c) ==
    /\ upstream[c] = "waiting"
    /\ Becomes(c, "none")
    /\ Tell(c, "lost")
    /\ UNCHANGED <<up, strain>>

\* 60 s without an answer: the request is destroyed and 504 written.
TimeOut(c) ==
    /\ upstream[c] = "waiting"
    /\ Becomes(c, "destroyed")
    /\ Tell(c, "lost")
    /\ strain' = strain \cup {"silence"}
    /\ UNCHANGED up

\* A destroyed request emits "error" once its socket is closed, and the handler
\* writes a head a second time: ERR_HTTP_HEADERS_SENT.
HangUp(c) ==
    /\ upstream[c] = "destroyed"
    /\ Crash
    /\ UNCHANGED strain

\* The head is passed on, and then 60 s without data: the timeout handler
\* writes a second one.
TimeOutRelaying(c) ==
    /\ upstream[c] = "waiting"
    /\ Crash
    /\ strain' = strain \cup {"silence"}

\* The head is passed on, and then the service closes the connection: nothing
\* ends the answer, and the browser waits on.
BodyLost(c) ==
    /\ upstream[c] = "waiting"
    /\ Becomes(c, "none")
    /\ UNCHANGED <<up, conn, strain>>

\* The head is passed on, and then the connection is reset: the request emits
\* "error" all the same, and the handler writes a second head.
BodyReset(c) ==
    /\ upstream[c] = "waiting"
    /\ Crash
    /\ strain' = strain \cup {"reset"}

\* The browser has its answer, and makes the next request of the same call.
Redial(c) ==
    /\ upstream[c] = "waiting" /\ conn[c] = "open"
    /\ UNCHANGED gateway

\* The browser hears of its lost call.
HangOff(c) ==
    /\ conn[c] = "lost"
    /\ conn' = [conn EXCEPT ![c] = "closed"]
    /\ UNCHANGED <<up, upstream, strain>>

\* Browser and gateway lose each other; the gateway does not end its request.
LinkFails(c) ==
    /\ conn[c] = "open"
    /\ conn' = [conn EXCEPT ![c] = "lost"]
    /\ UNCHANGED <<up, upstream, strain>>

\* Whoever runs the gateway starts it again.
Restart ==
    /\ ~up
    /\ up' = TRUE
    /\ UNCHANGED <<upstream, conn, strain>>

----------------------------------------------------------------------------

\* Two things bring the gateway down, a service silent for the 60 s of the
\* timeout and a connection reset in the middle of an answer: a service that
\* cannot be reached, or fails before it has answered, costs its own calls, no
\* others (gateway.ts:73-82).  "The rest of the site stays up"
\* (docs/architecture-report.html:303) holds but for these two.
UpUnlessStrained == up \/ strain # {}
=============================================================================
