--------------------------- MODULE DmClockService ---------------------------
(***************************************************************************)
(* What PushPriorityQueue promises its user, with the scheduling rules    *)
(* and the threads left out: requests are queued per client, handed to    *)
(* the server (handle_f) one at a time while the server has room          *)
(* (can_handle_f), and only when they are due under the dmClock rules.    *)
(* A handed request stays with the server until request_completed.        *)
(* Which queued requests are due changes with the clock and with every    *)
(* operation; here it is any set of clients with a queued request.        *)
(*                                                                         *)
(* The promise is the fairness: while the queue is open, the server has   *)
(* room and some request is due, some request is eventually handed over.  *)
(***************************************************************************)
EXTENDS Naturals

CONSTANTS
    Clients,
    Capacity   \* requests the server accepts at once

VARIABLES
    queued,    \* queued[c]: the number of requests c has queued
    inflight,  \* requests handed to the server and not yet completed
    due,       \* the clients whose front request may be handed now
    open       \* FALSE once the destructor has set finishing

svars == <<queued, inflight, due, open>>

\* Which clients are due afterwards is not constrained, beyond having a
\* request.
Redue == due' \in SUBSET {c \in Clients : queued'[c] > 0}

Init ==
    /\ queued = [c \in Clients |-> 0]
    /\ inflight = 0
    /\ due = {}
    /\ open = TRUE

\* add_request: one more request of c.
Enqueue(c) ==
    /\ queued' = [queued EXCEPT ![c] = @ + 1]
    /\ Redue
    /\ UNCHANGED <<inflight, open>>

\* submit_request and handle_f: the front request of a due client goes to
\* the server, which has room for it.
Hand(c) ==
    /\ c \in due
    /\ inflight < Capacity
    /\ queued' = [queued EXCEPT ![c] = @ - 1]
    /\ inflight' = inflight + 1
    /\ Redue
    /\ UNCHANGED open

\* request_completed: the server gives one request back.
Complete ==
    /\ inflight > 0
    /\ inflight' = inflight - 1
    /\ Redue
    /\ UNCHANGED <<queued, open>>

\* remove_by_client, remove_by_req_filter and the cleaner's erasure take
\* queued requests out without handing them over.
Drop ==
    /\ queued' \in [Clients -> Nat]
    /\ \A c \in Clients : queued'[c] <= queued[c]
    /\ queued' # queued
    /\ Redue
    /\ UNCHANGED <<inflight, open>>

\* The clock moves or tags change: only what is due changes.
Advance ==
    /\ Redue
    /\ UNCHANGED <<queued, inflight, open>>

\* ~PushPriorityQueue sets finishing.
Close ==
    /\ open' = FALSE
    /\ UNCHANGED <<queued, inflight, due>>

Next ==
    \/ \E c \in Clients : Enqueue(c) \/ Hand(c)
    \/ Complete \/ Drop \/ Advance \/ Close

\* A request may still be handed while the queue closes; only an open queue
\* owes progress.
Spec == Init /\ [][Next]_svars /\ WF_svars(open /\ \E c \in Clients : Hand(c))
=============================================================================
