---------------------------- MODULE DmClockLimit ----------------------------
(***************************************************************************)
(* The pull queue of DmClockQueue with a history of dispatch times, for    *)
(* the limit ceiling of spec 8.3: a client with limit l gets at most       *)
(* ceil(l * T) + 1 requests in any window of length T, absent limit break. *)
(* Time is in whole units and a limit is given by its reciprocal linv, so  *)
(* ceil(l * T) is ceil(T / linv).                                          *)
(***************************************************************************)
EXTENDS DmClockQueue

VARIABLE sent   \* sent[c]: the times at which pull_request returned c's requests

lvars == <<vars, sent>>

\* Record the dispatch of the step, if any.
Record ==
    sent' = IF out'.type = "returning"
            THEN [sent EXCEPT ![out'.client] = Append(@, now)]
            ELSE sent

LInit == Init /\ sent = [c \in Clients |-> <<>>]

LNext == Next /\ Record

LSpec == LInit /\ [][LNext]_lvars

\* ceil(a / b) for naturals a and b > 0.
CeilDiv(a, b) == (a + b - 1) \div b

\* The number of c's dispatches in the window [t, t + len).
InWindow(c, t, len) == Cardinality({i \in DOMAIN sent[c] :
                                       t <= sent[c][i] /\ sent[c][i] < t + len})

\* Spec 8.3, the limit ceiling: for a client with a limit and no
\* reservation, no window of length T holds more than ceil(T / linv) + 1
\* of its dispatches.  The limit tags that pull_request compares with the
\* clock are fixed by do_add_request when the request arrives.
LimitCeiling ==
    \A c \in Clients :
        (Info[c].linv > 0 /\ Info[c].rinv = 0) =>
            \A t \in 1..MaxTime, len \in 1..MaxTime :
                InWindow(c, t, len) <= CeilDiv(len, Info[c].linv) + 1
=============================================================================
