------------------------- MODULE DmClockReactivation -------------------------
(***************************************************************************)
(* The pull queue of DmClockQueue with a history of each client's         *)
(* reactivation, for spec 8.5: a client that goes idle and reactivates    *)
(* does not dispatch more than one request before another saturated       *)
(* client dispatches.  do_add_request reactivates a client that is new or *)
(* that the cleaner marked idle, and back-dates its prop_delta so that its *)
(* first request's effective proportion tag is not below the lowest one   *)
(* of the waiting clients (spec 4.4); every further request of it is at   *)
(* least one weight increment later.  So its second request should not    *)
(* overtake the request that was the front-runner at its reactivation.    *)
(***************************************************************************)
EXTENDS DmClockQueue

VARIABLES
    sent,   \* sent[c]: c's dispatches since it reactivated among waiting
            \* contenders, or -1
    ahead   \* ahead[c]: the clients whose front request was the lowest at
            \* c's reactivation and is still queued

rvars == <<vars, sent, ahead>>

\* A client competing on weight alone: no reservation and no limit.
Contender(c) == Info[c].rinv = 0 /\ Info[c].winv > 0 /\ Info[c].linv = 0

\* The contenders other than c that have a request queued.
Waiting(c) == {d \in client_map \ {c} : Contender(d) /\ has_request(recs, d)}

\* The effective proportion tag ClientCompare orders the ready view by.
EffTag(d) == AddTag(next_request(recs, d).p, recs[d].prop_delta)

\* The waiting contenders with the lowest effective proportion tag.
FrontRunners(c) ==
    {d \in Waiting(c) : \A e \in Waiting(c) : EffTag(d) <= EffTag(e)}

\* The add of this step found its client idle (a new ClientRec is idle).
Reactivated(c) ==
    /\ out'.type = "add" /\ out'.client = c
    /\ c \notin client_map \/ recs[c].idle

\* d's front request leaves its queue in this step.
FrontGone(d) ==
    \/ out'.type = "returning" /\ out'.client = d
    \/ Len(recs'[d].reqs) < Len(recs[d].reqs)

\* Update the history after the step: tracking starts when a contender
\* reactivates while other contenders wait.
Record ==
    /\ sent' = [c \in Clients |->
                  CASE Reactivated(c) ->
                         IF Contender(c) /\ Waiting(c) # {} THEN 0 ELSE -1
                    [] out'.type = "returning" /\ out'.client = c /\ sent[c] >= 0 ->
                         sent[c] + 1
                    [] OTHER -> sent[c]]
    /\ ahead' = [c \in Clients |->
                   IF Reactivated(c) /\ Contender(c) THEN FrontRunners(c)
                   ELSE {d \in ahead[c] : ~FrontGone(d)}]

RInit ==
    /\ Init
    /\ sent = [c \in Clients |-> -1]
    /\ ahead = [c \in Clients |-> {}]

RNext == Next /\ Record

RSpec == RInit /\ [][RNext]_rvars

\* Spec 8.5, idle reactivation non-monopoly: pull_request returns no
\* second request of a contender that reactivated among waiting
\* contenders while the request that was the lowest-tagged of theirs at
\* the reactivation is still queued.  It rests on do_add_request's
\* prop_delta adjustment and on ClientCompare's use of prop_delta.
ReactivationNonMonopoly ==
    [][\A c \in Clients :
          (out'.type = "returning" /\ out'.client = c /\ sent[c] >= 1)
          => ahead[c] = {}
      ]_rvars
=============================================================================
