--------------------------- MODULE MCDmClockVector ---------------------------
(* Finite instances of DmClockVector for TLC. *)
EXTENDS DmClockVector, TLC

CONSTANTS c1, c2

MCClients == {c1, c2}
MCMapOrder == <<c1, c2>>
MCReqParams == {[delta |-> 0, rho |-> 0]}

\* As in MCDmClockQueue: c1 reserves 1/2 with weight 1, c2 has weight 1 and
\* limit 1.
InfoMixed ==
    (c1 :> [rinv |-> 2, winv |-> 1, linv |-> 0]) @@
    (c2 :> [rinv |-> 0, winv |-> 1, linv |-> 1])

\* c1 is reservation-only (reservation 1/2, no weight, no limit), c2 has
\* weight 1 and limit 1: with allow_limit_break both break alternatives
\* have a client to take.
InfoBreak ==
    (c1 :> [rinv |-> 2, winv |-> 0, linv |-> 0]) @@
    (c2 :> [rinv |-> 0, winv |-> 1, linv |-> 1])
=============================================================================
