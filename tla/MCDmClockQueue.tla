--------------------------- MODULE MCDmClockQueue ---------------------------
(* Finite instances of DmClockQueue for TLC. *)
EXTENDS DmClockQueue, TLC

CONSTANTS c1, c2, c3

MCClients == {c1, c2}
MCClients3 == {c1, c2, c3}

MCReqParams == {[delta |-> 0, rho |-> 0]}

\* c1 has a reservation of 1/2 and a weight of 1; c2 has a weight of 1 and
\* a limit of 1.
InfoMixed ==
    (c1 :> [rinv |-> 2, winv |-> 1, linv |-> 0]) @@
    (c2 :> [rinv |-> 0, winv |-> 1, linv |-> 1])

\* c1 is reservation-only (reservation 1/2, no weight, no limit), c2 is
\* weight-only.
InfoResvOnly ==
    (c1 :> [rinv |-> 2, winv |-> 0, linv |-> 0]) @@
    (c2 :> [rinv |-> 0, winv |-> 1, linv |-> 0])
\* c1 is reservation-only, c2 has a weight of 1 and a limit of 1.
InfoLimitBreak ==
    (c1 :> [rinv |-> 2, winv |-> 0, linv |-> 0]) @@
    (c2 :> [rinv |-> 0, winv |-> 1, linv |-> 1])
=============================================================================
