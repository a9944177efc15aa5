--------------------------- MODULE MCDmClockLimit ---------------------------
(* Finite instances of DmClockLimit for TLC. *)
EXTENDS DmClockLimit, TLC

CONSTANTS c1, c2

MCClients == {c1, c2}

MCReqParams == {[delta |-> 0, rho |-> 0]}

\* c1 has a reservation of 1/2 and a weight of 1; c2 has a weight of 1 and
\* a limit of 1.
InfoMixed ==
    (c1 :> [rinv |-> 2, winv |-> 1, linv |-> 0]) @@
    (c2 :> [rinv |-> 0, winv |-> 1, linv |-> 1])
=============================================================================
