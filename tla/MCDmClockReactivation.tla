------------------------ MODULE MCDmClockReactivation ------------------------
(* Finite instances of DmClockReactivation for TLC. *)
EXTENDS DmClockReactivation, TLC

CONSTANTS c1, c2

MCClients == {c1, c2}

MCReqParams == {[delta |-> 0, rho |-> 0]}

\* Two clients of equal weight, with neither reservation nor limit.
InfoEqual ==
    (c1 :> [rinv |-> 0, winv |-> 1, linv |-> 0]) @@
    (c2 :> [rinv |-> 0, winv |-> 1, linv |-> 0])
=============================================================================
