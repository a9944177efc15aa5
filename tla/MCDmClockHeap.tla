---------------------------- MODULE MCDmClockHeap ----------------------------
(* Finite instances of DmClockHeap for TLC. *)
EXTENDS DmClockHeap, TLC

CONSTANTS c1, c2, c3

MCClients == {c1, c2}
MCMapOrder == <<c1, c2>>
MCClients3 == {c1, c2, c3}
MCMapOrder3 == <<c1, c2, c3>>
MCReqParams == {[delta |-> 0, rho |-> 0]}

\* As in MCDmClockQueue: c1 reserves 1/2 with weight 1, c2 has weight 1 and
\* limit 1.
InfoMixed ==
    (c1 :> [rinv |-> 2, winv |-> 1, linv |-> 0]) @@
    (c2 :> [rinv |-> 0, winv |-> 1, linv |-> 1])
\* c1 has weight 1/2 and no limit, c2 weight 1 and limit 1: both fronts can
\* be ready at once, and c2 then wins the ready heap.
InfoWeighted ==
    (c1 :> [rinv |-> 0, winv |-> 2, linv |-> 0]) @@
    (c2 :> [rinv |-> 0, winv |-> 1, linv |-> 1])
\* Three clients, one of each kind: c1 weighted, c2 weighted and limited,
\* c3 reservation-only; the heaps have a root and two children.
InfoThree ==
    (c1 :> [rinv |-> 0, winv |-> 2, linv |-> 0]) @@
    (c2 :> [rinv |-> 0, winv |-> 1, linv |-> 1]) @@
    (c3 :> [rinv |-> 2, winv |-> 0, linv |-> 0])
=============================================================================
