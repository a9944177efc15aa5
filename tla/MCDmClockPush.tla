---------------------------- MODULE MCDmClockPush ----------------------------
(* Finite instances of DmClockPush for TLC. *)
EXTENDS DmClockPush, TLC

CONSTANTS c1, c2, t1, t2

MCClients == {c1, c2}
MCThreads == {t1}
MCThreads2 == {t1, t2}
MCReqParams == {[delta |-> 0, rho |-> 0]}

\* c1 reserves 1/2 with weight 1, c2 has weight 1 and limit 1.
InfoMixed ==
    (c1 :> [rinv |-> 2, winv |-> 1, linv |-> 0]) @@
    (c2 :> [rinv |-> 0, winv |-> 1, linv |-> 1])
\* Two weighted clients with limits 1/2 and 1/3: requests added together
\* become due at different times, so the timer can wake for one request
\* and find only a later one.
InfoLimits ==
    (c1 :> [rinv |-> 0, winv |-> 1, linv |-> 2]) @@
    (c2 :> [rinv |-> 0, winv |-> 1, linv |-> 3])
=============================================================================
