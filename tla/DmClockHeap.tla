----------------------------- MODULE DmClockHeap -----------------------------
(***************************************************************************)
(* The IndIntruHeap build of PriorityQueueBase (use_heap == true): the    *)
(* client records sit in three indirect intrusive heaps, resv_heap,       *)
(* limit_heap and ready_heap, ordered by the three ClientCompare views.   *)
(* Every operation of DmClockQueue is repeated here with the heap calls   *)
(* dmclock_server.h makes (push, top, promote, demote, adjust, remove).   *)
(*                                                                         *)
(* indirect_intrusive_heap.h is not part of the sources modelled: its     *)
(* operations are the binary-heap operations spec 4.3 names: promote      *)
(* sifts an element up (its key decreased), demote sifts it down (its key *)
(* increased), adjust sifts it whichever way is needed.  Heaps are        *)
(* sequences of client ids, 1-based, the parent of i being i \div 2.      *)
(***************************************************************************)
EXTENDS DmClockQueue

CONSTANT MapOrder   \* the clients in the key order of std::map client_map

ASSUME MapOrder \in Seq(Clients) /\ Len(MapOrder) = Cardinality(Clients)
                                 /\ ToSet(MapOrder) = Clients

VARIABLES
    resv_heap,
    limit_heap,
    ready_heap

hvars == <<vars, resv_heap, limit_heap, ready_heap>>

-----------------------------------------------------------------------------
(* IndIntruHeap *)

Swap(h, i, j) == [h EXCEPT ![i] = h[j], ![j] = h[i]]

Pos(h, c) == CHOOSE i \in DOMAIN h : h[i] = c

RECURSIVE SiftUp(_, _, _, _)
SiftUp(rs, h, i, view) ==
    IF i > 1 /\ ViewCmp(rs, h[i], h[i \div 2], view)
    THEN SiftUp(rs, Swap(h, i, i \div 2), i \div 2, view)
    ELSE h

RECURSIVE SiftDown(_, _, _, _)
SiftDown(rs, h, i, view) ==
    IF 2 * i > Len(h) THEN h
    ELSE LET child == IF 2 * i + 1 <= Len(h)
                         /\ ViewCmp(rs, h[2 * i + 1], h[2 * i], view)
                      THEN 2 * i + 1 ELSE 2 * i
         IN  IF ViewCmp(rs, h[child], h[i], view)
             THEN SiftDown(rs, Swap(h, i, child), child, view)
             ELSE h

Sift(rs, h, i, view) ==
    IF i > 1 /\ ViewCmp(rs, h[i], h[i \div 2], view)
    THEN SiftUp(rs, h, i, view)
    ELSE SiftDown(rs, h, i, view)

push(rs, h, c, view)    == SiftUp(rs, Append(h, c), Len(h) + 1, view)
promote(rs, h, c, view) == SiftUp(rs, h, Pos(h, c), view)
demote(rs, h, c, view)  == SiftDown(rs, h, Pos(h, c), view)
hadjust(rs, h, c, view) == Sift(rs, h, Pos(h, c), view)

\* remove(i) that moves the last element into i but does not pop the back.
hremoveNoPop(rs, h, c, view) ==
    LET i == Pos(h, c)
    IN  Sift(rs, [h EXCEPT ![i] = h[Len(h)]], i, view)

\* remove(i): swap with the last element, pop it, and sift the element
\* moved into i.
hremove(rs, h, c, view) ==
    LET i == Pos(h, c)
        s == [j \in 1..(Len(h) - 1) |-> IF j = i THEN h[Len(h)] ELSE h[j]]
    IN  IF i > Len(s) THEN s ELSE Sift(rs, s, i, view)

-----------------------------------------------------------------------------
(* Operations *)

\* Adjust c in all three heaps, as do_add_request and the removals do.
AdjustAll(rs, c) ==
    /\ resv_heap'  = hadjust(rs, resv_heap, c, "resv")
    /\ limit_heap' = hadjust(rs, limit_heap, c, "limit")
    /\ ready_heap' = hadjust(rs, ready_heap, c, "ready")

\* do_add_request: a new client is pushed onto each heap while its queue is
\* empty; after the request is queued the client is adjusted in each heap.
HAddRequest(c, params, cost) ==
    /\ AddRequest(c, params, cost)
    /\ LET new == c \notin client_map
           rh  == IF new THEN push(recs, resv_heap, c, "resv") ELSE resv_heap
           lh  == IF new THEN push(recs, limit_heap, c, "limit") ELSE limit_heap
           yh  == IF new THEN push(recs, ready_heap, c, "ready") ELSE ready_heap
       IN  /\ resv_heap'  = hadjust(recs', rh, c, "resv")
           /\ limit_heap' = hadjust(recs', lh, c, "limit")
           /\ ready_heap' = hadjust(recs', yh, c, "ready")

\* pop_process_request(heap): pop the top's request and demote it in every
\* heap; for the ready heap, reduce_reservation_tags then promotes it in
\* resv_heap.
HDispatch(rs, lh, yh, c, heap) ==
    LET popped == [rs EXCEPT ![c].reqs = Tail(@)]
        rh     == demote(popped, resv_heap, c, "resv")
    IN  /\ Dispatch(rs, c, heap)
        /\ limit_heap' = demote(popped, lh, c, "limit")
        /\ ready_heap' = demote(popped, yh, c, "ready")
        /\ resv_heap'  = IF heap = "ready" THEN promote(recs', rh, c, "resv")
                         ELSE rh

\* The ready-promotion loop on the heaps: set ready on limit_heap.top(),
\* ready_heap.promote, limit_heap.demote, until the top is not eligible.
\* Yields <<records, limit heap, ready heap>>.
RECURSIVE HPromoteLoop(_, _, _)
HPromoteLoop(rs, lh, yh) ==
    LET l == lh[1]
    IN  IF has_request(rs, l) /\ ~next_request(rs, l).ready
           /\ next_request(rs, l).l <= now
        THEN LET rs2 == [rs EXCEPT ![l].reqs[1].ready = TRUE]
             IN  HPromoteLoop(rs2, demote(rs2, lh, l, "limit"),
                              promote(rs2, yh, l, "ready"))
        ELSE <<rs, lh, yh>>

HPullNoClients ==
    /\ resv_heap = <<>>
    /\ PullNoClients
    /\ UNCHANGED <<resv_heap, limit_heap, ready_heap>>

HPullReservation ==
    /\ resv_heap # <<>>
    /\ ResvDue(recs, resv_heap[1])
    /\ HDispatch(recs, limit_heap, ready_heap, resv_heap[1], "reservation")

HAfterResv(Act(_, _, _)) ==
    /\ resv_heap # <<>>
    /\ ~ResvDue(recs, resv_heap[1])
    /\ LET lp == HPromoteLoop(recs, limit_heap, ready_heap)
       IN  Act(lp[1], lp[2], lp[3])

HReady(rs, lh, yh) ==
    /\ ReadyDue(rs, yh[1])
    /\ HDispatch(rs, lh, yh, yh[1], "ready")

HLimitBreakReady(rs, lh, yh) ==
    /\ AllowLimitBreak
    /\ ~ReadyDue(rs, yh[1])
    /\ BreakReady(rs, yh[1])
    /\ HDispatch(rs, lh, yh, yh[1], "ready")

HLimitBreakResv(rs, lh, yh) ==
    /\ AllowLimitBreak
    /\ ~ReadyDue(rs, yh[1])
    /\ ~BreakReady(rs, yh[1])
    /\ BreakResv(rs, resv_heap[1])
    /\ HDispatch(rs, lh, yh, resv_heap[1], "reservation")

HNoRequest(rs, lh, yh) ==
    /\ ~ReadyDue(rs, yh[1])
    /\ AllowLimitBreak => ~BreakReady(rs, yh[1]) /\ ~BreakResv(rs, resv_heap[1])
    /\ recs' = rs
    /\ LET next_call == NextCall(rs, resv_heap[1], lh[1])
       IN  out' = IF next_call < TimeMax
                  THEN Op("future", NoClient, "-", next_call)
                  ELSE Op("none", NoClient, "-", 0)
    /\ limit_heap' = lh
    /\ ready_heap' = yh
    /\ UNCHANGED resv_heap

HPullRequest ==
    /\ \/ HPullNoClients
       \/ HPullReservation
       \/ HAfterResv(HReady)
       \/ HAfterResv(HLimitBreakReady)
       \/ HAfterResv(HLimitBreakResv)
       \/ HAfterResv(HNoRequest)
    /\ UNCHANGED <<now, tick, client_map, clean_mark_points, next_clean,
                   last_add>>

HRemoveByClient(c) ==
    /\ remove_by_client(c)
    /\ AdjustAll(recs', c)

\* The filter leaving the heaps as they were.
AdjustModifiedNone(h, view) == h

\* remove_by_req_filter visits client_map in key order; a modified client
\* is adjusted at once, while the clients after it still hold their old
\* requests.  acc is <<records so far, heap>>.
AdjustModified(h, view) ==
    FoldLeft(LAMBDA acc, c :
                LET rs == [acc[1] EXCEPT ![c] = recs'[c]]
                IN  <<rs, IF recs'[c].reqs # recs[c].reqs
                          THEN hadjust(rs, acc[2], c, view) ELSE acc[2]>>,
             <<recs, h>>, SelectSeq(MapOrder, LAMBDA c : c \in client_map))[2]

HRemoveByReqFilter ==
    /\ remove_by_req_filter
    /\ resv_heap'  = AdjustModified(resv_heap, "resv")
    /\ limit_heap' = AdjustModified(limit_heap, "limit")
    /\ ready_heap' = AdjustModified(ready_heap, "ready")

\* do_clean: delete_from_heaps removes each erased client, in client_map
\* order, from every heap.
RemoveErased(rs, h, view, erased) ==
    FoldLeft(LAMBDA acc, c : IF c \in erased THEN hremove(rs, acc, c, view)
                             ELSE acc,
             h, MapOrder)

HClean ==
    /\ do_clean
    /\ LET erased == client_map \ client_map'
       IN  /\ resv_heap'  = RemoveErased(recs, resv_heap, "resv", erased)
           /\ limit_heap' = RemoveErased(recs, limit_heap, "limit", erased)
           /\ ready_heap' = RemoveErased(recs, ready_heap, "ready", erased)

HTick == Tick /\ UNCHANGED <<resv_heap, limit_heap, ready_heap>>

HInit ==
    /\ Init
    /\ resv_heap = <<>> /\ limit_heap = <<>> /\ ready_heap = <<>>

HNext ==
    \/ HTick
    \/ HClean
    \/ \E c \in Clients, params \in ReqParamsSet, cost \in Costs :
          HAddRequest(c, params, cost)
    \/ HPullRequest
    \/ \E c \in Clients : HRemoveByClient(c)
    \/ HRemoveByReqFilter

HSpec == HInit /\ [][HNext]_hvars

-----------------------------------------------------------------------------
(* Properties *)

HTypeOK ==
    /\ TypeOK
    /\ \A h \in {resv_heap, limit_heap, ready_heap} :
          h \in Seq(client_map) /\ Len(h) = Cardinality(client_map)

\* No child in h must precede its parent in the view.
HeapOrdered(h, view) ==
    \A i \in 2..Len(h) : ~ViewCmp(recs, h[i], h[i \div 2], view)

HeapsOrdered ==
    /\ HeapOrdered(resv_heap, "resv")
    /\ HeapOrdered(limit_heap, "limit")
    /\ HeapOrdered(ready_heap, "ready")

\* Every operation but a dispatch keeps all three heaps in heap order:
\* do_add_request's push and adjust, the promotion loop of a pull that
\* returns nothing, remove_by_client, remove_by_req_filter adjusting one
\* modified client at a time while later clients still hold their old
\* requests, and do_clean's removals in map order.  (A dispatch's
\* limit_heap.demote is finding 4.)
HeapOrderPreserved ==
    [][(HeapsOrdered /\ out'.type # "returning") => HeapsOrdered']_hvars

\* Spec 4.3: the top of each heap is a client no other client must precede
\* in that heap's view.
HeapTopsAdmissible ==
    client_map # {} =>
        /\ resv_heap[1]  \in Tops(recs, client_map, "resv")
        /\ limit_heap[1] \in Tops(recs, client_map, "limit")
        /\ ready_heap[1] \in Tops(recs, client_map, "ready")
=============================================================================
