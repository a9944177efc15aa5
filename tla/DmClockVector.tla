---------------------------- MODULE DmClockVector ----------------------------
(***************************************************************************)
(* The IndIntruVector build of PriorityQueueBase (use_heap == false):     *)
(* cl_vec holds the client records in a flat vector and three cursors,   *)
(* resv, ready and limit, to the current top of each view.  Every        *)
(* operation of DmClockQueue is repeated here with the cl_vec calls the   *)
(* code makes, and do_next_request reads its tops through the cursors.    *)
(* Indices are 1-based; the code's index i is i + 1 here.                 *)
(***************************************************************************)
EXTENDS DmClockQueue

CONSTANT MapOrder   \* the clients in the key order of std::map client_map

ASSUME MapOrder \in Seq(Clients) /\ Len(MapOrder) = Cardinality(Clients)
                                 /\ ToSet(MapOrder) = Clients

VARIABLES
    data,    \* cl_vec.data: the client records in vector order
    resv,    \* cl_vec.resv, cl_vec.ready, cl_vec.limit: indices into data
    ready,
    limit

vvars == <<vars, data, resv, ready, limit>>

-----------------------------------------------------------------------------
(* IndIntruVector *)

\* The scan of adjust(): start at index 1 and move to i whenever data[i]
\* must precede the current candidate (ClientCompareAtOnce).
RECURSIVE ScanFrom(_, _, _, _, _)
ScanFrom(rs, d, view, i, best) ==
    IF i > Len(d) THEN best
    ELSE ScanFrom(rs, d, view, i + 1,
                  IF ViewCmp(rs, d[i], d[best], view) THEN i ELSE best)

\* The scan started one index too far, skipping the second element.
ScanTopSkipSecond(rs, d, view) == ScanFrom(rs, d, view, 3, 1)

ScanTop(rs, d, view) == ScanFrom(rs, d, view, 2, 1)

adjust(rs, d) ==
    /\ resv'  = ScanTop(rs, d, "resv")
    /\ ready' = ScanTop(rs, d, "ready")
    /\ limit' = ScanTop(rs, d, "limit")

\* remove(i): swap data[i] with the last element and pop the back.
SwapRemove(d, i) == [j \in 1..(Len(d) - 1) |-> IF j = i THEN d[Len(d)] ELSE d[j]]

IndexOf(d, c) == CHOOSE i \in DOMAIN d : d[i] = c

\* do_clean's erasures, made one cl_vec.remove(client) at a time in
\* client_map order.
RemoveAll(d, erased) ==
    FoldLeft(LAMBDA acc, c : IF c \in erased THEN SwapRemove(acc, IndexOf(acc, c))
                             ELSE acc,
             d, MapOrder)

\* The ready-promotion loop of do_next_request on the vector: promote the
\* limit top's request, then adjust_ready_limit(), until the limit top is
\* not eligible.  Yields <<records, ready cursor, limit cursor>>.
RECURSIVE PromoteLoop(_, _, _)
PromoteLoop(rs, rdy, lim) ==
    LET l == data[lim]
    IN  IF has_request(rs, l) /\ ~next_request(rs, l).ready
           /\ next_request(rs, l).l <= now
        THEN LET rs2 == [rs EXCEPT ![l].reqs[1].ready = TRUE]
             IN  PromoteLoop(rs2, ScanTop(rs2, data, "ready"),
                             ScanTop(rs2, data, "limit"))
        ELSE <<rs, rdy, lim>>

-----------------------------------------------------------------------------
(* Operations *)

\* do_add_request: cl_vec.push for a new client, cl_vec.adjust() after the
\* request is queued.
VAddRequest(c, params, cost) ==
    /\ AddRequest(c, params, cost)
    /\ data' = IF c \in client_map THEN data ELSE Append(data, c)
    /\ adjust(recs', data')

\* pop_process_request(phase) on the vector, cl_vec.adjust(), and for the
\* priority phase reduce_reservation_tags with cl_vec.adjust_resv().
VDispatch(rs, c, heap) ==
    LET popped == [rs EXCEPT ![c].reqs = Tail(@)]
    IN  /\ Dispatch(rs, c, heap)
        /\ ready' = ScanTop(popped, data, "ready")
        /\ limit' = ScanTop(popped, data, "limit")
        /\ resv'  = ScanTop(recs', data, "resv")
        /\ UNCHANGED data

VPullNoClients ==
    /\ data = <<>>
    /\ PullNoClients
    /\ UNCHANGED <<data, resv, ready, limit>>

VPullReservation ==
    /\ data # <<>>
    /\ ResvDue(recs, data[resv])
    /\ VDispatch(recs, data[resv], "reservation")

\* The cases past step 2: promote, then read the ready top.
AfterResv(Act(_, _, _)) ==
    /\ data # <<>>
    /\ ~ResvDue(recs, data[resv])
    /\ LET lp == PromoteLoop(recs, ready, limit)
       IN  Act(lp[1], lp[2], lp[3])

VReady(rs, rdy, lim) ==
    /\ ReadyDue(rs, data[rdy])
    /\ VDispatch(rs, data[rdy], "ready")

VLimitBreakReady(rs, rdy, lim) ==
    /\ AllowLimitBreak
    /\ ~ReadyDue(rs, data[rdy])
    /\ BreakReady(rs, data[rdy])
    /\ VDispatch(rs, data[rdy], "ready")

VLimitBreakResv(rs, rdy, lim) ==
    /\ AllowLimitBreak
    /\ ~ReadyDue(rs, data[rdy])
    /\ ~BreakReady(rs, data[rdy])
    /\ BreakResv(rs, data[resv])
    /\ VDispatch(rs, data[resv], "reservation")

VNoRequest(rs, rdy, lim) ==
    /\ ~ReadyDue(rs, data[rdy])
    /\ AllowLimitBreak => ~BreakReady(rs, data[rdy])
                          /\ ~BreakResv(rs, data[resv])
    /\ recs' = rs
    /\ LET next_call == NextCall(rs, data[resv], data[lim])
       IN  out' = IF next_call < TimeMax
                  THEN Op("future", NoClient, "-", next_call)
                  ELSE Op("none", NoClient, "-", 0)
    /\ ready' = rdy
    /\ limit' = lim
    /\ UNCHANGED <<data, resv>>

VPullRequest ==
    /\ \/ VPullNoClients
       \/ VPullReservation
       \/ AfterResv(VReady)
       \/ AfterResv(VLimitBreakReady)
       \/ AfterResv(VLimitBreakResv)
       \/ AfterResv(VNoRequest)
    /\ UNCHANGED <<now, tick, client_map, clean_mark_points, next_clean,
                   last_add>>

\* remove_by_client and remove_by_req_filter end with cl_vec.adjust().
VRemoveByClient(c) ==
    /\ remove_by_client(c)
    /\ adjust(recs', data)
    /\ UNCHANGED data

VRemoveByReqFilter ==
    /\ remove_by_req_filter
    /\ IF recs' # recs THEN adjust(recs', data)
       ELSE UNCHANGED <<resv, ready, limit>>
    /\ UNCHANGED data

\* VClean with cl_vec.remove leaving the cursors as they were.
VCleanNoAdjust ==
    /\ do_clean
    /\ LET erased == client_map \ client_map'
       IN  data' = RemoveAll(data, erased)
    /\ UNCHANGED <<resv, ready, limit>>

\* do_clean: delete_from_heaps calls cl_vec.remove(client) for each erased
\* client, each followed by cl_vec.adjust().
VClean ==
    /\ do_clean
    /\ LET erased == client_map \ client_map'
       IN  /\ data' = RemoveAll(data, erased)
           /\ IF erased # {} THEN adjust(recs', data')
              ELSE UNCHANGED <<resv, ready, limit>>

VTick == Tick /\ UNCHANGED <<data, resv, ready, limit>>

VInit ==
    /\ Init
    /\ data = <<>>
    /\ resv = 1 /\ ready = 1 /\ limit = 1

VNext ==
    \/ \E c \in Clients, params \in ReqParamsSet, cost \in Costs :
          VAddRequest(c, params, cost)
    \/ VPullRequest
    \/ \E c \in Clients : VRemoveByClient(c)
    \/ VRemoveByReqFilter
    \/ VClean
    \/ VTick

VSpec == VInit /\ [][VNext]_vvars

-----------------------------------------------------------------------------
(* Properties *)

VTypeOK ==
    /\ TypeOK
    /\ data \in Seq(Clients)
    /\ {resv, ready, limit} \subseteq 1..MaxOf(1, Len(data))

Queue == INSTANCE DmClockQueue

\* The vector build implements the abstract queue: every step, and in
\* particular every decision do_next_request takes through the cursors,
\* is one the abstract queue can take with admissible tops, so the cursors
\* are never stale when read (spec 4.3).
VectorImplementsQueue == Queue!Spec
=============================================================================
