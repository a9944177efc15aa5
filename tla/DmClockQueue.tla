---------------------------- MODULE DmClockQueue ----------------------------
(***************************************************************************)
(* PriorityQueueBase and PullPriorityQueue of dmclock_server.h: the       *)
(* client map, the per-client request queues and tags, the scheduling     *)
(* decision do_next_request, pull_request, the removal operations and the *)
(* periodic cleaner do_clean.                                             *)
(*                                                                         *)
(* Every public operation holds data_mtx for its whole duration, so each  *)
(* is one atomic step.  The three selection views are abstract here: the  *)
(* top of a view is any client that no other client must precede under   *)
(* the view's ClientCompare (ties are resolved nondeterministically).     *)
(* DmClockVector and DmClockHeap model the two concrete structures.       *)
(***************************************************************************)
EXTENDS DmClockTags, SequencesExt

CONSTANTS
    Clients,          \* client ids
    NoClient,         \* a value that is not a client id
    Info,             \* Info[c]: [rinv, winv, linv], ClientInfo's reciprocals
    ReqParamsSet,     \* the ReqParams [delta, rho] a request may carry
    Costs,            \* the addl_cost values a request may carry
    AllowLimitBreak,  \* allow_limit_break
    FilterBackwards,  \* the visit_backwards values remove_by_req_filter gets
    IdleAge,          \* idle_age, erase_age and check_time in time units
    EraseAge,
    CheckTime,
    MaxTime,          \* bound on the clock
    MaxAdds,          \* bound on tick, the number of add_request calls
    MaxQueue          \* bound on the length of one client's queue

\* The constructor asserts _erase_age >= _idle_age and _check_time <
\* _idle_age on the durations it is given, then stores them cast down to
\* whole milliseconds, so the stored ages only keep EraseAge >= IdleAge >=
\* CheckTime >= 0.  EraseAge = 0 (any erase age below 1 ms) makes do_clean's
\* erase loop pop its own mark and read front() of an empty deque, which
\* this model does not represent: it is restricted to EraseAge > 0, and to
\* CheckTime > 0 so that the cleaner does not fire on every step.
ASSUME /\ EraseAge >= IdleAge /\ IdleAge >= CheckTime /\ CheckTime > 0
       /\ \A c \in Clients : Info[c].rinv > 0 \/ Info[c].winv > 0
       /\ NoClient \notin Clients

VARIABLES
    now,                \* the injected clock (get_time / steady_clock)
    tick,               \* PriorityQueueBase::tick
    client_map,         \* the ids present in client_map
    recs,               \* recs[c]: the ClientRec of c
    clean_mark_points,  \* sequence of <<time, tick>>
    next_clean,         \* when RunEvery next calls do_clean
    out,                \* the last operation and what pull_request returned
    last_add            \* history: the time of c's last add_request

vars == <<now, tick, client_map, recs, clean_mark_points, next_clean, out,
          last_add>>

Tag  == [r : TagRange, p : TagRange, l : TagRange]
Req  == [r : TagRange, p : TagRange, l : TagRange, ready : BOOLEAN]
Rec  == [prev : Tag, reqs : Seq(Req), prop_delta : TagRange, idle : BOOLEAN,
         last_tick : Nat]
Ops  == {"none", "future", "returning", "add", "clean", "tick", "remove",
         "filter"}

\* ClientRec(_client, _info, current_tick)
ClientRec(t) ==
    [prev |-> ZeroTag, reqs |-> <<>>, prop_delta |-> 0, idle |-> TRUE,
     last_tick |-> t]

Op(type, c, heap, when) == [type |-> type, client |-> c, heap |-> heap,
                            when |-> when]

Init ==
    /\ now = 1
    /\ tick = 0
    /\ client_map = {}
    /\ recs = [c \in Clients |-> ClientRec(0)]
    /\ clean_mark_points = <<>>
    /\ next_clean = 1 + CheckTime
    /\ out = Op("none", NoClient, "-", 0)
    /\ last_add = [c \in Clients |-> 0]

-----------------------------------------------------------------------------
(* do_add_request *)

\* The effective proportion tags of the non-idle clients that have a request.
ActivePropTags(rs, M) ==
    {AddTag(next_request(rs, d).p, rs[d].prop_delta) :
        d \in {d \in M : ~rs[d].idle /\ has_request(rs, d)}}

\* Reactivate without the prop_delta adjustment: only idle is cleared.
ReactivateNoAdjust(rs, M, c, time) == [rs[c] EXCEPT !.idle = FALSE]

\* An idle client becoming active: prop_delta = lowest_prop_tag - time when
\* some active client has a request, then idle = false.
Reactivate(rs, M, c, time) ==
    LET lows == ActivePropTags(rs, M)
    IN  [rs[c] EXCEPT !.prop_delta = IF lows = {} THEN @
                                     ELSE AddTag(Min(lows), -time),
                      !.idle = FALSE]

\* ++tick; find or create the record; reactivate; tag and enqueue; update
\* prev_tag and last_tick.
do_add_request(c, params, cost) ==
    LET t    == tick + 1
        map  == client_map \cup {c}
        rs0  == IF c \in client_map THEN recs
                ELSE [recs EXCEPT ![c] = ClientRec(t)]
        rec1 == IF rs0[c].idle THEN Reactivate(rs0, map, c, now) ELSE rs0[c]
        tag  == RequestTag(rec1.prev, Info[c], params, now, cost)
    IN  /\ tick' = t
        /\ client_map' = map
        /\ recs' = [recs EXCEPT ![c] =
                      [rec1 EXCEPT !.reqs = Append(@, tag),
                                   !.prev = [r |-> tag.r, p |-> tag.p,
                                             l |-> tag.l],
                                   !.last_tick = t]]

AddRequest(c, params, cost) ==
    /\ tick < MaxAdds
    /\ Len(recs[c].reqs) < MaxQueue
    /\ do_add_request(c, params, cost)
    /\ out' = Op("add", c, "-", 0)
    /\ last_add' = [last_add EXCEPT ![c] = now]
    /\ UNCHANGED <<now, clean_mark_points, next_clean>>

-----------------------------------------------------------------------------
(* do_next_request and pull_request *)

ResvTops(rs) == Tops(rs, client_map, "resv")

\* Step 2: the reservation top's request is due.
ResvDue(rs, c) == has_request(rs, c) /\ next_request(rs, c).r <= now

\* Step 3, the ready-promotion loop: it sets ready on limit_heap's top while
\* that top's request is not ready and its limit tag has passed.  As not
\* ready requests precede ready ones in the limit view and are ordered by
\* limit tag, the loop ends after promoting every such request.
Promote(rs) ==
    [c \in Clients |->
        IF has_request(rs, c) /\ ~next_request(rs, c).ready
           /\ next_request(rs, c).l <= now
        THEN [rs[c] EXCEPT !.reqs[1].ready = TRUE]
        ELSE rs[c]]

\* Step 4: the ready top's request is ready and has a weight.
ReadyDue(rs, c) ==
    /\ has_request(rs, c)
    /\ next_request(rs, c).ready
    /\ next_request(rs, c).p < TagMax

\* A BreakResv that tests the proportion tag, as a copy of the line above
\* it would.
BreakResvOnProportion(rs, c) ==
    has_request(rs, c) /\ next_request(rs, c).p < TagMax

\* Step 5, the two limit-break alternatives.
BreakReady(rs, c) == has_request(rs, c) /\ next_request(rs, c).p < TagMax
BreakResv(rs, c)  == has_request(rs, c) /\ next_request(rs, c).r < TagMax

\* min_not_0_time: the smaller time, ignoring a TimeZero candidate.
min_not_0_time(current, possible) ==
    IF possible = TimeZero THEN current
    ELSE IF possible < current THEN possible ELSE current

\* Step 6: next_call from the reservation top and the limit top.
NextCall(rs, rt, lt) ==
    LET fromResv == IF has_request(rs, rt)
                    THEN min_not_0_time(TimeMax, next_request(rs, rt).r)
                    ELSE TimeMax
    IN  IF has_request(rs, lt)
        THEN min_not_0_time(fromResv, next_request(rs, lt).l)
        ELSE fromResv

\* reduce_reservation_tags: give back one reservation increment on every
\* queued request of c and on its prev_tag.
reduce_reservation_tags(rs, c) ==
    LET inv  == Info[c].rinv
        reqs == rs[c].reqs
    IN  [rs EXCEPT ![c].reqs   = [i \in DOMAIN reqs |->
                                    [reqs[i] EXCEPT !.r = AddTag(@, -inv)]],
                   ![c].prev.r = AddTag(@, -inv)]

\* pop_process_request on the given heap, then, for the ready heap,
\* reduce_reservation_tags (pull_request's HeapId::ready branch).
Dispatch(rs, c, heap) ==
    LET popped == [rs EXCEPT ![c].reqs = Tail(@)]
    IN  /\ recs' = IF heap = "ready" THEN reduce_reservation_tags(popped, c)
                   ELSE popped
        /\ out' = Op("returning", c, heap, 0)

\* Step 1: no client record at all.
PullNoClients ==
    /\ client_map = {}
    /\ out' = Op("none", NoClient, "-", 0)
    /\ UNCHANGED recs

PullReservation ==
    \E rt \in ResvTops(recs) :
        /\ ResvDue(recs, rt)
        /\ Dispatch(recs, rt, "reservation")

PullReady ==
    \E rt \in ResvTops(recs) :
        /\ ~ResvDue(recs, rt)
        /\ LET rs == Promote(recs)
           IN  \E y \in Tops(rs, client_map, "ready") :
                   /\ ReadyDue(rs, y)
                   /\ Dispatch(rs, y, "ready")

PullLimitBreakReady ==
    /\ AllowLimitBreak
    /\ \E rt \in ResvTops(recs) :
        /\ ~ResvDue(recs, rt)
        /\ LET rs == Promote(recs)
           IN  \E y \in Tops(rs, client_map, "ready") :
                   /\ ~ReadyDue(rs, y)
                   /\ BreakReady(rs, y)
                   /\ Dispatch(rs, y, "ready")

PullLimitBreakResv ==
    /\ AllowLimitBreak
    /\ \E rt \in ResvTops(recs) :
        /\ ~ResvDue(recs, rt)
        /\ LET rs == Promote(recs)
           IN  \E y \in Tops(rs, client_map, "ready") :
                   /\ ~ReadyDue(rs, y)
                   /\ ~BreakReady(rs, y)
                   /\ BreakResv(rs, rt)
                   /\ Dispatch(rs, rt, "reservation")

\* Nothing returned: Future(next_call) or None.  The promotions stay.
PullNoRequest ==
    \E rt \in ResvTops(recs) :
        /\ client_map # {}
        /\ ~ResvDue(recs, rt)
        /\ LET rs == Promote(recs)
           IN  \E y \in Tops(rs, client_map, "ready"),
                  lt \in Tops(rs, client_map, "limit") :
                   /\ ~ReadyDue(rs, y)
                   /\ AllowLimitBreak => ~BreakReady(rs, y) /\ ~BreakResv(rs, rt)
                   /\ recs' = rs
                   /\ LET next_call == NextCall(rs, rt, lt)
                      IN  out' = IF next_call < TimeMax
                                 THEN Op("future", NoClient, "-", next_call)
                                 ELSE Op("none", NoClient, "-", 0)

pull_request ==
    /\ \/ PullNoClients
       \/ PullReservation
       \/ PullReady
       \/ PullLimitBreakReady
       \/ PullLimitBreakResv
       \/ PullNoRequest
    /\ UNCHANGED <<now, tick, client_map, clean_mark_points, next_clean,
                   last_add>>

-----------------------------------------------------------------------------
(* remove_by_client and remove_by_req_filter *)

remove_by_client(c) ==
    /\ c \in client_map
    /\ recs' = [recs EXCEPT ![c].reqs = <<>>]
    /\ out' = Op("remove", c, "-", 0)
    /\ UNCHANGED <<now, tick, client_map, clean_mark_points, next_clean,
                   last_add>>

\* The subsequence of s without the positions in D.
DropPositions(s, D) ==
    LET keep == {i \in DOMAIN s : i \notin D}
    IN  [j \in 1..Cardinality(keep) |->
            s[CHOOSE i \in keep : Cardinality({k \in keep : k <= i}) = j]]

\* The filter is an arbitrary predicate on payloads: any set of queued
\* requests of any clients may match.  A filter that matches nothing
\* changes nothing and is left out.
FilterMatches ==
    {drop \in [client_map -> SUBSET (1..MaxQueue)] :
        /\ \A c \in client_map : drop[c] \subseteq DOMAIN recs[c].reqs
        /\ \E c \in client_map : drop[c] # {}}

\* Both visiting orders remove the same requests; visit_backwards is
\* recorded in out.heap.
remove_by_req_filter ==
    /\ UNCHANGED <<now, tick, client_map, clean_mark_points, next_clean,
                   last_add>>
    /\ \E visit_backwards \in FilterBackwards,
          drop \in FilterMatches :
           /\ out' = Op("filter", NoClient,
                        IF visit_backwards THEN "backwards" ELSE "forwards", 0)
           /\ recs' = [c \in Clients |->
                         IF c \in client_map
                         THEN [recs[c] EXCEPT !.reqs = DropPositions(@, drop[c])]
                         ELSE recs[c]]

-----------------------------------------------------------------------------
(* do_clean, called every check_time by the RunEvery job *)

\* The number of leading mark points recorded at or before time bound.
MarksUpTo(marks, bound) ==
    Max({k \in 0..Len(marks) : \A i \in 1..k : marks[i][1] <= bound})

\* clean_mark_points.emplace_back(MarkPoint(t, tick)): the deque the erase
\* loop walks.
CleanMarks(t) == Append(clean_mark_points, <<t, tick>>)

\* The body of do_clean once it holds data_mtx, t being the time it read
\* from steady_clock::now() before DataGuard g(data_mtx).  The erase loop
\* pops the marks at or before t - erase_age, the last popped giving
\* erase_point; the idle loop takes the last remaining mark at or before
\* t - idle_age; the map walk erases, or else marks idle, by last_tick.
CleanAt(t) ==
    LET marks       == CleanMarks(t)
        ne          == MarksUpTo(marks, t - EraseAge)
        erase_point == IF ne = 0 THEN 0 ELSE marks[ne][2]
        kept        == SubSeq(marks, ne + 1, Len(marks))
        ni          == MarksUpTo(kept, t - IdleAge)
        idle_point  == IF ni = 0 THEN 0 ELSE kept[ni][2]
        erased      == {c \in client_map :
                           erase_point # 0
                           /\ recs[c].last_tick <= erase_point}
        idled       == {c \in client_map \ erased :
                           idle_point # 0
                           /\ recs[c].last_tick <= idle_point}
    IN  /\ clean_mark_points' = kept
        /\ client_map' = client_map \ erased
        /\ recs' = [c \in Clients |->
                      IF c \in erased THEN ClientRec(0)
                      ELSE IF c \in idled THEN [recs[c] EXCEPT !.idle = TRUE]
                      ELSE recs[c]]

\* RunEvery calls do_clean once check_time has passed since the last call
\* returned.  do_clean reads the clock before it waits for data_mtx: any
\* operation that held the lock in between already happened, and its tick
\* is counted in the mark that carries the earlier time t.
do_clean ==
    /\ now >= next_clean
    /\ \E t \in next_clean..now : CleanAt(t)
    /\ next_clean' = now + CheckTime
    /\ out' = Op("clean", NoClient, "-", 0)
    /\ UNCHANGED <<now, tick, last_add>>

\* The clock advances.
Tick ==
    /\ now < MaxTime
    /\ now' = now + 1
    /\ out' = Op("tick", NoClient, "-", 0)
    /\ UNCHANGED <<tick, client_map, recs, clean_mark_points, next_clean,
                   last_add>>

Next ==
    \/ Tick
    \/ do_clean
    \/ \E c \in Clients, params \in ReqParamsSet, cost \in Costs :
          AddRequest(c, params, cost)
    \/ pull_request
    \/ \E c \in Clients : remove_by_client(c)
    \/ remove_by_req_filter

Spec == Init /\ [][Next]_vars

-----------------------------------------------------------------------------
(* Properties *)

TypeOK ==
    /\ now \in 1..MaxTime
    /\ tick \in 0..MaxAdds
    /\ client_map \subseteq Clients
    /\ recs \in [Clients -> Rec]
    /\ clean_mark_points \in Seq((1..MaxTime) \X (0..MaxAdds))
    /\ out.type \in Ops /\ out.client \in Clients \cup {NoClient}
    /\ last_add \in [Clients -> 0..MaxTime]

\* The comment on do_clean: it deletes the entries "that were last used
\* before that mark point", the most recent mark older than the age.  So a
\* client that do_clean erases had its last add_request at least erase_age
\* before the erasure, and one it marks idle at least idle_age before.
CleanerRespectsAges ==
    [][\A c \in client_map :
         /\ c \notin client_map' => last_add[c] <= now - EraseAge
         /\ (c \in client_map' /\ ~recs[c].idle /\ recs'[c].idle)
               => last_add[c] <= now - IdleAge]_vars

\* do_next_request asserts that the limit top it reads for next_call is not
\* ready (assert(!next.tag.ready)): a Future it returns names a time still
\* ahead of now, for the push queue's timer to sleep until.
FutureIsAhead ==
    out.type = "future" => out.when > now

\* Spec 4.4: a reactivated client competes "neither ahead nor behind" the
\* active ones.  So when pull_request returns no request, no client holds a
\* request whose limit has passed and that has a weight, i.e. one the
\* proportional phase could dispatch.
ProportionalWorkConserving ==
    [][out'.type \in {"future", "none"} =>
        ~\E c \in client_map :
            /\ has_request(recs, c)
            /\ next_request(recs, c).l <= now
            /\ next_request(recs, c).p < TagMax]_vars

\* With allow_limit_break the pull queue is work-conserving: pull_request
\* returns no request only when no client holds one, whatever the limits,
\* the reservation-only clients and the prop_delta values.
LimitBreakWorkConserving ==
    [][out'.type \in {"future", "none"} =>
        \A c \in client_map : ~has_request(recs, c)]_vars

\* remove_by_req_filter_backwards starts at --requests.end(): it must only
\* be called on a non-empty queue, but remove_by_req_filter calls it for
\* every client of client_map.
BackwardsFilterOnNonEmpty ==
    [][out'.heap = "backwards" => \A c \in client_map : has_request(recs, c)]_vars
=============================================================================
