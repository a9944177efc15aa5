---------------------------- MODULE DmClockTags ----------------------------
(***************************************************************************)
(* Tag arithmetic and client orderings of dmclock_server.h.               *)
(*                                                                         *)
(* Times and tags are doubles in the code.  Here they are integers and the *)
(* three extremal doubles are named values: TagMax is DBL_MAX (max_tag,    *)
(* and also TimeMax), TagMin is -DBL_MAX (min_tag) and TagInf is +inf,     *)
(* which DBL_MAX + DBL_MAX rounds to.  Adding a small finite number to an *)
(* extremal double leaves it unchanged, which is what AddTag does.         *)
(***************************************************************************)
EXTENDS Integers, Sequences

TagMax == 1000
TagMin == -1000
TagInf == 1001

\* Every value a tag, a time or prop_delta takes; NaN, the mark of an unset
\* lowest_prop_tag in do_add_request, lies outside it.
TagRange == TagMin..TagInf
NaN == TagMin - 1

\* The value that marks an unset time (TimeZero in dmclock_util.h).
TimeZero == 0
TimeMax  == TagMax

\* Double-precision addition restricted to the values the code produces.
AddTag(a, b) ==
    CASE a = TagInf \/ b = TagInf                      -> TagInf
      [] a = TagMax /\ b = TagMax                      -> TagInf
      [] {a, b} = {TagMax, TagMin}                     -> 0
      [] a = TagMax \/ b = TagMax                      -> TagMax
      [] a = TagMin \/ b = TagMin                      -> TagMin
      [] OTHER                                         -> a + b

MaxOf(a, b) == IF a >= b THEN a ELSE b

\* RequestTag::tag_calc: a zero increment means the dimension is off.
tag_calc(time, prev, increment, dist_req_val, extreme_is_high) ==
    IF increment = 0
    THEN IF extreme_is_high THEN TagMax ELSE TagMin
    ELSE MaxOf(time, AddTag(prev, IF dist_req_val # 0
                                  THEN increment * dist_req_val
                                  ELSE increment))

\* The prev_tag(0.0, 0.0, 0.0) of a fresh ClientRec.
ZeroTag == [r |-> 0, p |-> 0, l |-> 0]

\* RequestTag(prev_tag, client, req_params, time, cost): the new request's
\* tag, with ready = false.  info holds the reciprocals rinv, winv, linv.
RequestTag(prev, info, params, time, cost) ==
    [r     |-> AddTag(cost, tag_calc(time, prev.r, info.rinv, params.rho, TRUE)),
     p     |-> tag_calc(time, prev.p, info.winv, params.delta, TRUE),
     l     |-> tag_calc(time, prev.l, info.linv, params.delta, FALSE),
     ready |-> FALSE]

-----------------------------------------------------------------------------
(***************************************************************************)
(* Orderings.  rs maps each client to its record (a function with fields  *)
(* reqs and prop_delta).  ClientCompare(n1, n2) is TRUE iff n1 must come   *)
(* before n2; a client without a request comes after every client with    *)
(* one.                                                                    *)
(***************************************************************************)
has_request(rs, c)  == rs[c].reqs # <<>>
next_request(rs, c) == Head(rs[c].reqs)

ClientCompare(rs, n1, n2, field, ready_opt, use_prop_delta) ==
    IF has_request(rs, n1) /\ has_request(rs, n2)
    THEN LET t1 == next_request(rs, n1)
             t2 == next_request(rs, n2)
         IN  IF ready_opt = "ignore" \/ t1.ready = t2.ready
             THEN IF use_prop_delta
                  THEN AddTag(t1[field], rs[n1].prop_delta)
                         < AddTag(t2[field], rs[n2].prop_delta)
                  ELSE t1[field] < t2[field]
             ELSE IF ready_opt = "raises" THEN t1.ready ELSE t2.ready
    ELSE has_request(rs, n1)

\* The three instantiations used for resv_heap, ready_heap and limit_heap.
ResvCmp(rs, a, b)  == ClientCompare(rs, a, b, "r", "ignore", FALSE)
ReadyCmp(rs, a, b) == ClientCompare(rs, a, b, "p", "raises", TRUE)
LimitCmp(rs, a, b) == ClientCompare(rs, a, b, "l", "lowers", FALSE)

\* The comparator of the named view.
ViewCmp(rs, a, b, view) ==
    CASE view = "resv"  -> ResvCmp(rs, a, b)
      [] view = "ready" -> ReadyCmp(rs, a, b)
      [] view = "limit" -> LimitCmp(rs, a, b)

\* The clients of M that no other client of M must precede: the admissible
\* tops of a view.
Tops(rs, M, view) == {c \in M : \A d \in M : ~ViewCmp(rs, d, c, view)}
=============================================================================
