----------------------------- MODULE DmClockPush -----------------------------
(***************************************************************************)
(* PushPriorityQueue of dmclock_server.h: the scheduling core of          *)
(* DmClockQueue driven by caller threads (add_request, request_completed),*)
(* the sched_ahead timer thread (run_sched_ahead) and the destructor.     *)
(*                                                                         *)
(* data_mtx and sched_ahead_mtx are holders; a thread waiting for one is  *)
(* a thread whose next step is not enabled.  sched_ahead_cv is the        *)
(* timer's program counter: "wait" and "timed" are the two waits, which   *)
(* a notify_one, a timeout (timed only) or a spurious wakeup ends; the    *)
(* timer then reacquires sched_ahead_mtx ("reacq_loop", "reacq_inner").  *)
(* handle_f hands the request to the server: inflight counts requests the *)
(* server holds until it calls request_completed, and can_handle_f is     *)
(* inflight < Capacity.                                                   *)
(***************************************************************************)
EXTENDS DmClockQueue

CONSTANTS
    Threads,   \* caller threads of add_request / request_completed
    None,      \* no holder
    Capacity   \* requests the server accepts at once (can_handle_f)

ASSUME None \notin Threads /\ Capacity \in Nat \ {0}

VARIABLES
    cpc,               \* cpc[t]: "idle", "schedule" or "sched_at"
    arg,               \* arg[t]: the time thread t (or the timer) passes to
                       \* sched_at
    data_holder,       \* holder of data_mtx
    sched_holder,      \* holder of sched_ahead_mtx
    sched_ahead_when,
    tpc,               \* the timer thread's program counter
    deadline,          \* the time the timer's wait_for runs out
    finishing,
    dpc,               \* the destructor: "running", "notify", "join", "done"
    inflight

pvars == <<cpc, arg, data_holder, sched_holder, sched_ahead_when, tpc,
           deadline, finishing, dpc, inflight>>
allvars == <<vars, pvars>>

Timer == "timer"

TimerPCs == {"start", "loop", "check_when", "wait", "reacq_loop", "inner",
             "timed", "reacq_inner", "unlocked", "sched", "sched_locked",
             "sched_at", "relock", "done"}

-----------------------------------------------------------------------------
(* sched_at and schedule_request *)

\* notify_one on sched_ahead_cv: the timer, if waiting, wakes and must
\* reacquire sched_ahead_mtx.
Notified(pc) ==
    CASE pc = "wait"  -> "reacq_loop"
      [] pc = "timed" -> "reacq_inner"
      [] OTHER        -> pc

\* The wakeup time after sched_at(w): w if none is set or w is earlier.
SchedWhen(w) ==
    IF sched_ahead_when = TimeZero \/ w < sched_ahead_when
    THEN w ELSE sched_ahead_when

\* sched_at with notify_one dropped.
SchedAtNoNotify(w) ==
    /\ sched_ahead_when' = SchedWhen(w)
    /\ UNCHANGED tpc

\* sched_at(when), with sched_ahead_mtx held: move the wakeup earlier and
\* notify the timer.
SchedAt(w) ==
    /\ sched_ahead_when' = SchedWhen(w)
    /\ tpc' = IF SchedWhen(w) # sched_ahead_when THEN Notified(tpc) ELSE tpc

\* can_handle_f admitting one request too many.
CanHandleOffByOne == inflight <= Capacity

CanHandle == inflight < Capacity

\* next_request and the switch of schedule_request, with data_mtx held:
\* None when the server cannot take a request, otherwise do_next_request
\* and, for a returning request, submit_request (pop_process_request,
\* handle_f and, for the ready heap, reduce_reservation_tags).  The Future
\* case is left to the caller, which then calls sched_at.
ScheduleRequest ==
    \/ /\ ~CanHandle
       /\ out' = Op("none", NoClient, "-", 0)
       /\ UNCHANGED <<now, tick, client_map, recs, clean_mark_points,
                      next_clean, last_add, inflight>>
    \/ /\ CanHandle
       /\ pull_request
       /\ inflight' = IF out'.type = "returning" THEN inflight + 1 ELSE inflight

-----------------------------------------------------------------------------
(* Caller threads *)

\* add_request: do_add_request under data_mtx, then schedule_request.
CallerAdd(t, c, params, cost) ==
    /\ dpc = "running"
    /\ cpc[t] = "idle" /\ data_holder = None
    /\ AddRequest(c, params, cost)
    /\ data_holder' = t
    /\ cpc' = [cpc EXCEPT ![t] = "schedule"]
    /\ UNCHANGED <<arg, sched_holder, sched_ahead_when, tpc, deadline,
                   finishing, dpc, inflight>>

\* request_completed: the server gives a slot back and schedules.
CallerCompleted(t) ==
    /\ dpc = "running"
    /\ cpc[t] = "idle" /\ data_holder = None
    /\ inflight > 0
    /\ inflight' = inflight - 1
    /\ data_holder' = t
    /\ cpc' = [cpc EXCEPT ![t] = "schedule"]
    /\ UNCHANGED <<vars, arg, sched_holder, sched_ahead_when, tpc, deadline,
                   finishing, dpc>>

\* schedule_request in the caller; a Future goes on to sched_at, which
\* needs sched_ahead_mtx while data_mtx is still held.
CallerSchedule(t) ==
    /\ cpc[t] = "schedule"
    /\ ScheduleRequest
    /\ IF out'.type = "future"
       THEN /\ cpc' = [cpc EXCEPT ![t] = "sched_at"]
            /\ arg' = [arg EXCEPT ![t] = out'.when]
            /\ UNCHANGED data_holder
       ELSE /\ cpc' = [cpc EXCEPT ![t] = "idle"]
            /\ data_holder' = None
            /\ UNCHANGED arg
    /\ UNCHANGED <<sched_holder, sched_ahead_when, tpc, deadline, finishing,
                   dpc>>

CallerSchedAt(t) ==
    /\ cpc[t] = "sched_at" /\ sched_holder = None
    /\ SchedAt(arg[t])
    /\ cpc' = [cpc EXCEPT ![t] = "idle"]
    /\ data_holder' = None
    /\ UNCHANGED <<vars, arg, sched_holder, deadline, finishing, dpc,
                   inflight>>

-----------------------------------------------------------------------------
(* run_sched_ahead: the timer thread, started by the constructor *)

\* Steps of the timer that hold sched_ahead_mtx leave it to none but it.
TimerStep(from, to) == tpc = from /\ tpc' = to

\* std::unique_lock l(sched_ahead_mtx) at the start of the thread.
TStart ==
    /\ TimerStep("start", "loop") /\ sched_holder = None
    /\ sched_holder' = Timer
    /\ UNCHANGED <<sched_ahead_when, deadline>>

\* while (!finishing): leave the loop, and the thread, once finishing.
TLoop ==
    /\ tpc = "loop"
    /\ IF finishing
       THEN tpc' = "done" /\ sched_holder' = None
       ELSE tpc' = "check_when" /\ UNCHANGED sched_holder
    /\ UNCHANGED <<sched_ahead_when, deadline>>

\* if (TimeZero == sched_ahead_when) sched_ahead_cv.wait(l); else the
\* timed branch.
TCheckWhen ==
    /\ tpc = "check_when"
    /\ IF sched_ahead_when = TimeZero
       THEN tpc' = "wait" /\ sched_holder' = None
       ELSE tpc' = "inner" /\ UNCHANGED sched_holder
    /\ UNCHANGED <<sched_ahead_when, deadline>>

\* The inner while with l.unlock() dropped: the timer keeps
\* sched_ahead_mtx into the schedule_request branch.
TInnerNoUnlock ==
    /\ tpc = "inner"
    /\ IF ~finishing /\ now < sched_ahead_when
       THEN /\ tpc' = "timed" /\ deadline' = sched_ahead_when
            /\ sched_holder' = None
            /\ UNCHANGED sched_ahead_when
       ELSE /\ sched_ahead_when' = TimeZero
            /\ tpc' = IF finishing THEN "done" ELSE "unlocked"
            /\ sched_holder' = IF finishing THEN None ELSE Timer
            /\ UNCHANGED deadline

\* The inner while: wait_for until sched_ahead_when unless finishing;
\* then reset sched_ahead_when, return if finishing, else l.unlock().
TInner ==
    /\ tpc = "inner"
    /\ IF ~finishing /\ now < sched_ahead_when
       THEN /\ tpc' = "timed" /\ deadline' = sched_ahead_when
            /\ sched_holder' = None
            /\ UNCHANGED sched_ahead_when
       ELSE /\ sched_ahead_when' = TimeZero
            /\ tpc' = IF finishing THEN "done" ELSE "unlocked"
            /\ sched_holder' = None
            /\ UNCHANGED deadline

\* The end of a wait: reacquire sched_ahead_mtx.
TReacquire ==
    /\ sched_holder = None
    /\ \/ TimerStep("reacq_loop", "loop")
       \/ TimerStep("reacq_inner", "inner")
    /\ sched_holder' = Timer
    /\ UNCHANGED <<sched_ahead_when, deadline>>

\* wait_for runs out.  The clock stops at MaxTime, where every later
\* deadline is taken to have passed.
TTimeout ==
    /\ TimerStep("timed", "reacq_inner")
    /\ now >= deadline \/ now = MaxTime
    /\ UNCHANGED <<sched_holder, sched_ahead_when, deadline>>

\* A spurious wakeup of either wait.
TSpurious ==
    /\ tpc \in {"wait", "timed"}
    /\ tpc' = Notified(tpc)
    /\ UNCHANGED <<sched_holder, sched_ahead_when, deadline>>

\* if (!finishing) { DataGuard g(data_mtx); schedule_request(); }
TCheckFinishing ==
    /\ tpc = "unlocked"
    /\ tpc' = IF finishing THEN "relock" ELSE "sched"
    /\ UNCHANGED <<sched_holder, sched_ahead_when, deadline>>

\* DataGuard g(data_mtx) on the timer thread, which no longer holds
\* sched_ahead_mtx.
TLockData ==
    /\ TimerStep("sched", "sched_locked") /\ data_holder = None
    /\ data_holder' = Timer
    /\ UNCHANGED <<vars, cpc, arg, sched_holder, sched_ahead_when, deadline,
                   finishing, dpc, inflight>>

\* schedule_request on the timer thread; a Future goes on to sched_at with
\* data_mtx still held, otherwise the guard releases data_mtx.
TSchedule ==
    /\ tpc = "sched_locked"
    /\ ScheduleRequest
    /\ IF out'.type = "future"
       THEN /\ tpc' = "sched_at"
            /\ arg' = [arg EXCEPT ![Timer] = out'.when]
            /\ UNCHANGED data_holder
       ELSE /\ tpc' = "relock"
            /\ data_holder' = None
            /\ UNCHANGED arg
    /\ UNCHANGED <<cpc, sched_holder, sched_ahead_when, deadline, finishing,
                   dpc>>

\* sched_at on the timer thread: it takes sched_ahead_mtx under data_mtx;
\* its notify_one finds no waiter, for the only waiter is the timer.
TSchedAt ==
    /\ tpc = "sched_at" /\ sched_holder = None
    /\ sched_ahead_when' = SchedWhen(arg[Timer])
    /\ tpc' = "relock"
    /\ data_holder' = None
    /\ UNCHANGED <<vars, cpc, arg, sched_holder, deadline, finishing, dpc,
                   inflight>>

\* l.lock() before the next round of the outer loop.
TRelock ==
    /\ TimerStep("relock", "loop") /\ sched_holder = None
    /\ sched_holder' = Timer
    /\ UNCHANGED <<sched_ahead_when, deadline>>

TimerNext ==
    /\ \/ TStart \/ TLoop \/ TCheckWhen \/ TInner \/ TReacquire \/ TTimeout
       \/ TCheckFinishing \/ TRelock
    /\ UNCHANGED <<vars, cpc, arg, data_holder, finishing, dpc, inflight>>

-----------------------------------------------------------------------------
(* ~PushPriorityQueue: finishing = true, notify_one, join.  The owner     *)
(* destroys the queue once no caller is inside it.                        *)

DtorFinish ==
    /\ dpc = "running" /\ \A t \in Threads : cpc[t] = "idle"
    /\ finishing' = TRUE
    /\ dpc' = "notify"
    /\ UNCHANGED <<vars, cpc, arg, data_holder, sched_holder,
                   sched_ahead_when, tpc, deadline, inflight>>

DtorNotify ==
    /\ dpc = "notify"
    /\ tpc' = Notified(tpc)
    /\ dpc' = "join"
    /\ UNCHANGED <<vars, cpc, arg, data_holder, sched_holder,
                   sched_ahead_when, deadline, finishing, inflight>>

DtorJoin ==
    /\ dpc = "join" /\ tpc = "done"
    /\ dpc' = "done"
    /\ UNCHANGED <<vars, cpc, arg, data_holder, sched_holder,
                   sched_ahead_when, tpc, deadline, finishing, inflight>>

-----------------------------------------------------------------------------
(* The rest of the queue: the cleaner and removals take data_mtx too. *)

PushClean ==
    /\ data_holder = None /\ dpc = "running"
    /\ do_clean
    /\ UNCHANGED pvars

PushRemoveByClient(c) ==
    /\ data_holder = None /\ dpc = "running"
    /\ remove_by_client(c)
    /\ UNCHANGED pvars

PushRemoveByReqFilter ==
    /\ data_holder = None /\ dpc = "running"
    /\ remove_by_req_filter
    /\ UNCHANGED pvars

PushTick == Tick /\ UNCHANGED pvars

\* After the destructor has returned nothing runs any more.
Terminated ==
    /\ dpc = "done"
    /\ UNCHANGED allvars

PInit ==
    /\ Init
    /\ cpc = [t \in Threads |-> "idle"]
    /\ arg = [t \in Threads \cup {Timer} |-> TimeZero]
    /\ data_holder = None
    /\ sched_holder = None
    /\ sched_ahead_when = TimeZero
    /\ tpc = "start"
    /\ deadline = TimeZero
    /\ finishing = FALSE
    /\ dpc = "running"
    /\ inflight = 0

PNext ==
    \/ \E t \in Threads, c \in Clients, params \in ReqParamsSet, cost \in Costs :
          CallerAdd(t, c, params, cost)
    \/ \E t \in Threads : CallerCompleted(t) \/ CallerSchedule(t)
                          \/ CallerSchedAt(t)
    \/ TimerNext
    \/ TSpurious /\ UNCHANGED <<vars, cpc, arg, data_holder, finishing, dpc,
                               inflight>>
    \/ TLockData \/ TSchedAt
    \/ TSchedule
    \/ DtorFinish \/ DtorNotify \/ DtorJoin
    \/ PushClean
    \/ \E c \in Clients : PushRemoveByClient(c)
    \/ PushRemoveByReqFilter
    \/ PushTick
    \/ Terminated

PSpec == PInit /\ [][PNext]_allvars

\* The OS runs every runnable thread: the timer's steps and the
\* destructor's are weakly fair.  A spurious wakeup may never happen, and
\* callers, the cleaner and the clock owe nothing.
PFairness ==
    /\ WF_allvars(TimerNext)
    /\ WF_allvars(TLockData) /\ WF_allvars(TSchedule) /\ WF_allvars(TSchedAt)
    /\ WF_allvars(DtorNotify)
    /\ WF_allvars(DtorJoin)

PLiveSpec == PSpec /\ PFairness

\* The fairness the service promise rests on.  The timer's steps are as
\* above; its schedule_request and a caller's sched_at wait for a mutex
\* that other threads take and release, so they are strongly fair.  A
\* caller inside the queue keeps running.  handle_f's contract is that
\* the server eventually calls request_completed for a request it took.
\* Adds, removals, the cleaner, the clock and the destructor owe nothing.
ServiceFairness ==
    /\ WF_allvars(TimerNext)
    /\ SF_allvars(TLockData) /\ WF_allvars(TSchedule) /\ SF_allvars(TSchedAt)
    /\ \A t \in Threads : WF_allvars(CallerSchedule(t))
    /\ \A t \in Threads : SF_allvars(CallerSchedAt(t))
    /\ SF_allvars(\E t \in Threads : CallerCompleted(t))

PServiceSpec == PSpec /\ ServiceFairness

-----------------------------------------------------------------------------
(* Properties *)

PushTypeOK ==
    /\ TypeOK
    /\ cpc \in [Threads -> {"idle", "schedule", "sched_at"}]
    /\ data_holder \in Threads \cup {Timer, None}
    /\ sched_holder \in Threads \cup {Timer, None}
    /\ tpc \in TimerPCs
    /\ dpc \in {"running", "notify", "join", "done"}
    /\ inflight \in 0..Capacity

\* No request is stranded: when no caller is inside the queue, the server
\* holds no request (so no request_completed will come) and the timer
\* sleeps in its untimed wait, no client holds a request, for nothing
\* would ever schedule it.  This is what sched_at's notify and
\* schedule_request's Future case are for.
NoStrandedRequest ==
    (/\ \A t \in Threads : cpc[t] = "idle"
     /\ inflight = 0
     /\ tpc = "wait"
     /\ ~finishing)
    => \A c \in client_map : ~has_request(recs, c)

\* The clients whose front request do_next_request may hand over now: due
\* by reservation, or ready (after the promotion loop) with a weight.
DueClients ==
    {c \in client_map : ResvDue(recs, c) \/ ReadyDue(Promote(recs), c)}

Service == INSTANCE DmClockService WITH
    queued   <- [c \in Clients |-> Len(recs[c].reqs)],
    inflight <- inflight,
    due      <- DueClients,
    open     <- ~finishing

\* The push queue keeps the service promise: add_request, schedule_request
\* on any thread, request_completed, the removals and the cleaner move
\* requests only as the service does (one request of a due client per
\* handle_f, never past can_handle_f), and while the queue is open, a due
\* request and room at the server lead to a handle_f call, whatever the
\* interleaving of callers, timer and wakeups.
PushImplementsService == Service!Spec

\* The mutex a thread's next step waits for: a caller's sched_at, the
\* timer's reacquisitions of sched_ahead_mtx and its sched_at, and the
\* timer's DataGuard.
WaitsFor(x) ==
    IF x = Timer
    THEN CASE tpc \in {"start", "reacq_loop", "reacq_inner", "relock",
                       "sched_at"} -> "sched_ahead_mtx"
           [] tpc = "sched" -> "data_mtx"
           [] OTHER -> "none"
    ELSE IF cpc[x] = "sched_at" THEN "sched_ahead_mtx" ELSE "none"

Holder(m) == IF m = "data_mtx" THEN data_holder ELSE sched_holder

\* The lock order of run_sched_ahead and sched_at holds: schedule_request
\* takes sched_ahead_mtx under data_mtx (sched_at), so the timer must
\* release sched_ahead_mtx (l.unlock()) before its DataGuard.  With two
\* mutexes a deadlock is a thread waiting for a mutex it holds itself or
\* two threads each waiting for the mutex the other holds.
NoLockCycle ==
    \A x \in Threads \cup {Timer} :
        LET y == Holder(WaitsFor(x))
        IN  (WaitsFor(x) # "none" /\ y # None) =>
                /\ y # x
                /\ WaitsFor(y) = "none" \/ Holder(WaitsFor(y)) # x

\* ~PushPriorityQueue returns: once finishing is set the timer thread
\* leaves run_sched_ahead and join() completes.
DestructorReturns == (dpc = "notify") ~> (dpc = "done")
=============================================================================
