# TLA+ models of dmclock (`src/src/dmclock_server.h`)

dmclock is a QoS scheduler. It implements the dmClock algorithm for one
server. Clients have a reservation (a minimum rate), a weight (a proportional
share) and a limit (a maximum rate). Requests are queued per client, and
`pull_request` (pull mode) or a timer thread plus `handle_f` (push mode) hands
them to the server in dmClock order. This directory holds TLA+ modules that
model the scheduler, the TLC configurations that check them, and
`PROJECT.json`, which lists the components, runs, mutants, source map,
findings and hazards.

## The system and its parts

| Part | Code (dmclock_server.h) | State | Operations |
|---|---|---|---|
| Tags | `RequestTag`, `tag_calc` 98-172 | reservation, proportion and limit tags, `ready` | tag computation from the previous tag |
| Client record | `ClientRec` 227-368 | deque of requests, `prev_tag`, `prop_delta`, `idle`, `last_tick` | add, pop, filter (forwards/backwards) |
| Orderings | `ClientCompare` 813-848, `ClientCompareAtOnce` 851-935 | - | reservation view, ready view (ready first, `prop_delta` added), limit view (not-ready first) |
| Scheduling core | `PriorityQueueBase` 180-1411 | `client_map`, `tick`, the three heaps or the vector, `clean_mark_points` | `do_add_request`, `do_next_request`, `pop_process_request`, `reduce_reservation_tags`, `remove_by_client`, `remove_by_req_filter`, `do_clean` |
| Vector build | `IndIntruVector` 375-636 | `data`, cursors `resv`, `ready`, `limit` | push, adjust, adjust_resv, adjust_ready_limit, remove |
| Heap build | `IndIntruHeap` (indirect_intrusive_heap.h, not in src/) | `resv_heap`, `limit_heap`, `ready_heap` | push, promote, demote, adjust, remove |
| Pull queue | `PullPriorityQueue` 1416-1654 | - | `add_request`, `pull_request` |
| Push queue | `PushPriorityQueue` 1659-1957 | `sched_ahead_when`, `finishing`, timer thread | `add_request`, `request_completed`, `schedule_request`, `sched_at`, `run_sched_ahead`, destructor |

Every public operation of the base and the pull queue holds `data_mtx` for its
whole duration. So in these modules each is one atomic step. The cleaner runs
on a `RunEvery` thread every `check_time` and also takes `data_mtx`. The push
queue adds a second lock, `sched_ahead_mtx`, a condition variable and a timer
thread; that is where real thread interleavings appear.

## Modules

- **`DmClockTags`**: tag arithmetic and the orderings. Doubles are integers,
  and the extremal doubles are named values:
  - `TagMax` is `max_tag` and also `TimeMax`;
  - `TagMin` is `min_tag`;
  - `TagInf` is the +inf that `max_tag + max_tag` rounds to;
  - `NaN` marks an unset `lowest_prop_tag`.

  `AddTag` is double addition restricted to these values: the extremes absorb
  small numbers. `Tops(rs, M, view)` is the set of clients that no other client
  must precede: the admissible tops of a view.
- **`DmClockQueue`**: the abstract queue, with `PriorityQueueBase`, the pull
  queue and the cleaner. The variables are:
  - `recs[c]`, the `ClientRec`;
  - `client_map`, the ids in the map;
  - `tick`, `clean_mark_points` and `now`;
  - `next_clean`, when `RunEvery` next fires;
  - `out`, what the last operation returned;
  - `last_add`, a history variable for properties.

  Actions are `AddRequest` (`do_add_request`, including idle reactivation and
  `update_req_tag`) and `pull_request`. `pull_request` has one disjunct per
  outcome of `do_next_request`: none, reservation, ready, the two limit-break
  outcomes, and future/none. A dispatch includes `pop_process_request` and,
  for the ready heap, `reduce_reservation_tags`. The remaining actions are
  `remove_by_client`, `remove_by_req_filter` (a filter is any set of queued
  positions per client, forwards or backwards), `do_clean` and `Tick`.
  `do_clean` reads `steady_clock::now()` before it takes `data_mtx`, so
  the step chooses the time `t` it read anywhere from `next_clean` to the
  current clock: operations that took the lock while it waited have
  already happened, and their ticks land in the mark `<<t, tick>>`
  (`CleanAt(t)` is the body under the lock). The ages are the
  constructor's millisecond casts, which keep only `erase_age >= idle_age
  >= check_time >= 0`; the model assumes `erase_age > 0` (see Not
  modelled). The
  heap tops are abstract: any admissible top may be read. The promotion loop
  is `Promote`, which promotes every front request that is not ready and
  whose limit has passed. It is equivalent to the loop because not-ready
  requests precede ready ones in the limit view and are ordered by limit.
- **`DmClockVector`**: the `use_heap == false` build. It extends the queue
  with:
  - `data`, the vector in insertion order;
  - the three cursors;
  - the `cl_vec` call each operation makes.

  The cursor scan is `ScanFrom`, which follows `ClientCompareAtOnce` and moves
  on a strict "precedes". `RemoveAll` is `delete_from_heaps` for every erased
  client in `client_map` key order (`MapOrder`). The module instantiates
  `DmClockQueue` as `Queue` and states `VectorImplementsQueue == Queue!Spec`.
  The refinement mapping is the identity on the shared variables; the
  vector's own state is hidden.
- **`DmClockHeap`**: the `use_heap == true` build. It adds the three heaps
  as sequences and the heap calls of every operation:
  - push on a new client, then adjust after enqueueing;
  - demote of the popped client in all three heaps;
  - promote in `resv_heap` after `reduce_reservation_tags`;
  - `ready_heap.promote` and `limit_heap.demote` in the promotion loop;
  - per-client adjust in `remove_by_req_filter`, in map order, with the
    later clients still holding their old requests;
  - `rfind` and remove in `delete_from_heaps`.

  The heap itself is not under src/. It is modelled from spec 4.3 as a binary
  heap whose comparisons are strict.
- **`DmClockPush`**: `PushPriorityQueue`. It extends the queue with
  threads:
  - caller threads (`cpc`), each running `add_request` (`CallerAdd`, the
    `do_add_request` step) or `request_completed` (`CallerCompleted`),
    then `schedule_request` (`CallerSchedule`) under the same `data_mtx`,
    and for a Future `sched_at` (`CallerSchedAt`), which takes
    `sched_ahead_mtx` while `data_mtx` is still held;
  - the timer thread running `run_sched_ahead`, one action per step
    between lock operations (`tpc`): `TLoop` tests `finishing`,
    `TCheckWhen` tests `sched_ahead_when`, `TInner` is the `wait_for`
    loop, `TCheckFinishing` is the unlocked tail, `TLockData` takes
    `data_mtx`, `TSchedule` runs `schedule_request`, and for a Future
    `TSchedAt` takes `sched_ahead_mtx` under `data_mtx`, as a caller's
    `sched_at` does;
  - `data_mtx` and `sched_ahead_mtx` as holders (`data_holder`,
    `sched_holder`);
  - `sched_ahead_cv` as the timer's wait states: `notify_one`
    (`Notified`), a timeout (`TTimeout`) or a spurious wakeup
    (`TSpurious`) moves it to reacquiring the mutex (`TReacquire`);
  - `handle_f` as `inflight`, the requests the server holds, and
    `can_handle_f` as `inflight < Capacity` (`CanHandle`);
  - the destructor (`dpc`): `finishing = true`, `notify_one`, `join`;
  - the cleaner, `remove_by_client` and `remove_by_req_filter`
    (`PushClean`, `PushRemoveByClient`, `PushRemoveByReqFilter`), each one
    step that needs `data_mtx` free. None of them calls `schedule_request`
    or touches `sched_ahead_when`.

  `schedule_request` is `ScheduleRequest`: None when the server is full,
  otherwise `pull_request`'s `do_next_request` and `submit_request`.
- **`DmClockService`**: what the push queue promises its user, with the
  dmClock rules and the threads left out. The state is:
  - `queued[c]`, the number of requests client c has queued;
  - `inflight`, the requests handed to `handle_f` and not yet completed;
  - `due`, the clients whose front request may be handed over now;
  - `open`, which is false once the destructor runs.

  The actions are `Enqueue`, `Hand`, `Complete`, `Drop` (removal or
  erasure), `Advance` and `Close`. `Hand` moves one request of a due client
  and needs room at the server (`inflight < Capacity`). The fairness
  `WF(open /\ Hand)` is the promise: while the queue is open, a due
  request and room at the server lead to a dispatch. `DmClockPush`
  instantiates it `WITH queued <- the queue lengths`, `due <- DueClients`
  (reservation due, or ready with a weight after the promotion loop) and
  `open <- ~finishing`, and checks `PushImplementsService == Service!Spec`.
- **`DmClockLimit`**: the pull queue with a history `sent[c]` of the
  times at which `pull_request` returned c's requests, for the limit
  ceiling of spec 8.3.
- **`DmClockReactivation`**: the pull queue with two history variables
  for spec 8.5. `sent[c]` counts c's dispatches since it reactivated
  (a new client, or an idle one adding) while other contenders were
  waiting. `ahead[c]` holds the waiting contenders whose front request
  had the lowest effective proportion tag (`EffTag`, proportion plus
  `prop_delta`) at that moment, for as long as that request is queued.
  A contender has a weight and neither a reservation nor a limit.
- **`MCDmClockQueue`, `MCDmClockVector`, `MCDmClockHeap`, `MCDmClockPush`,
  `MCDmClockLimit`, `MCDmClockReactivation`**: the TLC
  instances. They define two clients as model values and the `ClientInfo`
  reciprocals (`rinv`, `winv`, `linv` = 1/reservation, 1/weight, 1/limit,
  0 when unset):
  - `InfoMixed`: c1 reserves 1/2 with weight 1, and c2 has weight 1 and
    limit 1;
  - `InfoResvOnly`: c1 is reservation-only, and c2 is weight-only;
  - `InfoLimitBreak`: c1 is reservation-only, and c2 is weighted and
    limited;
  - `InfoWeighted`: c1 has weight 1/2 and no limit, and c2 has weight 1
    and limit 1;
  - `InfoThree` (three clients, for the heap): c1 weighted, c2 weighted
    and limited, c3 reservation-only;
  - `InfoBreak` (for `vector_refine`, in `MCDmClockVector`): c1 is
    reservation-only, and c2 is weighted with limit 1;
  - `InfoLimits` (for `push_service`): two weighted clients with limits
    1/2 and 1/3, so requests added together fall due at different times;
  - `InfoEqual` (for the reactivation runs): two clients of weight 1 with
    neither reservation nor limit.

## Runs

| Run | cfg | Expect | What it shows |
|---|---|---|---|
| vector_refine | `DmClockVector_refine.cfg` | pass | With a reservation-only client, a weighted limited client and `allow_limit_break`. `VectorImplementsQueue`: every step of the vector build, including each cursor read in `do_next_request`, is a step of the abstract queue. So the cursors are never stale when read. `LimitBreakWorkConserving`: `pull_request` never returns Future/None while any request is queued, through either limit-break alternative. |
| push_service | `DmClockPush_service.cfg` | pass | Two caller threads, the timer, spurious wakeups, both removals and the cleaner. A removal may take the request the timer is waiting for. `NoStrandedRequest`: whenever no caller is inside the queue, the server holds nothing and the timer sleeps in its untimed wait, no request is queued, so every Future reaches the timer. `NoLockCycle`: no thread waits for a mutex it holds, or for one held by a thread waiting for a mutex it holds; the timer's `l.unlock()` before its `DataGuard` is what keeps the order. `PushImplementsService`: every step moves requests as the service does, and while the queue is open a due request and room at the server lead to a `handle_f` call. |
| heap_order | `DmClockHeap_order.cfg` | pass | `HeapOrderPreserved`: with three clients, every step except a dispatch keeps all three heaps in heap order. This includes `remove_by_req_filter`'s per-client adjusts and `do_clean`'s removals. |
| reactivation_fresh | `DmClockReactivation_fresh.cfg` | pass | `ReactivationNonMonopoly`, with a cleaner that idles nobody within the clock's bound: a client that arrives while another has requests never gets a second request dispatched before the other's lowest-tagged request, whatever the ties, removals and filters. The `prop_delta` adjustment places the newcomer among the waiting clients. |
| queue_cleaner | `DmClockQueue_cleaner.cfg` | violation | `CleanerRespectsAges` fails: an add made while `do_clean` waits for the lock is counted in an older mark, and the client is erased younger than `erase_age`. |
| queue_future | `DmClockQueue_future.cfg` | violation | `FutureIsAhead` fails: a reservation-only client yields `Future(min_tag)`. |
| queue_reactivate | `DmClockQueue_reactivate.cfg` | violation | `ProportionalWorkConserving` fails: `prop_delta` poisoned to `max_tag`. |
| queue_filter_backwards | `DmClockQueue_filter.cfg` | violation | `BackwardsFilterOnNonEmpty` fails: the backwards filter runs on an empty deque. |
| heap_tops | `DmClockHeap_tops.cfg` | violation | `HeapTopsAdmissible` fails: `limit_heap.demote` after a ready pop leaves a client that must precede the top below it. |
| limit_ceiling | `DmClockLimit_ceiling.cfg` | violation | `LimitCeiling` fails: a limited client pulled late gets its backlog at one instant. |
| push_dtor | `DmClockPush_dtor.cfg` | violation | `DestructorReturns` fails: the destructor's notify is lost and `join()` never returns. |
| reactivation_idle | `DmClockReactivation_monopoly.cfg` | violation | `ReactivationNonMonopoly` fails once the cleaner idles a client that still has queued requests. |

### Findings

1. **`Future(min_tag)`** (line 1321). A client with reservation only has
   `limit_inv == 0`, so every limit tag is `min_tag` and the client is
   always promoted to ready. When its reservation is not yet due it is the
   limit top, `assert(!next.tag.ready)` fails, and `next_call` becomes
   `min_tag`: a Future in the past. In push mode the timer then reschedules
   immediately, again and again.
2. **`prop_delta` poisoning** (line 1108). `lowest_prop_tag` takes the
   proportion tag of a reservation-only active client, which is `max_tag`. A
   reactivating weighted client gets `prop_delta = max_tag - time = max_tag`
   and its effective proportion tag overflows. It can then lose the ready
   view to the reservation-only client, and `pull_request` returns nothing
   while it holds an eligible request.
3. **Backwards filter on an empty deque** (line 337).
   `remove_by_req_filter(..., true)` visits every client in the map, and
   `--requests.end()` on an empty deque is undefined behaviour.
4. **`limit_heap.demote` in `pop_process_request`** (line 1148). Popping a
   ready request can leave a not-ready front, which decreases the client's
   limit-view key. `demote` cannot move it up, so the limit heap is out of
   order. The promotion loop reads only `limit_heap.top()`, so the client is
   not promoted when its limit passes. The vector build has no such bug
   (`vector_refine` passes).
5. **Lost wakeup in `~PushPriorityQueue`** (lines 1738-1740). The
   destructor stores `finishing = true` and calls `notify_one` without
   holding `sched_ahead_mtx`. The timer tests `!finishing` and
   `TimeZero == sched_ahead_when` while holding the mutex, and then waits.
   If the store and the notify fall between the test and the wait, nobody
   is waiting when the notify comes. The untimed wait then never ends
   unless a spurious wakeup happens, and `join()` blocks forever. TLC finds
   this in a few states.
6. **The limit ceiling of spec 8.3 does not hold** (line 119). This is a
   spec/code divergence. `RequestTag` fixes a request's limit tag when the
   request arrives, as `max(time, prev.limit + limit_inv)`.
   `do_next_request` promotes every request whose limit tag has passed.
   Take a client with limit 1 that adds one request at each of t = 1, 2
   and 3, exactly at its limit rate. If it is not pulled until t = 3, the
   next three pulls return all three requests at t = 3. Spec 8.3 allows at
   most `ceil(l*T) + 1` = 2 in a window of length 1. In push mode the same
   happens whenever the server was full (`can_handle_f` false).
7. **Spec 8.5 fails for a client idled with a backlog** (line 1382). This
   is a spec/code divergence. `do_clean` marks a client idle by `last_tick`
   alone, and `last_tick` moves only on an add, so a client with queued
   requests becomes idle. While idle it is skipped in other clients'
   reactivation scan (line 1098). Its next add runs the reactivation
   adjustment (line 1080) although it never stopped competing. Its queued
   requests keep their old proportion tags. In the trace, c1 has one
   request (tag 2) when the cleaner idles it at t = 4. c2 arrives (tag 4)
   and c1 adds again (tag 4). c1 then dispatches both of its requests
   before c2's, which was the lowest waiting tag when c1 "reactivated".
   Spec 8.5 says a reactivated client dispatches at most one request
   before another saturated client does. With an idle age the clock never
   reaches, the property holds (`reactivation_fresh`).

8. **The cleaner's clock is read before its lock** (line 1353). This is a
   divergence from the comment on `do_clean`, which says it deletes the
   entries last used before the mark point older than the age.
   `do_clean` reads `steady_clock::now()` and only then takes `data_mtx`,
   then records the mark `<<now, tick>>`. An `add_request` that holds the
   lock in between is counted in a mark whose time is before it. With
   `erase_age = 2` and `check_time = 1`: the cleaner reads time 2 and
   waits, c1 is added at time 3, and the mark is `<<2, 1>>`. The next
   `do_clean`, at time 4, erases c1 at age 1. The error is at most the
   lock wait, which is unbounded in principle (a long `remove_by_req_filter`
   or `handle_f` under `data_mtx` in the push queue).

## Bounds and why they are enough

Two clients and a queue of at most 2 requests per client give all the
orderings that matter:
- a client with and without a request;
- ready against not ready;
- ties;
- a client whose front changes from ready to not ready.

Clock and cleaner bounds:
- The clock runs to `MaxTime` 3 to 5, with `check_time = 1`, `idle_age = 2`
  and `erase_age` 2 or 3. So the cleaner records several mark points, idles
  clients and erases them (the code asserts `erase_age >= idle_age` and
  `check_time < idle_age`).
- `MaxAdds` caps `tick` (3 adds) so that a client can be re-added after
  erasure.

Tag values:
- `Costs = {0}` and `ReqParams` `delta = rho = 0` (a single server).
- The reciprocals 0, 1 and 2 produce equal, smaller and larger tags, and the
  extremal tags.

The passing runs reach:

| Run | Distinct states | Time |
|---|---|---|
| vector | 125k | ~2.5 min |
| push service | 352k | ~4 min |
| heap order | 139k | ~1 min |
| reactivation fresh | 377k | ~2 min |

The vector run has a reservation-only client and a weighted client with a
limit, so that the limit-break through the ready view (a limited client)
and through the reservation view (a reservation-only client) both happen.
`MaxTime = 4` with `erase_age = 2` lets the cleaner erase.

The push run has two caller threads, `Capacity = 1`, `MaxAdds = 2`, one
request per client and `MaxTime = 3`. Two threads let both callers be
inside `schedule_request` or `sched_at` while the timer runs. Capacity 1
makes the server full after a single dispatch. With `InfoLimits` the two
requests added at t = 1 fall due at t = 2 and t = 3. So the timer can wake
for the first after a removal has taken it, and find only the second: its
own `sched_at` then runs under `data_mtx`. `check_time = 2` makes the
cleaner run once within the clock's bound.

The heap-order run uses three clients, so each heap has a root and two
children. Its clock stops at `MaxTime = 3`, with all three ages 1 ms
(idle and check ages between 1 and 2 ms cast to 1, as the constructor's
casts allow): the cleaner marks at t = 2 and erases at t = 3, so
`hremove` runs. A clock of 4 with these three clients takes TLC over
seven minutes.

The reactivation runs have two equal-weight contenders, `MaxQueue = 2`
and up to 4 adds. `reactivation_fresh` has `idle_age = 4` past the clock's
bound, so only new clients reactivate. `reactivation_idle` has
`idle_age = 2`, so the cleaner idles clients by t = 4.

Between them they fire every action and every outcome of `do_next_request`.

## Fairness

`DestructorReturns` and the fairness of `PushImplementsService` are the
liveness properties. `PLiveSpec`, the spec used for `DestructorReturns`,
assumes weak fairness for:
- the timer thread's steps (`TimerNext`, `TLockData`, `TSchedule`,
  `TSchedAt`);
- the destructor's `notify_one` and `join` steps.

The code starts both threads itself, and the OS runs a runnable thread.
Spurious wakeups get no fairness: the standard allows them but does not
promise them. Callers, the cleaner and the clock get no fairness either,
because the library's user drives them. `TTimeout` treats the end of the
model's clock (`MaxTime`) as a deadline that has passed. So a timed wait
always ends, as it does in the code, where the clock does not stop.
`pull_request` is called by the user of the library. The pull queue
therefore has no liveness property.

`PServiceSpec`, the spec of the service run, uses `ServiceFairness`:
- weak fairness for the timer's steps;
- strong fairness for the timer's `DataGuard` and `sched_at` and a
  caller's `sched_at`. Each waits for a mutex that other threads take and
  release, so it is enabled only from time to time. Weak fairness suffices
  for the timer's `schedule_request`, which runs with `data_mtx` held;
- weak fairness for a caller that is inside `schedule_request`;
- strong fairness for `request_completed`. This is `handle_f`'s contract:
  the server eventually completes every request it accepted.

Adds, removals, the cleaner, the clock and the destructor get no fairness.
So the promise is checked even while the clock stands still.

## Not modelled

- The request payloads and the filter predicate are abstracted to "any
  subset of positions".
- `display_queues`, the profiling timers and the sched counters.
- `USE_PROP_HEAP` and the `#if 0` heap/vector switch (compiled out).
- The memory-safety slip in `do_clean`: `delete_from_heaps(i2->second)`
  after `client_map.erase(i2)` (line 1381) uses an erased iterator.
- `add_request_time` with a caller-chosen time, and the wrappers' read of
  `get_time()` before `data_mtx` (lines 1487, 1557, 1752). Every request is
  stamped with the clock of its step. A stale time only lowers the time
  argument of `tag_calc`, whose maximum with `prev_tag + increment` keeps
  a client's tags in order.
- Three wrappers do not compile if instantiated: the `RequestRef&&`
  overloads of `add_request` at lines 1522, 1530 and 1761 pass
  `req_params` and `client_id` in swapped order. They are templates that
  no caller instantiates, so the model has nothing to check there.
- `do_clean` erases a client by `last_tick` alone, together with any
  requests it still has queued. Spec 4.6 specifies exactly this, so it is a
  `Drop` of the service and no property forbids it.
- An `erase_age` below 1 ms. The constructor asserts the order of the
  ages on the durations it is given (lines 1019-1020) and then casts them
  to whole milliseconds (1012-1014), so such an age is stored as 0. The
  erase loop then pops the mark `do_clean` has just emplaced and reads
  `front()` of an empty deque (line 1364), which is undefined behaviour
  with no outcome to enumerate. `DmClockQueue` assumes `EraseAge > 0`.
- `handle_f` runs with `data_mtx` held (line 1827, intentional per spec
  6). A server that calls `request_completed` or `add_request` from inside
  `handle_f` on the same thread would deadlock; the model's server
  completes requests from caller threads, as `handle_f`'s contract asks.
- The `wait_for` period `long(1 + 1000000 * (sched_ahead_when - now))`
  (line 1933) overflows `long` for a wake-up time far ahead. Times are
  small integers here.
- The timer's busy loop after a past Future (finding 1). It is a spin, not
  a state TLC tells apart, so only its cause is checked.

## Plan

1. Done: `DmClockTags`, then `DmClockQueue` (the abstract queue), then
   `DmClockVector` and `DmClockHeap`. Each build extends the queue with its
   own data structure, and the vector is shown to refine the queue.
2. Done: `DmClockPush`. The destructor's lost wakeup is found, and no
   request is stranded by the caller/timer interleaving.
3. Done: the limit ceiling (finding 6), the heap build with three clients
   (`heap_order`), and the push queue with two caller threads against its
   service promise (`push_service`).
4. Done: the lock order at line 1941 as `NoLockCycle`. For this the
   timer's `DataGuard`, `schedule_request` and `sched_at` are separate
   steps. Also done: spec 8.5 as `ReactivationNonMonopoly` (finding 7).
5. Done: `remove_by_req_filter` on the push queue, and four more hazards in
   `PROJECT.json` (the cleaner's early clock read, `handle_f` under
   `data_mtx`, the `wait_for` period, removals under a pending wake-up).
6. Not done: a heap refinement of the abstract queue. Finding 4 takes a
   dispatch outside the admissible tops, so `HSpec` does not refine `Spec`.
   Restricted to the other steps, it would restate `HeapOrderPreserved`.
7. Done: the cleaner's clock read before its lock, as the choice of `t`
   in `do_clean` (finding 8). The pull queue's own pass run gave way to it;
   `LimitBreakWorkConserving` is checked on the vector build, which
   refines the queue, and `TypeOK` inside `VTypeOK` and `HTypeOK`.
