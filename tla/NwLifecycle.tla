---------------------------- MODULE NwLifecycle ----------------------------
(***************************************************************************)
(* The managed connection handle of the Network.framework backend          *)
(* (src/backends/network/nw_conn.c): construction, the start on the main   *)
(* thread, reference counting, cross-thread posts, the doorbell and its    *)
(* one delayed slot, stop, join, and the end of handle and driver.         *)
(*                                                                         *)
(* Any number of threads use the handle while the connection's serial      *)
(* dispatch queue (its domain) runs blocks one at a time.  A critical      *)
(* section of `mu' is one step; what a function does after it unlocked is  *)
(* another step, so everything may happen in between.                      *)
(***************************************************************************)
EXTENDS Integers, Sequences, FiniteSets

CONSTANTS
    Threads,      \* application threads
    Creator,      \* the one that calls wtq_nw_conn_create
    Limits,       \* the bounds a behaviour may run under: the threads that
                  \* call, the delays they ask for, and the numbers of
                  \* references, posts, rings and arms, children and ticks
    MaxUptime,    \* UINT64_MAX, where a deadline saturates
    MaxDelay      \* NW_DOORBELL_MAX_DELAY_US

ASSUME ThreadAssumption ==
    /\ IsFiniteSet(Threads) /\ Creator \in Threads
    /\ Threads \cap {"main", "domain"} = {}
ASSUME BoundAssumption ==
    /\ MaxUptime \in Nat /\ MaxDelay \in 1..MaxUptime
    /\ \A x \in Limits :
        /\ x.threads \subseteq Threads /\ Creator \in x.threads
        /\ x.delays \subseteq Nat /\ x.refs \in Nat \ {0, 1}
        /\ x.posts \in Nat /\ x.rings \in Nat /\ x.kids \in Nat
        /\ x.time \in Nat /\ x.time < MaxUptime

VARIABLES
    limit,    \* the member of Limits this behaviour runs under
    res,      \* what is allocated: handle, driver, sources, group, session
    conn,     \* struct wtq_nw_conn
    drv,      \* struct wtq_driver, as far as the life cycle goes
    queue,    \* the blocks on the domain queue
    at,       \* what the domain is in the middle of
    boot,     \* how far create and the start trampoline have come
    op,       \* the rest of a call, after its critical section
    held,     \* references each thread owns
    group,    \* the nw_connection_group
    now,      \* the uptime clock
    timer,    \* when the dispatch timer fires; Never if disarmed
    accepted, ran,  \* history: posts accepted, posts run
    rings,          \* history: rings and arms so far
    owed,           \* history: when the live delayed arm may ring
    early           \* history: a delayed ring came too soon

vars == <<res, conn, drv, queue, at, boot, op, held, group, now, timer,
          accepted, ran, rings, owed, early>>
ghosts == <<accepted, ran, rings, owed, early>>
clocks == <<now, timer>>

Actors == Threads \cup {"main", "domain"}
Never == MaxUptime + MaxDelay + 2
Sources == {"bell", "timer"}
Resources == {"handle", "driver", "group", "session"} \cup Sources
Block(k) == [k |-> k, n |-> 0]
Blocks == [k : {"post", "bell", "timer", "stop", "finish", "ready", "waiting",
                "failed", "cancelled", "verify", "gcancel"},
           n : 0..limit.posts]
Handles == [refs : 0..limit.refs, closed : BOOLEAN, stop_started : BOOLEAN,
            start_state : {"QUEUED", "STARTING", "STARTED"},
            stop_enqueued : BOOLEAN, stopped_done : BOOLEAN,
            lifecycle_over : BOOLEAN, on_doorbell : BOOLEAN,
            armed : BOOLEAN, deadline : 0..MaxUptime]
Drivers == [pins : 0..(limit.kids + 1), kids : 0..limit.kids,
            rundown : BOOLEAN, stop_started : BOOLEAN,
            terminal_done : BOOLEAN, finish_scheduled : BOOLEAN,
            started : BOOLEAN, shutdown_started : BOOLEAN]

Init ==
    /\ limit \in Limits
    /\ res = {} /\ boot = "build" /\ at = "idle" /\ queue = <<>>
    /\ conn = [refs |-> 0, closed |-> FALSE, stop_started |-> FALSE,
               start_state |-> "QUEUED", stop_enqueued |-> FALSE,
               stopped_done |-> FALSE, lifecycle_over |-> FALSE,
               on_doorbell |-> FALSE, armed |-> FALSE, deadline |-> 0]
    /\ drv = [pins |-> 0, kids |-> 0, rundown |-> FALSE,
              stop_started |-> FALSE, terminal_done |-> FALSE,
              finish_scheduled |-> FALSE, started |-> FALSE,
              shutdown_started |-> FALSE]
    /\ op = [a \in Actors |-> "none"] /\ held = [a \in Actors |-> 0]
    /\ group = [state |-> "new", cancel |-> FALSE]
    /\ now = 0 /\ timer = Never
    /\ accepted = 0 /\ ran = <<>> /\ rings = 0 /\ owed = Never
    /\ early = FALSE

-----------------------------------------------------------------------------
(* Construction.                                                           *)

(* What nw_conn_build holds when it fails at a stage, and what the         *)
(* rollback of that stage releases.                                        *)
Acquired(stage, bell) ==
    CASE stage = "handle"  -> {}
      [] stage = "driver"  -> {"handle"}
      [] stage = "bell"    -> {"handle", "driver"}
      [] stage = "timer"   -> {"handle", "driver", "bell"}
      [] stage = "group"   -> {"handle", "driver"} \cup bell
      [] stage = "session" -> {"handle", "driver", "group"} \cup bell
      [] stage = "connect" -> Resources \ (Sources \ bell)
RolledBack(stage, bell) ==
    CASE stage = "handle"  -> {}
      [] stage = "driver"  -> {"handle"}
      [] stage = "bell"    -> {"driver", "handle"}
      [] stage = "timer"   -> Sources \cup {"driver", "handle"}
      [] stage = "group"   -> Sources \cup {"driver", "handle"}
      [] OTHER             -> Sources \cup {"session", "group", "driver",
                                            "handle"}
Stages == {"handle", "driver", "bell", "timer", "group", "session", "connect"}

nw_conn_build_fails ==
    /\ boot = "build"
    /\ \E bell \in {{}, Sources}, stage \in Stages :
        /\ stage \in Sources => bell = Sources
        /\ res' = Acquired(stage, bell) \ RolledBack(stage, bell)
    /\ boot' = "failed"
    /\ UNCHANGED <<conn, drv, queue, at, op, held, group, clocks, ghosts>>

(* The handle is published with the creator's reference and the            *)
(* construction reference of the start.                                    *)
nw_conn_build ==
    /\ boot = "build"
    /\ \E bell \in {{}, Sources} :
        /\ res' = Resources \ (Sources \ bell)
        /\ conn' = [conn EXCEPT !.refs = 2, !.on_doorbell = bell /= {}]
    /\ drv' = [drv EXCEPT !.pins = 1]
    /\ held' = [held EXCEPT ![Creator] = 1]
    /\ boot' = "queued"
    /\ UNCHANGED <<queue, at, op, group, clocks, ghosts>>

-----------------------------------------------------------------------------
(* References and stop.                                                    *)

(* A thread may call with a reference of its own.  The domain may call     *)
(* from a callback: a post has the acceptance reference, elsewhere the     *)
(* application must still own one.                                         *)
MayCall(a) ==
    /\ op[a] = "none"
    /\ IF a /= "domain" THEN held[a] > 0
       ELSE \/ at = "post"
            \/ at \in {"bell", "stopped"} /\ \E b \in Threads : held[b] > 0

(* Mutant: the last release frees the handle under a running stop.         *)
AfterDropFrees ==
    IF conn.refs > 1 THEN "none"
    ELSE IF ~conn.stop_started THEN "implicit_stop" ELSE "free"
(* What a release has left to do once it unlocked.                         *)
AfterDrop ==
    IF conn.refs > 1 THEN "none"
    ELSE IF ~conn.stop_started THEN "implicit_stop"
    ELSE IF conn.lifecycle_over THEN "free"
    ELSE "none"
Drop(a) ==
    /\ conn.refs > 0
    /\ conn' = [conn EXCEPT !.refs = @ - 1]
    /\ op' = [op EXCEPT ![a] = AfterDrop]

wtq_nw_conn_retain(a, b) ==
    /\ MayCall(a) /\ conn.refs < limit.refs
    /\ conn' = [conn EXCEPT !.refs = @ + 1]
    /\ held' = [held EXCEPT ![b] = @ + 1]
    /\ UNCHANGED <<res, drv, queue, at, boot, op, group, clocks, ghosts>>

(* A callback on the domain may release a thread's reference for it.       *)
wtq_nw_conn_release(a, b) ==
    /\ MayCall(a) /\ held[b] > 0
    /\ a = b \/ (a = "domain" /\ op[b] = "none")
    /\ Drop(a)
    /\ held' = [held EXCEPT ![b] = @ - 1]
    /\ UNCHANGED <<res, drv, queue, at, boot, group, clocks, ghosts>>

nw_conn_handle_free(a) ==
    /\ op[a] = "free"
    /\ res' = res \ {"handle"} /\ op' = [op EXCEPT ![a] = "none"]
    /\ UNCHANGED <<conn, drv, queue, at, boot, held, group, clocks, ghosts>>

(* Mutant: the stop worker is enqueued at once, started or not.            *)
EnqueueAlways(c) == ~c.stop_enqueued
(* The stop worker may be enqueued: the group has started.                 *)
EnqueueNow(c) == c.start_state = "STARTED" /\ ~c.stop_enqueued
(* Mutant: posts stay accepted.                                            *)
LatchOpen(c) == [c EXCEPT !.stop_started = TRUE]
Latch(c) == [c EXCEPT !.stop_started = TRUE, !.closed = TRUE]

wtq_nw_conn_stop_begin(a) ==
    /\ MayCall(a) \/ op[a] = "implicit_stop"
    /\ LET c == Latch(conn) IN
       IF conn.stop_started
       THEN conn' = conn /\ op' = [op EXCEPT ![a] = "none"]
       ELSE /\ conn' = [c EXCEPT !.stop_enqueued = @ \/ EnqueueNow(c)]
            /\ op' = [op EXCEPT ![a] = IF EnqueueNow(c) THEN "enqueue_stop"
                                                       ELSE "none"]
    /\ UNCHANGED <<res, drv, queue, at, boot, held, group, clocks, ghosts>>

enqueue_stop(a) ==
    /\ op[a] = "enqueue_stop"
    /\ queue' = Append(queue, Block("stop"))
    /\ op' = [op EXCEPT ![a] = "none"]
    /\ UNCHANGED <<res, conn, drv, at, boot, held, group, clocks, ghosts>>

(* join is refused on the domain; elsewhere it waits on the condition.     *)
wtq_nw_conn_join(a) ==
    /\ a /= "domain" /\ MayCall(a)
    /\ op' = [op EXCEPT ![a] = "join"]
    /\ UNCHANGED <<res, conn, drv, queue, at, boot, held, group, clocks,
                   ghosts>>
join_returns(a) ==
    /\ op[a] = "join" /\ conn.stopped_done
    /\ op' = [op EXCEPT ![a] = "none"]
    /\ UNCHANGED <<res, conn, drv, queue, at, boot, held, group, clocks,
                   ghosts>>

-----------------------------------------------------------------------------
(* The start: nw_main_start_tramp, or the same steps in the creator when   *)
(* it is the main thread.                                                  *)

start_begins ==
    /\ boot = "queued" /\ boot' = "starting"
    /\ conn' = [conn EXCEPT !.start_state = "STARTING"]
    /\ UNCHANGED <<res, drv, queue, at, op, held, group, clocks, ghosts>>
nw_connection_group_start ==
    /\ boot = "starting" /\ boot' = "running"
    /\ group' = [group EXCEPT !.state = "up"]
    /\ UNCHANGED <<res, conn, drv, queue, at, op, held, clocks, ghosts>>
(* Mutant: a stop latched meanwhile is left to nobody.                     *)
StartedLatchLost(c) == FALSE
StartedLatch(c) == c.stop_started /\ ~c.stop_enqueued
start_ends ==
    /\ boot = "running" /\ boot' = "started"
    /\ conn' = [conn EXCEPT !.start_state = "STARTED",
                            !.stop_enqueued = @ \/ StartedLatch(conn)]
    /\ op' = [op EXCEPT !["main"] = IF StartedLatch(conn) THEN "enqueue_stop"
                                                          ELSE "none"]
    /\ UNCHANGED <<res, drv, queue, at, held, group, clocks, ghosts>>
start_releases ==
    /\ boot = "started" /\ op["main"] = "none" /\ boot' = "done"
    /\ Drop("main")
    /\ UNCHANGED <<res, drv, queue, at, held, group, clocks, ghosts>>

-----------------------------------------------------------------------------
(* Posts.                                                                  *)

wtq_nw_conn_post(a) ==
    /\ MayCall(a) /\ ~conn.closed
    /\ accepted < limit.posts /\ conn.refs < limit.refs
    /\ conn' = [conn EXCEPT !.refs = @ + 1]
    /\ accepted' = accepted + 1
    /\ queue' = Append(queue, [k |-> "post", n |-> accepted + 1])
    /\ UNCHANGED <<res, drv, at, boot, op, held, group, clocks, ran, rings,
                   owed, early>>

-----------------------------------------------------------------------------
(* The doorbell.  A source has at most one delivery on the queue.          *)

Pending(k) == \E i \in 1..Len(queue) : queue[i].k = k
Raise(k) == IF Pending(k) THEN queue ELSE Append(queue, Block(k))

wtq_nw_conn_doorbell_ring(a) ==
    /\ MayCall(a) /\ rings < limit.rings
    /\ ~conn.closed /\ "bell" \in res
    /\ queue' = Raise("bell") /\ rings' = rings + 1
    /\ UNCHANGED <<res, conn, drv, at, boot, op, held, group, clocks,
                   accepted, ran, owed, early>>

nw_doorbell_deadline_us(t, eff) ==
    IF eff > MaxUptime - t THEN MaxUptime ELSE t + eff
nw_doorbell_effective_delay_us(d) == IF d > MaxDelay THEN MaxDelay ELSE d

(* Mutant: the deadline is sampled after the timer was started.            *)
TimerStartBefore(t, eff) == {t + eff - 1, t + eff}
(* The deadline is sampled first: the dispatch timer starts then or later. *)
TimerStart(t, eff) == {t + eff, t + eff + 1}

(* delay 0 replaces the delayed arm by an immediate ring.                  *)
wtq_nw_conn_doorbell_ring_after(a, delay) ==
    /\ MayCall(a) /\ rings < limit.rings
    /\ ~conn.closed /\ conn.on_doorbell
    /\ rings' = rings + 1
    /\ LET eff == nw_doorbell_effective_delay_us(delay) IN
       IF delay = 0
       THEN /\ conn' = [conn EXCEPT !.armed = FALSE, !.deadline = 0]
            /\ timer' = Never /\ owed' = Never
            /\ queue' = Raise("bell")
       ELSE /\ conn' = [conn EXCEPT !.armed = TRUE,
                          !.deadline = nw_doorbell_deadline_us(now, eff)]
            /\ timer' \in TimerStart(now, eff)
            /\ owed' = now + eff
            /\ queue' = queue
    /\ UNCHANGED <<res, drv, at, boot, op, held, group, now, accepted, ran,
                   early>>

Disarm(c) == [c EXCEPT !.armed = FALSE, !.deadline = 0]
wtq_nw_conn_doorbell_cancel_after(a) ==
    /\ MayCall(a) /\ "timer" \in res /\ conn.armed
    /\ conn' = Disarm(conn) /\ timer' = Never /\ owed' = Never
    /\ UNCHANGED <<res, drv, queue, at, boot, op, held, group, now, accepted,
                   ran, rings, early>>

(* The clock matters only while the timer is set.                          *)
Tick == /\ now < limit.time /\ timer /= Never
        /\ now' = now + 1
        /\ UNCHANGED <<res, conn, drv, queue, at, boot, op, held, group,
                       timer, ghosts>>
(* The dispatch timer fires once and leaves a delivery on the queue.       *)
timer_expires ==
    /\ timer <= now /\ "timer" \in res
    /\ timer' = Never /\ queue' = Raise("timer")
    /\ UNCHANGED <<res, conn, drv, at, boot, op, held, group, now, ghosts>>

-----------------------------------------------------------------------------
(* The domain runs its blocks.                                             *)

Run(k) == /\ at = "idle" /\ op["domain"] = "none"
          /\ queue /= <<>> /\ Head(queue).k = k

nw_post_tramp ==
    /\ Run("post") /\ at' = "post" /\ queue' = Tail(queue)
    /\ ran' = Append(ran, Head(queue).n)
    /\ UNCHANGED <<res, conn, drv, boot, op, held, group, clocks, accepted,
                   rings, owed, early>>
(* The acceptance reference goes back.                                     *)
post_returns ==
    /\ at = "post" /\ op["domain"] = "none" /\ at' = "idle"
    /\ Drop("domain")
    /\ UNCHANGED <<res, drv, queue, boot, held, group, clocks, ghosts>>

(* A cancelled source delivers nothing.                                    *)
nw_doorbell_fire ==
    /\ Run("bell") /\ queue' = Tail(queue)
    /\ at' = IF "bell" \in res THEN "bell" ELSE "idle"
    /\ UNCHANGED <<res, conn, drv, boot, op, held, group, clocks, ghosts>>
bell_returns ==
    /\ at = "bell" /\ op["domain"] = "none" /\ at' = "idle"
    /\ UNCHANGED <<res, conn, drv, queue, boot, op, held, group, clocks,
                   ghosts>>

(* Mutant: any delivery of the timer is taken for the live arm.            *)
AnyFire(c) == c.armed /\ ~c.closed /\ Sources \subseteq res
(* A delivery that precedes the deadline is left over from an older arm.   *)
GenuineFire(c) == /\ c.armed /\ ~c.closed /\ Sources \subseteq res
                  /\ now >= c.deadline
nw_doorbell_timer_fire ==
    /\ Run("timer")
    /\ IF "timer" \in res /\ GenuineFire(conn)
       THEN /\ conn' = [conn EXCEPT !.armed = FALSE, !.deadline = 0]
            /\ timer' = Never
            /\ queue' = IF Pending("bell") THEN Tail(queue)
                        ELSE Append(Tail(queue), Block("bell"))
            /\ early' = (early \/ now < owed) /\ owed' = Never
       ELSE queue' = Tail(queue) /\ UNCHANGED <<conn, timer, early, owed>>
    /\ UNCHANGED <<res, drv, at, boot, op, held, group, now, accepted, ran,
                   rings>>

(* op_conn_close, seen from here: the children and the group are cancelled *)
(* once (NwStreams has the children).                                      *)
Close(d) == [d EXCEPT !.shutdown_started = TRUE]
CloseGroup(d) == [group EXCEPT !.cancel = @ \/ ~d.shutdown_started]
(* nw_maybe_schedule_finish: on_stopped waits for the transport's end and  *)
(* for the application's stop.                                             *)
FinishDue(d) == ~d.finish_scheduled /\ d.terminal_done /\ d.stop_started
Scheduled(d) == [d EXCEPT !.finish_scheduled = @ \/ FinishDue(d)]
FinishBlock(d) == IF FinishDue(d) THEN <<Block("finish")>> ELSE <<>>

nw_stop_worker ==
    /\ Run("stop")
    /\ LET d == [Close(drv) EXCEPT !.rundown = TRUE, !.stop_started = TRUE] IN
       /\ drv' = Scheduled(d) /\ group' = CloseGroup(drv)
       /\ queue' = Tail(queue) \o FinishBlock(d)
    /\ UNCHANGED <<res, conn, at, boot, op, held, clocks, ghosts>>

nw_doorbell_teardown(r) == r \ Sources
(* The last block: the doorbell dies, then on_stopped is called.           *)
nw_finish_worker ==
    /\ Run("finish") /\ at' = "stopped" /\ queue' = Tail(queue)
    /\ res' = nw_doorbell_teardown(res)
    /\ conn' = Disarm(conn) /\ timer' = Never /\ owed' = Never
    /\ UNCHANGED <<drv, boot, op, held, group, now, accepted, ran, rings,
                   early>>
(* on_stopped returned; whoever holds the last reference frees the handle. *)
stopped_returns ==
    /\ at = "stopped" /\ op["domain"] = "none" /\ at' = "unpin"
    /\ conn' = [conn EXCEPT !.stopped_done = TRUE, !.lifecycle_over = TRUE]
    /\ op' = [op EXCEPT !["domain"] = IF conn.refs = 0 THEN "free"
                                                       ELSE "none"]
    /\ UNCHANGED <<res, drv, queue, boot, held, group, clocks, ghosts>>

drv_free_if_done(pins) == IF pins = 0 THEN res \ {"driver", "group"} ELSE res
finish_unpins ==
    /\ at = "unpin" /\ op["domain"] = "none" /\ at' = "idle"
    /\ drv' = [drv EXCEPT !.pins = @ - 1]
    /\ res' = drv_free_if_done(drv.pins - 1)
    /\ UNCHANGED <<conn, queue, boot, op, held, group, clocks, ghosts>>

-----------------------------------------------------------------------------
(* The connection group (external) and its callbacks.                      *)

Report(s) ==
    /\ group' = [group EXCEPT !.state = s]
    /\ queue' = Append(queue, Block(s))
    /\ UNCHANGED <<res, conn, drv, at, boot, op, held, clocks, ghosts>>
Live == {"up", "asking", "trusted", "ready", "waiting"}
(* The handshake asks for the server's trust on the domain.                *)
GroupVerifies ==
    /\ group.state = "up" /\ ~group.cancel
    /\ group' = [group EXCEPT !.state = "asking"]
    /\ queue' = Append(queue, Block("verify"))
    /\ UNCHANGED <<res, conn, drv, at, boot, op, held, clocks, ghosts>>
GroupReady == group.state = "trusted" /\ ~group.cancel /\ Report("ready")
GroupWaiting == group.state = "up" /\ ~group.cancel /\ Report("waiting")
GroupFailed == group.state \in Live /\ Report("failed")
(* A cancel is reported whatever came before it: `cancelled' is the one    *)
(* final state, and a group that failed is cancelled to converge on it.    *)
GroupCancelled ==
    group.cancel /\ group.state \in Live \cup {"failed"} /\ Report("cancelled")

(* The first ready starts the session and extracts the datagram flow.      *)
group_ready ==
    /\ Run("ready") /\ queue' = Tail(queue)
    /\ IF ~drv.started /\ "session" \in res
       THEN \E k \in {0, 1} : /\ drv.kids + k <= limit.kids
                /\ drv' = [drv EXCEPT !.started = TRUE, !.pins = @ + k,
                                      !.kids = @ + k]
       ELSE drv' = drv
    /\ UNCHANGED <<res, conn, at, boot, op, held, group, clocks, ghosts>>
(* `waiting' is taken for a failure: the group is cancelled.               *)
group_waiting ==
    /\ Run("waiting") /\ queue' = Tail(queue)
    /\ drv' = Close(drv) /\ group' = CloseGroup(drv)
    /\ UNCHANGED <<res, conn, at, boot, op, held, clocks, ghosts>>
(* A rejected certificate: the cancel is left to a later turn.             *)
verify_rejects ==
    /\ Run("verify")
    /\ drv' = Close(drv)
    /\ queue' = Tail(queue) \o IF drv.shutdown_started THEN <<>>
                               ELSE <<Block("gcancel")>>
    /\ UNCHANGED <<res, conn, at, boot, op, held, group, clocks, ghosts>>
verify_accepts ==
    /\ Run("verify") /\ queue' = Tail(queue)
    /\ group' = [group EXCEPT !.state = IF @ = "asking" THEN "trusted" ELSE @]
    /\ UNCHANGED <<res, conn, drv, at, boot, op, held, clocks, ghosts>>
verify_cancels ==
    /\ Run("gcancel") /\ queue' = Tail(queue)
    /\ group' = [group EXCEPT !.cancel = TRUE]
    /\ UNCHANGED <<res, conn, drv, at, boot, op, held, clocks, ghosts>>
Terminal(d) == Scheduled([d EXCEPT !.terminal_done = TRUE])
(* group_handle_terminal, once; a failed group is then cancelled.          *)
group_handle_terminal ==
    /\ Run("failed") \/ Run("cancelled")
    /\ LET t == Terminal(drv) IN
       /\ drv' = IF Head(queue).k = "failed" THEN Close(t) ELSE t
       /\ group' = IF Head(queue).k = "failed" THEN CloseGroup(drv) ELSE group
       /\ queue' = Tail(queue) \o
            IF t.finish_scheduled /\ ~drv.finish_scheduled
            THEN <<Block("finish")>> ELSE <<>>
    /\ res' = res \ {"session"}
    /\ UNCHANGED <<conn, at, boot, op, held, clocks, ghosts>>

(* A stream shell is made (adopt_inbound, op_open) and, later, reaped.     *)
Calm == at = "idle" /\ op["domain"] = "none"
child_made ==
    /\ Calm /\ group.state = "ready" /\ drv.kids < limit.kids
    /\ drv' = [drv EXCEPT !.kids = @ + 1, !.pins = @ + 1]
    /\ UNCHANGED <<res, conn, queue, at, boot, op, held, group, clocks,
                   ghosts>>
child_reaped ==
    /\ Calm /\ drv.kids > 0
    /\ drv' = [drv EXCEPT !.kids = @ - 1, !.pins = @ - 1]
    /\ res' = drv_free_if_done(drv.pins - 1)
    /\ UNCHANGED <<conn, queue, at, boot, op, held, group, clocks, ghosts>>

-----------------------------------------------------------------------------
Calls(a) ==
    \/ \E b \in limit.threads : wtq_nw_conn_retain(a, b)
    \/ \E b \in limit.threads : wtq_nw_conn_release(a, b)
    \/ wtq_nw_conn_stop_begin(a) \/ wtq_nw_conn_join(a)
    \/ wtq_nw_conn_post(a)
    \/ wtq_nw_conn_doorbell_ring(a)
    \/ \E d \in limit.delays : wtq_nw_conn_doorbell_ring_after(a, d)
    \/ wtq_nw_conn_doorbell_cancel_after(a)
(* What a thread does by itself once it is inside a call.                  *)
Resumes(a) ==
    \/ enqueue_stop(a) \/ join_returns(a) \/ nw_conn_handle_free(a)
    \/ (op[a] = "implicit_stop" /\ wtq_nw_conn_stop_begin(a))
Starts == start_begins \/ nw_connection_group_start \/ start_ends
          \/ start_releases
Domain ==
    \/ nw_post_tramp \/ post_returns \/ nw_doorbell_fire \/ bell_returns
    \/ nw_doorbell_timer_fire \/ nw_stop_worker \/ nw_finish_worker
    \/ stopped_returns \/ finish_unpins \/ group_ready \/ group_waiting
    \/ verify_rejects \/ verify_accepts \/ verify_cancels
    \/ group_handle_terminal
NwGroup == GroupReady \/ GroupWaiting \/ GroupFailed \/ GroupCancelled
           \/ GroupVerifies
Step ==
    \/ nw_conn_build_fails \/ nw_conn_build \/ Starts
    \/ \E a \in Actors : Calls(a) \/ Resumes(a)
    \/ Domain \/ NwGroup \/ child_made \/ child_reaped
    \/ Tick \/ timer_expires

Next == Step /\ UNCHANGED limit

Spec == Init /\ [][Next]_<<vars, limit>>

(* Scheduling: threads, the main queue and the domain keep running, time   *)
(* passes, application callbacks return, a cancelled group reports it, and *)
(* a connection that is closing loses its children (NwStreams).            *)
Fairness ==
    /\ WF_vars(Starts) /\ WF_vars(Domain) /\ WF_vars(Tick)
    /\ WF_vars(timer_expires) /\ WF_vars(GroupCancelled)
    /\ WF_vars((drv.shutdown_started \/ drv.terminal_done) /\ child_reaped)
    /\ \A a \in Actors : WF_vars(Resumes(a))
FairSpec == Spec /\ Fairness

-----------------------------------------------------------------------------
(* The types of the variables.                                             *)
TypeOK ==
    /\ limit \in Limits /\ res \subseteq Resources
    /\ conn \in Handles /\ drv \in Drivers
    /\ queue \in Seq(Blocks)
    /\ at \in {"idle", "post", "bell", "stopped", "unpin"}
    /\ boot \in {"build", "failed", "queued", "starting", "running",
                 "started", "done"}
    /\ op \in [Actors -> {"none", "implicit_stop", "enqueue_stop", "free",
                          "join"}]
    /\ held \in [Actors -> 0..limit.refs]
    /\ group \in [state : Live \cup {"new", "failed", "cancelled"},
                  cancel : BOOLEAN]
    /\ now \in 0..limit.time /\ timer \in 0..Never
    /\ accepted \in 0..limit.posts /\ ran \in Seq(1..limit.posts)
    /\ rings \in 0..limit.rings /\ owed \in 0..Never /\ early \in BOOLEAN

(* The handle exists as long as somebody will touch it: an owner of a      *)
(* reference, a thread between a critical section and the end of its call, *)
(* an accepted post, a live doorbell source, a callback that is running,   *)
(* the start trampoline.  It is freed once.                                *)
Starting == boot \in {"queued", "starting", "running", "started"}
HandleOutlivesUsers ==
    /\ (\/ Starting \/ Pending("post") \/ res \cap Sources /= {}
        \/ at \in {"post", "bell", "stopped"}
        \/ \E a \in Actors : held[a] > 0
        \/ \E a \in Actors : op[a] \in {"implicit_stop", "free", "join"})
       => "handle" \in res
    /\ Cardinality({a \in Actors : op[a] = "free"}) <= 1

(* The group's report of `cancelled' when its `failed' has been handled    *)
(* (group_handle_terminal): rundown no longer waits for it.                *)
LateReport(b) == b.k = "cancelled" /\ drv.terminal_done

(* The driver, freed with its last pin, outlives every block on the queue  *)
(* that refers to it (the group's callbacks among them), its children, the *)
(* start, and a stop that is about to be enqueued.  A late report of the   *)
(* group is the exception: see CancelledFindsDriver.                       *)
DriverOutlivesBlocks ==
    (\/ boot \in {"queued", "starting"} \/ drv.kids > 0
     \/ at \in {"stopped", "unpin"}
     \/ \E a \in Actors : op[a] = "enqueue_stop"
     \/ \E i \in 1..Len(queue) :
            queue[i].k \notin {"post", "bell", "timer"} /\ ~LateReport(queue[i]))
    => "driver" \in res

(* What the comments of nw_internal.h and nw_conn.c say of every handler   *)
(* of Network.framework: memory a state handler captured is freed only     *)
(* once `cancelled' was observed, also when `failed' came before it.  The  *)
(* group's handler captures the driver, so a queued `cancelled' finds it.  *)
CancelledFindsDriver == Pending("cancelled") => "driver" \in res

(* wtq_nw_conn_post promises that an accepted post runs exactly once and   *)
(* in order of acceptance; stop_begin, that rundown starts after the last. *)
PostsBeforeRundown ==
    /\ ran = [i \in 1..Len(ran) |-> i]
    /\ drv.rundown => Len(ran) = accepted

(* Whoever will touch the handle or the driver finds it allocated, and no  *)
(* count or clock leaves its range.                                        *)
OwnersOutliveUsers == TypeOK /\ HandleOutlivesUsers /\ DriverOutlivesBlocks

(* A group that has not started is never cancelled (stop_begin before the  *)
(* queued start only latches).                                             *)
NoCancelBeforeStart == group.cancel => group.state /= "new"

(* on_stopped is the last the application hears: nothing on the queue will *)
(* call it after that, and it comes after every child's session is gone.   *)
StoppedIsLast ==
    (conn.stopped_done \/ at = "stopped") =>
        /\ "session" \notin res /\ res \cap Sources = {}
        /\ ~Pending("post") /\ ~Pending("stop") /\ ~Pending("finish")
        /\ at \notin {"post", "bell"} /\ Len(ran) = accepted

(* The order stop_begin promises: no cancel before the start, nothing      *)
(* after on_stopped.                                                       *)
StopInOrder == NoCancelBeforeStart /\ StoppedIsLast

(* A delayed ring is delivered for the latest arm only, after its delay,   *)
(* and not after it was cancelled, whatever older deliveries of the timer  *)
(* are still queued.                                                       *)
DelayedRingOnTime == ~early

(* Once stop has begun, on_stopped is delivered and join returns: whether  *)
(* the start was still queued, or the transport ended first.               *)
StopCompletes == conn.stop_started ~> conn.stopped_done

(* A handle all of whose references were dropped ends with everything      *)
(* released, stop_begin or not (the fail-safe implicit stop); so does a    *)
(* build that fails half way.                                              *)
DroppedIsReclaimed ==
    (boot /= "build" /\ \A a \in Actors : held[a] = 0)
        ~> (res = {} \/ \E a \in Actors : held[a] > 0)

(* A connection that is stopped or dropped comes to its end.               *)
EndsWhole == StopCompletes /\ DroppedIsReclaimed

(* A delayed arm rings, unless it is cancelled, replaced or overtaken by   *)
(* the stop: its one timer event is never mistaken for a stale one.        *)
ArmedRings == (conn.armed /\ owed < limit.time) ~> (~conn.armed \/ owed >= limit.time)
=============================================================================
