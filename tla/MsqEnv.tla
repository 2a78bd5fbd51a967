------------------------------- MODULE MsqEnv -------------------------------
(***************************************************************************)
(* The MsQuic backend's environment: who owns a connection, from the       *)
(* moment a thread of the program (wtquic_msquic_client_connect) or a      *)
(* listener callback of MsQuic starts to build it, to the worker's         *)
(* SHUTDOWN_COMPLETE, against wtq_msquic_env_close.  Sources:              *)
(* backends/msquic/msq_env.c, msq_client.c, msq_listener.c and the         *)
(* connection half of msq_conn.c.  Each action is one critical section of  *)
(* env->mu, or one callback that runs under the connection's guard;        *)
(* SHUTDOWN_COMPLETE is cut in four, because env_close can run between its *)
(* unregister and the free of the driver.                                  *)
(***************************************************************************)
EXTENDS Naturals, FiniteSets

CONSTANTS
    Clients,    \* connections the program opens
    Accepts,    \* connections MsQuic offers to a listener
    Listeners,
    Owned       \* the environment opened its own Registration

ASSUME EnvAssumption ==
    /\ Clients \cap Accepts = {}
    /\ Owned \in BOOLEAN

Conns == Clients \cup Accepts

VARIABLES
    env,     \* wtq_msquic_env: the closing latch and where env_close is
    lst,     \* per listener: where it is between start and free
    conn,    \* per connection: the driver, its MsQuic handle and its session
    busy     \* the connection whose session does more than connect and end

vars == <<env, lst, conn, busy>>

-----------------------------------------------------------------------------
(* State *)

\* pc: the thread building the connection; nat: the MsQuic connection; last:
\* how far its SHUTDOWN_COMPLETE has run; guard: who holds the caller's lock.
\* why is history: what has happened to the connection so far.
NoConn ==
    [pc |-> "none", by |-> "none", admitted |-> FALSE,
     drv |-> "none", nat |-> "none", queued |-> FALSE, run |-> FALSE,
     sess |-> FALSE, app |-> FALSE, tracked |-> FALSE, req |-> FALSE,
     kind |-> "none", cleanup |-> FALSE, started |-> FALSE, flush |-> FALSE,
     eng |-> "none", err |-> "unset", told |-> {}, guard |-> "free",
     last |-> "no", why |-> {}]

Init ==
    /\ env = [closing |-> FALSE, pc |-> "open"]
    /\ lst = [l \in Listeners |-> "none"]
    /\ conn = [c \in Conns |-> NoConn]
    /\ busy \in Conns

\* An API call of the program on the environment that has not returned.
CallRunning ==
    \/ \E c \in Clients : conn[c].pc \in {"opened", "linked"}
    \/ \E l \in Listeners : lst[l] \in {"open", "refused", "stopping"}

\* A listener callback that has not returned.
Accepting(l) ==
    \E c \in Conns : conn[c].by = l /\ conn[c].pc \in {"admitted", "built", "accepted"}

-----------------------------------------------------------------------------
(* The driver's own operations, on one connection record k *)

\* History: the first of the causes to shut the connection down, and the
\* first way its session ended in the engine.
Ends == {"ended", "fatal"}
Ours == {"env", "start", "id", "outside"}
Shuts == Ours \cup {"transport", "app"}
because(k, w) ==
    LET kind == IF w \in Ends THEN Ends ELSE Shuts
    IN IF k.why \cap kind = {} THEN [k EXCEPT !.why = @ \cup {w}] ELSE k

\* wtq_msq_conn_stage_local_cause: the first cause is kept.
stage_local_cause(k) ==
    IF k.kind # "none" \/ k.cleanup THEN k ELSE [k EXCEPT !.kind = "local"]

\* wtq_msq_conn_consume_env_close
consume_env_close(k) ==
    IF k.req THEN stage_local_cause([k EXCEPT !.req = FALSE]) ELSE k

\* conn_latch_error: write-once, in the engine.
latch_error(k, e) ==
    IF k.err = "unset" THEN [k EXCEPT !.err = e] ELSE k

\* conn_shutdown(err, cleanup): at most once; ConnectionShutdown only queues.
conn_shutdown(k, cleanup) ==
    IF k.started THEN k
    ELSE LET s == [k EXCEPT !.started = TRUE, !.queued = TRUE]
         IN IF cleanup THEN [s EXCEPT !.cleanup = TRUE] ELSE stage_local_cause(s)

\* conn_poll_shutdown, after every batch of engine input.
conn_poll_shutdown(k) ==
    CASE ~k.sess                            -> k
      [] k.sess /\ k.eng = "closed"         -> conn_shutdown(k, FALSE)
      [] k.sess /\ k.eng = "ended" /\ ~k.flush -> conn_shutdown(k, TRUE)
      [] OTHER                              -> k

\* wtq_msq_conn_put_error_detail: a shutdown that nobody staged is local,
\* unless it only retires the connection of a session that has ended.
put_error_detail(k) ==
    LET s == IF k.kind = "none" /\ ~k.cleanup THEN [k EXCEPT !.kind = "local"] ELSE k
    IN IF s.kind = "none" THEN s ELSE latch_error(s, s.kind)

\* wtq_conn_on_conn_closed: the engine's fallback record, then closed for
\* good; a session that has not ended yet gets its terminal callback.
on_conn_closed(k, remote) ==
    IF k.eng = "closed" THEN k
    ELSE [latch_error(k, IF remote THEN "app" ELSE "local") EXCEPT !.eng = "closed"]

\* conn_feed_closed
conn_feed_closed(k, remote) ==
    IF k.sess THEN conn_poll_shutdown(on_conn_closed(put_error_detail(k), remote)) ELSE k

\* A session nobody refers to is destroyed, with its engine.
forget(k) ==
    IF k.sess \/ k.app THEN k ELSE [k EXCEPT !.eng = "none", !.err = "unset", !.why = {}]

\* wtq_msq_conn_free on a connection that delivers nothing any more, and
\* wtq_msq_conn_abandon on one that was opened and never started:
\* ConnectionClose delivers its SHUTDOWN_COMPLETE synchronously there, and
\* the callback returns at once because of the abandon and sweeping marks.
conn_free(k) ==
    forget([k EXCEPT !.drv = "freed", !.nat = IF @ = "none" THEN "none" ELSE "closed",
                     !.queued = FALSE, !.run = FALSE, !.req = FALSE, !.kind = "none",
                     !.cleanup = FALSE, !.started = FALSE, !.flush = FALSE])

\* listener_abandon: the admitted child is handed back, under its guard.
listener_abandon(k) ==
    IF k.admitted THEN [k EXCEPT !.told = @ \cup {"abandon"}] ELSE k
\* Construction fails: the references built so far are released (the client
\* drops the caller's and the backend's) and the driver is freed.
discard(k) ==
    conn_free([k EXCEPT !.pc = "out", !.sess = FALSE, !.app = FALSE, !.guard = "free"])

-----------------------------------------------------------------------------
(* The client: wtq_msquic_client_connect *)

\* Driver, Configuration and connection are opened and the session is
\* created.  A guarded caller holds its guard across the whole call.  A
\* failure before ConnectionOpen leaves nothing behind and is not a step.
client_connect_opens(c) ==
    /\ conn[c].pc = "none"
    /\ ~env.closing
    /\ \E g \in BOOLEAN :
        LET k == [conn[c] EXCEPT !.pc = "opened", !.by = "client",
                                 !.guard = IF g THEN "app" ELSE "free",
                                 !.drv = "live", !.nat = "opened"]
        IN \/ conn' = [conn EXCEPT ![c] = [k EXCEPT !.sess = TRUE, !.app = TRUE, !.eng = "open"]]
           \/ conn' = [conn EXCEPT ![c] = discard(k)]
    /\ UNCHANGED <<env, lst, busy>>

\* Registration and ConnectionStart in one critical section: refused once
\* the environment is closing, and unlinked again when the start fails.
client_connect_starts(c) ==
    /\ conn[c].pc = "opened"
    /\ \/ /\ ~env.closing
          /\ conn' = [conn EXCEPT ![c].tracked = TRUE, ![c].nat = "up", ![c].pc = "linked"]
       \/ conn' = [conn EXCEPT ![c] = discard(@)]
    /\ UNCHANGED <<env, lst, busy>>

\* ConfigurationClose and return; a guarded caller then lets go of its guard.
client_connect_returns(c) ==
    /\ conn[c].pc = "linked"
    /\ conn' = [conn EXCEPT ![c].pc = "out",
                            ![c].guard = IF @ = "app" THEN "free" ELSE @]
    /\ UNCHANGED <<env, lst, busy>>

-----------------------------------------------------------------------------
(* The listener *)

\* wtq_msquic_listener_start up to ListenerStart: connections are offered
\* from here on, before the listener is registered.
listener_start(l) ==
    /\ lst[l] = "none"
    /\ ~env.closing
    /\ lst' = [lst EXCEPT ![l] = "open"]
    /\ UNCHANGED <<env, conn, busy>>

\* wtq_msq_env_listener_register; a refused listener is unwound.
env_listener_register(l) ==
    /\ lst[l] = "open"
    /\ lst' = [lst EXCEPT ![l] = IF env.closing THEN "refused" ELSE "tracked"]
    /\ UNCHANGED <<env, conn, busy>>

\* wtq_msquic_listener_stop: wtq_msq_env_listener_unregister, then the free.
listener_stop(l) ==
    /\ lst[l] = "tracked"
    /\ lst' = [lst EXCEPT ![l] = "stopping"]
    /\ UNCHANGED <<env, conn, busy>>
\* Mutant of listener_free: the callbacks in flight are not awaited.
listener_free_no_wait(l) ==
    /\ lst[l] \in {"refused", "stopping", "detached"}
    /\ lst[l] = "detached" => env.pc = "listeners"
    /\ lst' = [lst EXCEPT ![l] = "gone"]
    /\ UNCHANGED <<env, conn, busy>>

\* wtq_msq_listener_free: ListenerClose waits for the callbacks in flight.
listener_free(l) ==
    /\ lst[l] \in {"refused", "stopping", "detached"}
    /\ lst[l] = "detached" => env.pc = "listeners"
    /\ ~Accepting(l)
    /\ lst' = [lst EXCEPT ![l] = "gone"]
    /\ UNCHANGED <<env, conn, busy>>

\* NEW_CONNECTION: accept_prepare admits the child; a decision with half a
\* guard hands it back unguarded.  Without the hook every child
\* is taken and none is admitted.  A refusal constructs nothing: no step.
listener_callback(c, l) ==
    /\ conn[c].pc = "none"
    /\ lst[l] \in {"open", "tracked", "stopping", "detached", "refused"}
    /\ \/ \E h \in BOOLEAN :
            conn' = [conn EXCEPT ![c].pc = "admitted", ![c].by = l, ![c].admitted = h]
       \/ conn' = [conn EXCEPT ![c] = listener_abandon([@ EXCEPT !.pc = "out", !.admitted = TRUE])]
    /\ UNCHANGED <<env, lst, busy>>

\* wtq_msq_conn_new, the session and its serve table, still untracked.
accept_builds(c) ==
    /\ conn[c].pc = "admitted"
    /\ \/ conn' = [conn EXCEPT ![c].pc = "built", ![c].drv = "live", ![c].sess = TRUE,
                               ![c].eng = "open"]
       \/ conn' = [conn EXCEPT ![c] = listener_abandon([@ EXCEPT !.pc = "out"])]
       \/ conn' = [conn EXCEPT ![c] = listener_abandon(discard(@))]
    /\ UNCHANGED <<env, lst, busy>>
\* Mutant of env_conn_accept: the closing latch is not looked at.
env_conn_accept_unlatched(c) ==
    /\ conn[c].pc = "built"
    /\ conn' = [conn EXCEPT ![c].pc = "accepted", ![c].tracked = TRUE, ![c].nat = "new"]
    /\ UNCHANGED <<env, lst, busy>>

\* wtq_msq_env_conn_accept: the session, the handle and the membership are
\* published in one critical section, or refused once closing.
env_conn_accept(c) ==
    /\ conn[c].pc = "built"
    /\ conn' = [conn EXCEPT ![c] =
           IF env.closing THEN listener_abandon(discard(@))
           ELSE [@ EXCEPT !.pc = "accepted", !.tracked = TRUE, !.nat = "new"]]
    /\ UNCHANGED <<env, lst, busy>>
\* Mutants of accept_configures: the failed child is not handed back; the
\* driver is freed and stays on the list.
accept_configures_silent(c) ==
    /\ conn[c].pc = "accepted"
    /\ \/ conn' = [conn EXCEPT ![c].pc = "out", ![c].nat = "up"]
       \/ conn' = [conn EXCEPT ![c] = discard([@ EXCEPT !.tracked = FALSE])]
    /\ UNCHANGED <<env, lst, busy>>
accept_configures_listed(c) ==
    /\ conn[c].pc = "accepted"
    /\ \/ conn' = [conn EXCEPT ![c].pc = "out", ![c].nat = "up"]
       \/ conn' = [conn EXCEPT ![c] = listener_abandon(discard(@))]
    /\ UNCHANGED <<env, lst, busy>>

\* ConnectionSetConfiguration.  On failure MsQuic closes the connection and
\* delivers nothing to the handler; the driver is unregistered first.
accept_configures(c) ==
    /\ conn[c].pc = "accepted"
    /\ \/ conn' = [conn EXCEPT ![c].pc = "out", ![c].nat = "up"]
       \/ conn' = [conn EXCEPT ![c] = listener_abandon(discard([@ EXCEPT !.tracked = FALSE]))]
    /\ UNCHANGED <<env, lst, busy>>

-----------------------------------------------------------------------------
(* Events of a running connection.  Each callback runs under the guard. *)

\* The worker may enter the connection's callback.  Connections do not
\* interact but through the environment, so one of them is enough to run
\* the session's events; the others are built, shut down and freed.
Enters(c) ==
    /\ c = busy
    /\ conn[c].nat = "up"
    /\ conn[c].guard = "free"
    /\ UNCHANGED <<env, lst, busy>>

\* CONNECTED: the session starts, or its failure is a causal local shutdown.
conn_CONNECTED(c) ==
    /\ Enters(c)
    /\ ~conn[c].run
    /\ \/ conn' = [conn EXCEPT ![c] = conn_poll_shutdown([@ EXCEPT !.run = TRUE])]
       \/ conn' = [conn EXCEPT ![c] = conn_shutdown(conn_poll_shutdown(
               because([@ EXCEPT !.run = TRUE], "start")), FALSE)]

\* The session ends and the connection goes on: the program closes it, the
\* peer does, or it is refused.  The API seals the error record in the
\* terminal callback; what is still to be sent holds the connection open.
session_ends(c) ==
    /\ Enters(c)
    /\ conn[c].run
    /\ conn[c].eng = "open"
    /\ \E f \in BOOLEAN : conn' = [conn EXCEPT ![c] = conn_poll_shutdown(
           because([latch_error(@, "none") EXCEPT !.eng = "ended", !.flush = f], "ended"))]

\* START_COMPLETE reports another id than the driver computed: the terminal
\* input, with a local cause staged before it; the poll shuts down.
stream_START_COMPLETE_mismatch(c) ==
    /\ Enters(c)
    /\ conn[c].run
    /\ conn' = [conn EXCEPT ![c] =
           conn_feed_closed(stage_local_cause(because(@, "id")), FALSE)]

\* The last pending send completes.
sends_flushed(c) ==
    /\ Enters(c)
    /\ conn[c].flush
    /\ conn' = [conn EXCEPT ![c] = conn_poll_shutdown([@ EXCEPT !.flush = FALSE])]

\* conn_fatal: the error is latched before op_conn_close and before any
\* callback; the engine is closed.
engine_fatal(c) ==
    /\ Enters(c)
    /\ conn[c].run
    /\ conn[c].eng \in {"open", "ended"}
    /\ conn' = [conn EXCEPT ![c] = conn_poll_shutdown(conn_shutdown(
           because([latch_error(@, "app") EXCEPT !.eng = "closed"], "fatal"), FALSE))]

\* wtq_session_add_ref and wtq_session_release of the program, in a callback
\* or under the guard, or anywhere after env_close has returned.
session_add_ref(c) ==
    /\ Enters(c)
    /\ conn[c].run
    /\ ~conn[c].app
    /\ conn' = [conn EXCEPT ![c].app = TRUE]

session_release(c) ==
    /\ conn[c].app
    /\ conn[c].pc = "out"
    /\ conn[c].guard = "free" \/ env.pc = "done"
    /\ conn' = [conn EXCEPT ![c] = forget([@ EXCEPT !.app = FALSE])]
    /\ UNCHANGED <<env, lst, busy>>

\* Mutant: the event's own kind replaces what was staged before it.
conn_SHUTDOWN_INITIATED_last(c, k, remote) ==
    /\ Enters(c)
    /\ conn' = [conn EXCEPT ![c] =
           LET q == consume_env_close(because([@ EXCEPT !.nat = "dying"], k))
           IN conn_feed_closed([q EXCEPT !.kind = k], remote)]

\* SHUTDOWN_INITIATED_BY_TRANSPORT and _BY_PEER: the environment's request
\* is consumed before the event is classified.
conn_SHUTDOWN_INITIATED(c, k, remote) ==
    /\ Enters(c)
    /\ conn' = [conn EXCEPT ![c] =
           LET q == consume_env_close(because([@ EXCEPT !.nat = "dying"], k))
               s == IF q.kind = "none" /\ ~q.cleanup THEN [q EXCEPT !.kind = k] ELSE q
           IN conn_feed_closed(s, remote)]

conn_BY_TRANSPORT(c) == conn_SHUTDOWN_INITIATED(c, "transport", FALSE)
conn_BY_PEER(c) == conn_SHUTDOWN_INITIATED(c, "app", TRUE)

\* MsQuic runs the queued ConnectionShutdown; the handshake is over or not.
ShutdownRuns(c) ==
    /\ conn[c].nat = "up"
    /\ conn[c].queued
    /\ conn' = [conn EXCEPT ![c].nat = "dying", ![c].queued = FALSE]
    /\ UNCHANGED <<env, lst, busy>>

\* The owner of a borrowed Registration shuts the connection down itself;
\* the driver only sees it complete.
ShutdownOutside(c) ==
    /\ ~Owned
    /\ conn[c].nat = "up"
    /\ conn' = [conn EXCEPT ![c] =
           because([@ EXCEPT !.nat = "dying", !.queued = FALSE], "outside")]
    /\ UNCHANGED <<env, lst, busy>>

\* SHUTDOWN_COMPLETE, the session's part: the error detail, the terminal
\* input, the quiescence hook, and the backend's reference.
conn_quiesces(k) ==
    [on_conn_closed(put_error_detail(k), FALSE) EXCEPT !.sess = FALSE,
                                                       !.told = @ \cup {"quiesced"}]
conn_SHUTDOWN_COMPLETE(c) ==
    /\ conn[c].nat = "dying"
    /\ conn[c].guard = "free"
    /\ conn' = [conn EXCEPT ![c] =
           LET q == [consume_env_close(@) EXCEPT !.nat = "over", !.last = "released",
                                                 !.guard = "worker"]
           IN IF q.sess THEN conn_quiesces(q) ELSE q]
    /\ UNCHANGED <<env, lst, busy>>

\* wtq_msq_env_conn_unregister
env_conn_unregister(c) ==
    /\ conn[c].last = "released"
    /\ conn' = [conn EXCEPT ![c].last = "unlisted", ![c].tracked = FALSE]
    /\ UNCHANGED <<env, lst, busy>>

\* wtq_msq_conn_free at the end of SHUTDOWN_COMPLETE
conn_frees(c) ==
    /\ conn[c].last = "unlisted"
    /\ conn' = [conn EXCEPT ![c] = [conn_free(@) EXCEPT !.last = "freed"]]
    /\ UNCHANGED <<env, lst, busy>>

\* The callback leaves the guard (whose ctx it copied) and returns.
conn_leaves(c) ==
    /\ conn[c].last = "freed"
    /\ conn' = [conn EXCEPT ![c].last = "done", ![c].guard = "free"]
    /\ UNCHANGED <<env, lst, busy>>

-----------------------------------------------------------------------------
(* wtq_msquic_env_close *)

\* 1. The latch; the tracked listeners are detached.
env_close_latches ==
    /\ env.pc = "open"
    /\ env' = [closing |-> TRUE, pc |-> "listeners"]
    /\ lst' = [l \in Listeners |-> IF lst[l] = "tracked" THEN "detached" ELSE lst[l]]
    /\ UNCHANGED <<conn, busy>>

\* 2. is listener_free on each detached listener; 3. shuts every tracked
\* connection down, leaving the request for its worker.
env_close_walks ==
    /\ env.pc = "listeners"
    /\ \A l \in Listeners : lst[l] # "detached"
    /\ env' = [env EXCEPT !.pc = "wait"]
    /\ conn' = [c \in Conns |->
           IF conn[c].tracked
           THEN because([conn[c] EXCEPT !.req = TRUE,
                             !.queued = conn[c].nat \in {"new", "up"}], "env")
           ELSE conn[c]]
    /\ UNCHANGED <<lst, busy>>

\* 4. waits for the last connection to unregister.
env_close_waits ==
    /\ env.pc = "wait"
    /\ \A c \in Conns : ~conn[c].tracked
    /\ env' = [env EXCEPT !.pc = "free"]
    /\ UNCHANGED <<lst, conn, busy>>

\* 5. env_free.  RegistrationClose of an owned Registration waits until
\* MsQuic has let go of every connection of it.  The program does not let
\* the environment go while a call of its own on it is running.
env_free ==
    /\ env.pc = "free"
    /\ ~CallRunning
    /\ Owned => \A c \in Conns : conn[c].nat \in {"none", "closed"} /\ conn[c].last \in {"no", "done"}
    /\ env' = [env EXCEPT !.pc = "done"]
    /\ UNCHANGED <<lst, conn, busy>>

-----------------------------------------------------------------------------
(* Specification *)

ClientStep(c) ==
    \/ client_connect_opens(c)
    \/ client_connect_starts(c)
    \/ client_connect_returns(c)

AcceptStep(c) ==
    \/ \E l \in Listeners : listener_callback(c, l)
    \/ accept_builds(c)
    \/ env_conn_accept(c)
    \/ accept_configures(c)

ConnStep(c) ==
    \/ conn_CONNECTED(c)
    \/ session_ends(c)
    \/ stream_START_COMPLETE_mismatch(c)
    \/ sends_flushed(c)
    \/ engine_fatal(c)
    \/ session_add_ref(c)
    \/ session_release(c)
    \/ conn_BY_TRANSPORT(c)
    \/ conn_BY_PEER(c)
    \/ ShutdownRuns(c)
    \/ ShutdownOutside(c)
    \/ conn_SHUTDOWN_COMPLETE(c)
    \/ env_conn_unregister(c)
    \/ conn_frees(c)
    \/ conn_leaves(c)

ListenerStep(l) ==
    \/ listener_start(l)
    \/ env_listener_register(l)
    \/ listener_stop(l)
    \/ listener_free(l)

EnvStep ==
    \/ env_close_latches
    \/ env_close_walks
    \/ env_close_waits
    \/ env_free

Next ==
    \/ \E c \in Clients : ClientStep(c)
    \/ \E c \in Accepts : AcceptStep(c)
    \/ \E c \in Conns : ConnStep(c)
    \/ \E l \in Listeners : ListenerStep(l)
    \/ EnvStep

Spec == Init /\ [][Next]_vars

\* Threads that are inside a call go on, MsQuic runs the shutdown that is
\* queued and delivers the SHUTDOWN_COMPLETE it owes; a NEW_CONNECTION
\* callback that has begun ends.  Nothing else is promised: neither a peer
\* that answers, nor a send that completes, nor a program that releases.
Fairness ==
    /\ \A c \in Clients : WF_vars(client_connect_starts(c)) /\ WF_vars(client_connect_returns(c))
    /\ \A c \in Accepts : WF_vars(accept_builds(c) \/ env_conn_accept(c) \/ accept_configures(c))
    /\ \A c \in Conns : WF_vars(ShutdownRuns(c)) /\ WF_vars(conn_SHUTDOWN_COMPLETE(c))
                        /\ WF_vars(env_conn_unregister(c) \/ conn_frees(c) \/ conn_leaves(c))
    /\ \A l \in Listeners : WF_vars(env_listener_register(l)) /\ WF_vars(listener_free(l))
    /\ WF_vars(env_close_walks \/ env_close_waits \/ env_free)

FairSpec == Spec /\ Fairness

-----------------------------------------------------------------------------
(* Properties *)

\* Nobody is left who would touch the environment once env_close has freed
\* it: no tracked connection or one about to unregister, no listener, no
\* accept in flight (the listener callback reads l->env at every step).
EnvOutlivesChildren ==
    env.pc = "done" =>
        /\ \A c \in Conns : ~conn[c].tracked /\ conn[c].last # "released"
        /\ \A l \in Listeners : lst[l] \in {"none", "gone"} /\ ~Accepting(l)

\* A connection that can still deliver an event is on the environment's list
\* with a live driver, and once env_close has walked the list it has been
\* told to shut down: no race of a connect, an accept or a listener start
\* with the latch leaves one running that env_close neither ends nor awaits.
NoStrayConnection ==
    \A c \in Conns :
        /\ conn[c].nat \in {"new", "up", "dying"} => conn[c].tracked /\ conn[c].drv = "live"
        /\ conn[c].nat = "up" /\ env.pc \in {"wait", "free", "done"} => conn[c].queued

\* Every child that accept_prepare admitted is handed back exactly once: by
\* accept_abandon if it never ran, by on_transport_quiesced if it did, and
\* not before.
AdmittedToldOnce ==
    \A c \in Accepts :
        /\ conn[c].admitted => Cardinality(conn[c].told) <= 1
        /\ conn[c].told = {"abandon"} => conn[c].nat \in {"none", "closed"} /\ conn[c].last = "no"
        /\ conn[c].told = {"quiesced"} => conn[c].eng \in {"closed", "none"}
        /\ conn[c].admitted /\ conn[c].pc = "out" /\ conn[c].drv # "live" => conn[c].told # {}

\* The record the program reads after the end names what came first: how
\* the engine ended the session, or else the first cause to shut the
\* connection down, local only when that was on this side.  Retiring the
\* connection of an ended session never looks like an error, whatever ends
\* that connection then.
ErrorIsFirstCause ==
    \A c \in Conns :
        LET k == conn[c] IN
        /\ "ended" \in k.why => k.err = "none"
        /\ "fatal" \in k.why => k.err = "app"
        /\ k.err = "unset" => k.eng \in {"none", "open"}
        /\ k.err # "unset" /\ k.why \cap Ends = {} =>
               IF k.why \cap Ours # {} THEN k.err = "local" ELSE k.err \in k.why

\* A session the program still holds either has a driver behind it, whose
\* MsQuic handle is open, or an engine that calls no driver operation again.
HeldSessionHasDriver ==
    \A c \in Conns :
        conn[c].app /\ conn[c].eng # "closed" =>
            conn[c].drv = "live" /\ conn[c].nat \in {"opened", "new", "up", "dying"}

\* Whoever still refers to an environment or a driver finds it there.
OwnersOutliveUsers == EnvOutlivesChildren /\ HeldSessionHasDriver

\* env_close returns: neither a child it cannot shut down, nor a listener
\* that never drains, nor a worker that waits for a guard, holds it up.
EnvCloseReturns == env.closing ~> (env.pc = "done")
=============================================================================
