---------------------------- MODULE MsqEnv_proof ----------------------------
(***************************************************************************)
(* Proofs about MsqEnv, for every number of clients, accepted connections  *)
(* and listeners and for owned and borrowed Registrations: no connection   *)
(* escapes wtq_msquic_env_close, whoever refers to the environment or to a *)
(* driver finds it there, an admitted child is handed back once, and an    *)
(* error record names the first cause of the end.                          *)
(***************************************************************************)
EXTENDS MsqEnv, FiniteSetTheorems, TLAPS

-----------------------------------------------------------------------------
(* The inductive invariant.                                                *)

\* The fields of a connection record.
Fields == {"pc", "by", "admitted", "drv", "nat", "queued", "run", "sess", "app",
           "tracked", "req", "kind", "cleanup", "started", "flush", "eng",
           "err", "told", "guard", "last", "why"}

\* MsQuic has the connection and will deliver SHUTDOWN_COMPLETE for it.
Delivers == {"new", "up", "dying"}
\* A listener whose callback may be running.
Serving == {"open", "tracked", "stopping", "detached", "refused"}

\* Where a connection is, by the thread that builds it, its MsQuic handle
\* and its last callback: what each of them implies for the driver, the
\* environment's list and the backend's reference to the session.
Placed(k) ==
    /\ k.pc \in {"none", "admitted"} =>
           k.nat = "none" /\ k.drv = "none" /\ k.last = "no"
    /\ k.pc = "opened" => k.nat = "opened"
    /\ k.pc = "built" =>
           k.nat = "none" /\ k.drv = "live" /\ k.last = "no" /\ k.sess
    /\ k.pc = "accepted" <=> k.nat = "new"
    /\ k.nat \in Delivers \cup {"opened"} =>
           k.drv = "live" /\ k.sess /\ k.last = "no"
    /\ k.nat = "over" <=> k.last \in {"released", "unlisted"}
    /\ k.nat = "over" => ~k.sess
    /\ k.tracked <=> (k.nat \in Delivers \/ k.last = "released")

\* A reference of the program, and what the child's owner has been told.
Accounted(k) ==
    /\ k.pc \in {"none", "admitted"} => ~k.app
    /\ k.app => k.eng = "closed" \/ k.nat \in Delivers \cup {"opened"}
    /\ k.told \in {{}, {"abandon"}, {"quiesced"}}
    /\ \/ k.pc \in {"none", "admitted", "opened", "built", "accepted"}
       \/ k.nat \in Delivers
       => k.told = {}
    /\ k.pc \in {"none", "opened", "linked"} => ~k.admitted
    /\ k.told = {"abandon"} => k.nat \in {"none", "closed"} /\ k.last = "no"
    /\ k.told = {"quiesced"} => k.eng \in {"closed", "none"}
    /\ k.last # "no" => k.told # {}
    /\ k.admitted /\ k.pc = "out" /\ k.drv # "live" => k.told # {}

\* What env_close has reached, for one connection.
Reached(k) ==
    /\ env.pc \in {"wait", "free", "done"} /\ k.nat \in {"new", "up"} => k.queued
    /\ env.pc \in {"free", "done"} => ~k.tracked
    /\ k.pc \in {"admitted", "built", "accepted"} =>
           k.by \in Listeners /\ lst[k.by] \in Serving

Good(k) == DOMAIN k = Fields /\ Placed(k) /\ Accounted(k) /\ Reached(k)

\* The latch, and the listeners it detached.
Latched ==
    /\ env \in [closing : BOOLEAN,
                pc : {"open", "listeners", "wait", "free", "done"}]
    /\ env.closing <=> env.pc # "open"
    /\ lst \in [Listeners -> Serving \cup {"none", "gone"}]
    /\ \A l \in Listeners :
         /\ env.closing => lst[l] # "tracked"
         /\ env.pc \in {"wait", "free", "done"} => lst[l] # "detached"
         /\ env.pc = "done" => lst[l] \in {"none", "gone"}

IInv == Latched /\ DOMAIN conn = Conns /\ \A c \in Conns : Good(conn[c])

-----------------------------------------------------------------------------
(* The driver's operations on one connection.                              *)

\* m is k after operations that only note causes, errors and shutdowns;
\* Kept says in addition that the engine is at most closed by them.
Noted(k, m) ==
    /\ DOMAIN m = Fields
    /\ m.pc = k.pc /\ m.by = k.by /\ m.admitted = k.admitted
    /\ m.drv = k.drv /\ m.nat = k.nat /\ m.sess = k.sess /\ m.app = k.app
    /\ m.tracked = k.tracked /\ m.told = k.told /\ m.last = k.last
    /\ k.queued => m.queued
Kept(k, m) == Noted(k, m) /\ m.eng \in {k.eng, "closed"}

\* conn_shutdown only notes.
LEMMA ShutdownKeeps ==
    ASSUME NEW k, DOMAIN k = Fields, NEW b \in BOOLEAN
    PROVE  Kept(k, conn_shutdown(k, b)) /\ conn_shutdown(k, b).eng = k.eng
  BY DEF Kept, Noted, Fields, conn_shutdown, stage_local_cause

\* conn_poll_shutdown only notes.
LEMMA PollKeeps ==
    ASSUME NEW k, DOMAIN k = Fields
    PROVE  Kept(k, conn_poll_shutdown(k)) /\ conn_poll_shutdown(k).eng = k.eng
<1>1. conn_poll_shutdown(k) \in {k, conn_shutdown(k, FALSE), conn_shutdown(k, TRUE)}
  BY DEF conn_poll_shutdown
<1>2. Kept(k, k)
  BY DEF Kept, Noted
<1> QED BY <1>1, <1>2, ShutdownKeeps

\* wtq_msq_conn_consume_env_close only notes.
LEMMA ConsumeKeeps ==
    ASSUME NEW k, DOMAIN k = Fields
    PROVE  Kept(k, consume_env_close(k)) /\ consume_env_close(k).eng = k.eng
  BY DEF Kept, Noted, Fields, consume_env_close, stage_local_cause

\* The error detail of the terminal, and the engine's terminal input.
LEMMA ClosedKeeps ==
    ASSUME NEW k, DOMAIN k = Fields, NEW r \in BOOLEAN
    PROVE  /\ Kept(k, on_conn_closed(put_error_detail(k), r))
           /\ on_conn_closed(put_error_detail(k), r).eng = "closed"
<1>1. Kept(k, put_error_detail(k))
  BY DEF Kept, Noted, Fields, put_error_detail, latch_error
<1>2. ASSUME NEW m, DOMAIN m = Fields
      PROVE  Kept(m, on_conn_closed(m, r)) /\ on_conn_closed(m, r).eng = "closed"
  <2>1. ASSUME NEW x PROVE Kept(m, latch_error(m, x))
    BY <1>2 DEF Kept, Noted, Fields, latch_error
  <2>2. ASSUME NEW e, Kept(m, e) PROVE Kept(m, [e EXCEPT !.eng = "closed"])
    <3>1. Kept(e, [e EXCEPT !.eng = "closed"])
      BY <2>2 DEF Kept, Noted, Fields
    <3>2. [e EXCEPT !.eng = "closed"].eng = "closed"
      BY <2>2 DEF Kept, Noted, Fields
    <3> DEFINE f == [e EXCEPT !.eng = "closed"]
    <3> HIDE DEF f
    <3>3. Kept(e, f) /\ f.eng = "closed"
      BY <3>1, <3>2 DEF f
    <3>4. Kept(m, f)
      BY <2>2, <3>3 DEF Kept, Noted
    <3> QED BY <3>4 DEF f
  <2>3. ASSUME NEW e, DOMAIN e = Fields PROVE [e EXCEPT !.eng = "closed"].eng = "closed"
    BY DEF Fields
  <2>4. CASE m.eng = "closed"
    BY <1>2, <2>4 DEF on_conn_closed, Kept, Noted
  <2>5. CASE m.eng # "closed"
    BY <2>1, <2>2, <2>3, <2>5 DEF on_conn_closed, Kept, Noted
  <2> QED BY <2>4, <2>5
<1> QED BY <1>1, <1>2 DEF Kept, Noted

\* The terminal input of a connection MsQuic or the peer shuts down.
LEMMA FeedKeeps ==
    ASSUME NEW k, DOMAIN k = Fields, NEW r \in BOOLEAN
    PROVE  Kept(k, conn_feed_closed(k, r))
<1>1. CASE k.sess
  <2>1. Kept(k, on_conn_closed(put_error_detail(k), r))
    BY ClosedKeeps
  <2>2. Kept(on_conn_closed(put_error_detail(k), r), conn_feed_closed(k, r))
    BY <1>1, <2>1, PollKeeps DEF conn_feed_closed, Kept, Noted
  <2> QED BY <2>1, <2>2, ClosedKeeps DEF Kept, Noted
<1>2. CASE ~k.sess
  BY <1>2 DEF conn_feed_closed, Kept, Noted
<1> QED BY <1>1, <1>2

\* What is left of a connection whose construction failed.
LEMMA DiscardFacts ==
    ASSUME NEW k, DOMAIN k = Fields
    PROVE  /\ DOMAIN discard(k) = Fields /\ discard(k).pc = "out"
           /\ discard(k).nat \in {"none", "closed"} /\ ~discard(k).app
           /\ discard(k).admitted = k.admitted /\ discard(k).told = k.told
           /\ discard(k).tracked = k.tracked /\ discard(k).last = k.last
  BY DEF Fields, discard, conn_free, forget

-----------------------------------------------------------------------------
(* Good places.                                                            *)

\* Notes do not move a connection.
LEMMA KeptIsGood ==
    ASSUME NEW k, Good(k), NEW m, Kept(k, m)
    PROVE  Good(m)
<1> USE DEF Kept, Noted, Good
<1>1. Placed(m)
  BY DEF Placed
<1>2. Accounted(m)
  BY DEF Accounted
<1>3. Reached(m)
  BY DEF Reached
<1> QED BY <1>1, <1>2, <1>3

\* Neither do they, whatever the engine's state, while events are delivered.
LEMMA NotedIsGood ==
    ASSUME NEW k, Good(k), k.nat \in Delivers, NEW m, Noted(k, m)
    PROVE  Good(m)
<1> USE DEF Noted, Good
<1>1. Placed(m)
  BY DEF Placed
<1>2. Accounted(m)
  BY DEF Accounted
<1>3. Reached(m)
  BY DEF Reached
<1> QED BY <1>1, <1>2, <1>3

\* A connection without a driver that nobody has started is handed back.
LEMMA AbandonGood ==
    ASSUME NEW d, DOMAIN d = Fields, d.pc = "out", d.nat \in {"none", "closed"},
           ~d.app, d.told = {}, ~d.tracked, d.last = "no"
    PROVE  Good(listener_abandon(d)) /\ (~d.admitted => Good(d))
<1>1. CASE ~d.admitted
  BY <1>1 DEF listener_abandon, Good, Placed, Accounted, Reached, Delivers
<1>2. CASE d.admitted
  <2> DEFINE m == [d EXCEPT !.told = @ \cup {"abandon"}]
  <2>1. /\ DOMAIN m = Fields /\ m.pc = "out" /\ m.nat \in {"none", "closed"}
        /\ ~m.app /\ m.told = {"abandon"} /\ ~m.tracked /\ m.last = "no"
    BY DEF Fields
  <2>2. listener_abandon(d) = m
    BY <1>2 DEF listener_abandon
  <2> HIDE DEF m
  <2>3. Good(m)
    BY <2>1 DEF Good, Placed, Accounted, Reached, Delivers
  <2> QED BY <1>2, <2>2, <2>3
<1> QED BY <1>1, <1>2

\* A failed construction ends in a good place.
LEMMA DiscardGood ==
    ASSUME NEW k, DOMAIN k = Fields, k.told = {}, ~k.tracked, k.last = "no"
    PROVE  /\ Good(listener_abandon(discard(k)))
           /\ ~k.admitted => Good(discard(k))
<1>1. /\ DOMAIN discard(k) = Fields /\ discard(k).pc = "out" /\ ~discard(k).app
      /\ discard(k).nat \in {"none", "closed"}
      /\ discard(k).admitted = k.admitted /\ discard(k).told = {}
      /\ ~discard(k).tracked /\ discard(k).last = "no"
  BY DiscardFacts
<1> QED BY <1>1, AbandonGood

\* A step that moves one connection to a good place.
LEMMA Move ==
    ASSUME IInv, NEW c \in Conns, NEW k, Good(k),
           conn' = [conn EXCEPT ![c] = k], UNCHANGED <<env, lst>>
    PROVE  IInv'
<1>1. DOMAIN conn' = Conns
  BY DEF IInv
<1>2. ASSUME NEW x \in Conns PROVE Good(conn[x])'
  <2>1. Good(conn'[x])
    BY DEF IInv
  <2> QED BY <2>1 DEF Good, Placed, Accounted, Reached
<1>3. Latched'
  BY DEF IInv, Latched
<1> QED BY <1>1, <1>2, <1>3 DEF IInv

-----------------------------------------------------------------------------
(* Building a connection.                                                  *)

\* Driver, connection and session of a client are built, or given up.
LEMMA ClientOpensKeeps ==
    ASSUME IInv, NEW c \in Clients, client_connect_opens(c)
    PROVE  IInv'
<1>1. c \in Conns /\ Good(conn[c]) /\ DOMAIN conn[c] = Fields
  BY DEF Conns, IInv, Good
<1>2. PICK g \in BOOLEAN :
        LET k == [conn[c] EXCEPT !.pc = "opened", !.by = "client",
                                 !.guard = IF g THEN "app" ELSE "free",
                                 !.drv = "live", !.nat = "opened"]
        IN \/ conn' = [conn EXCEPT ![c] = [k EXCEPT !.sess = TRUE, !.app = TRUE, !.eng = "open"]]
           \/ conn' = [conn EXCEPT ![c] = discard(k)]
  BY DEF client_connect_opens
<1> DEFINE k == [conn[c] EXCEPT !.pc = "opened", !.by = "client",
                                !.guard = IF g THEN "app" ELSE "free",
                                !.drv = "live", !.nat = "opened"]
           m == [k EXCEPT !.sess = TRUE, !.app = TRUE, !.eng = "open"]
<1>3. /\ DOMAIN k = Fields /\ k.pc = "opened" /\ k.drv = "live"
      /\ k.nat = "opened" /\ k.told = {} /\ ~k.tracked /\ k.last = "no"
      /\ ~k.admitted
  BY <1>1 DEF client_connect_opens, Fields, Good, Placed, Accounted, Delivers
<1>4. conn' \in {[conn EXCEPT ![c] = m], [conn EXCEPT ![c] = discard(k)]}
  BY <1>2
<1> HIDE DEF k
<1>5. /\ DOMAIN m = Fields /\ m.pc = "opened" /\ m.drv = "live" /\ m.sess
      /\ m.nat = "opened" /\ m.told = {} /\ ~m.tracked /\ m.last = "no"
      /\ ~m.admitted
  BY <1>3 DEF Fields
<1> HIDE DEF m
<1>6. Good(m)
  BY <1>5 DEF Good, Placed, Accounted, Reached, Delivers
<1>7. Good(discard(k))
  BY <1>3, DiscardGood
<1> QED BY <1>1, <1>4, <1>6, <1>7, Move DEF client_connect_opens

\* ConnectionStart in the critical section that looks at the latch.
LEMMA ClientStartsKeeps ==
    ASSUME IInv, NEW c \in Clients, client_connect_starts(c)
    PROVE  IInv'
<1>1. c \in Conns /\ Good(conn[c]) /\ DOMAIN conn[c] = Fields
  BY DEF Conns, IInv, Good
<1>2. /\ conn[c].pc = "opened" /\ conn[c].told = {} /\ ~conn[c].tracked
      /\ conn[c].last = "no" /\ ~conn[c].admitted
  BY <1>1 DEF client_connect_starts, Good, Placed, Accounted, Delivers
<1>3. CASE ~env.closing /\ conn' = [conn EXCEPT ![c].tracked = TRUE,
                                     ![c].nat = "up", ![c].pc = "linked"]
  <2> DEFINE m == [conn[c] EXCEPT !.tracked = TRUE, !.nat = "up", !.pc = "linked"]
  <2>1. conn' = [conn EXCEPT ![c] = m]
    BY <1>1, <1>3 DEF IInv
  <2>2. /\ DOMAIN m = Fields /\ m.pc = "linked" /\ m.nat = "up" /\ m.tracked
        /\ m.drv = conn[c].drv /\ m.sess = conn[c].sess /\ m.told = {}
        /\ m.last = "no" /\ ~m.admitted
    BY <1>1, <1>2 DEF Fields
  <2> HIDE DEF m
  <2>3. env.pc = "open"
    BY <1>3 DEF IInv, Latched
  <2>4. Good(m)
    BY <1>1, <1>2, <2>2, <2>3 DEF Good, Placed, Accounted, Reached, Delivers
  <2> QED BY <1>1, <2>1, <2>4, Move DEF client_connect_starts
<1>4. CASE conn' = [conn EXCEPT ![c] = discard(@)]
  <2>1. Good(discard(conn[c]))
    BY <1>1, <1>2, DiscardGood
  <2> QED BY <1>1, <1>4, <2>1, Move DEF client_connect_starts, IInv
<1> QED BY <1>3, <1>4 DEF client_connect_starts

\* The call of the client returns.
LEMMA ClientReturnsKeeps ==
    ASSUME IInv, NEW c \in Clients, client_connect_returns(c)
    PROVE  IInv'
<1>1. c \in Conns /\ Good(conn[c]) /\ DOMAIN conn[c] = Fields
  BY DEF Conns, IInv, Good
<1> DEFINE m == [conn[c] EXCEPT !.pc = "out",
                                !.guard = IF @ = "app" THEN "free" ELSE @]
<1>2. conn' = [conn EXCEPT ![c] = m]
  BY <1>1 DEF IInv, client_connect_returns
<1>3. Kept([conn[c] EXCEPT !.pc = "out"], m) /\ m.pc = "out" /\ m.eng = conn[c].eng
      /\ m.queued = conn[c].queued
  BY <1>1 DEF Kept, Noted, Fields
<1> HIDE DEF m
<1>4. /\ DOMAIN m = Fields /\ m.pc = "out" /\ m.admitted = conn[c].admitted
      /\ m.drv = conn[c].drv /\ m.nat = conn[c].nat /\ m.sess = conn[c].sess
      /\ m.app = conn[c].app /\ m.tracked = conn[c].tracked
      /\ m.told = conn[c].told /\ m.last = conn[c].last
  BY <1>1, <1>3 DEF Kept, Noted, Fields
<1>5. Good(m)
  BY <1>1, <1>3, <1>4
  DEF client_connect_returns, Good, Placed, Accounted, Reached, Delivers
<1> QED BY <1>1, <1>2, <1>5, Move DEF client_connect_returns

\* A connection is offered to a listener that is still open.
LEMMA CallbackKeeps ==
    ASSUME IInv, NEW c \in Accepts, NEW l \in Listeners, listener_callback(c, l)
    PROVE  IInv'
<1>1. c \in Conns /\ Good(conn[c]) /\ DOMAIN conn[c] = Fields
  BY DEF Conns, IInv, Good
<1>2. /\ conn[c].told = {} /\ ~conn[c].tracked /\ conn[c].last = "no"
      /\ conn[c].nat = "none" /\ conn[c].drv = "none" /\ ~conn[c].app
  BY <1>1 DEF listener_callback, Good, Placed, Accounted, Delivers
<1>3. ASSUME NEW h \in BOOLEAN,
             conn' = [conn EXCEPT ![c].pc = "admitted", ![c].by = l, ![c].admitted = h]
      PROVE  IInv'
  <2> DEFINE m == [conn[c] EXCEPT !.pc = "admitted", !.by = l, !.admitted = h]
  <2>1. conn' = [conn EXCEPT ![c] = m]
    BY <1>1, <1>3 DEF IInv
  <2>2. /\ DOMAIN m = Fields /\ m.pc = "admitted" /\ m.by = l /\ m.told = {}
        /\ ~m.tracked /\ m.last = "no" /\ m.nat = "none" /\ m.drv = "none"
        /\ ~m.app
    BY <1>1, <1>2 DEF Fields
  <2> HIDE DEF m
  <2>3. lst[l] \in Serving
    BY DEF listener_callback, Serving
  <2>4. Good(m)
    BY <2>2, <2>3 DEF Good, Placed, Accounted, Reached, Delivers
  <2> QED BY <1>1, <2>1, <2>4, Move DEF listener_callback
<1>4. CASE conn' = [conn EXCEPT ![c] = listener_abandon([@ EXCEPT !.pc = "out", !.admitted = TRUE])]
  <2> DEFINE m == [conn[c] EXCEPT !.pc = "out", !.admitted = TRUE]
  <2>1. /\ DOMAIN m = Fields /\ m.pc = "out" /\ m.nat = "none" /\ ~m.app
        /\ m.told = {} /\ ~m.tracked /\ m.last = "no"
    BY <1>1, <1>2 DEF Fields
  <2>2. conn' = [conn EXCEPT ![c] = listener_abandon(m)]
    BY <1>1, <1>4 DEF IInv
  <2> HIDE DEF m
  <2>3. Good(listener_abandon(m))
    BY <2>1, AbandonGood
  <2> QED BY <1>1, <2>2, <2>3, Move DEF listener_callback
<1> QED BY <1>3, <1>4 DEF listener_callback

\* Driver and session of an accepted connection are built, or given up.
LEMMA BuildsKeeps ==
    ASSUME IInv, NEW c \in Accepts, accept_builds(c)
    PROVE  IInv'
<1>1. c \in Conns /\ Good(conn[c]) /\ DOMAIN conn[c] = Fields
  BY DEF Conns, IInv, Good
<1>2. /\ conn[c].told = {} /\ ~conn[c].tracked /\ conn[c].last = "no"
      /\ conn[c].nat = "none" /\ conn[c].drv = "none" /\ ~conn[c].app
  BY <1>1 DEF accept_builds, Good, Placed, Accounted, Delivers
<1>3. CASE conn' = [conn EXCEPT ![c].pc = "built", ![c].drv = "live",
                                ![c].sess = TRUE, ![c].eng = "open"]
  <2> DEFINE m == [conn[c] EXCEPT !.pc = "built", !.drv = "live", !.sess = TRUE,
                                  !.eng = "open"]
  <2>1. conn' = [conn EXCEPT ![c] = m]
    BY <1>1, <1>3 DEF IInv
  <2>2. /\ DOMAIN m = Fields /\ m.pc = "built" /\ m.by = conn[c].by
        /\ m.told = {} /\ ~m.tracked /\ m.last = "no" /\ m.nat = "none"
        /\ m.drv = "live" /\ m.sess /\ ~m.app
    BY <1>1, <1>2 DEF Fields
  <2> HIDE DEF m
  <2>3. Good(m)
    BY <1>1, <2>2 DEF accept_builds, Good, Placed, Accounted, Reached, Delivers
  <2> QED BY <1>1, <2>1, <2>3, Move DEF accept_builds
<1>4. CASE conn' = [conn EXCEPT ![c] = listener_abandon([@ EXCEPT !.pc = "out"])]
  <2> DEFINE m == [conn[c] EXCEPT !.pc = "out"]
  <2>1. /\ DOMAIN m = Fields /\ m.pc = "out" /\ m.nat = "none" /\ ~m.app
        /\ m.told = {} /\ ~m.tracked /\ m.last = "no"
    BY <1>1, <1>2 DEF Fields
  <2>2. conn' = [conn EXCEPT ![c] = listener_abandon(m)]
    BY <1>1, <1>4 DEF IInv
  <2> HIDE DEF m
  <2>3. Good(listener_abandon(m))
    BY <2>1, AbandonGood
  <2> QED BY <1>1, <2>2, <2>3, Move DEF accept_builds
<1>5. CASE conn' = [conn EXCEPT ![c] = listener_abandon(discard(@))]
  <2>1. Good(listener_abandon(discard(conn[c])))
    BY <1>1, <1>2, DiscardGood
  <2> QED BY <1>1, <1>5, <2>1, Move DEF accept_builds, IInv
<1> QED BY <1>3, <1>4, <1>5 DEF accept_builds

\* The accepted connection is published, unless the latch is set.
LEMMA AcceptKeeps ==
    ASSUME IInv, NEW c \in Accepts, env_conn_accept(c)
    PROVE  IInv'
<1>1. c \in Conns /\ Good(conn[c]) /\ DOMAIN conn[c] = Fields
  BY DEF Conns, IInv, Good
<1>2. /\ conn[c].told = {} /\ ~conn[c].tracked /\ conn[c].last = "no"
      /\ conn[c].nat = "none" /\ conn[c].drv = "live" /\ conn[c].sess
  BY <1>1 DEF env_conn_accept, Good, Placed, Accounted, Delivers
<1>3. CASE env.closing
  <2>1. Good(listener_abandon(discard(conn[c])))
    BY <1>1, <1>2, DiscardGood
  <2> QED BY <1>1, <1>3, <2>1, Move DEF env_conn_accept, IInv
<1>4. CASE ~env.closing
  <2> DEFINE m == [conn[c] EXCEPT !.pc = "accepted", !.tracked = TRUE, !.nat = "new"]
  <2>1. conn' = [conn EXCEPT ![c] = m]
    BY <1>1, <1>4 DEF IInv, env_conn_accept
  <2>2. /\ DOMAIN m = Fields /\ m.pc = "accepted" /\ m.by = conn[c].by
        /\ m.told = {} /\ m.tracked /\ m.last = "no" /\ m.nat = "new"
        /\ m.drv = "live" /\ m.sess
    BY <1>1, <1>2 DEF Fields
  <2> HIDE DEF m
  <2>3. env.pc = "open"
    BY <1>4 DEF IInv, Latched
  <2>4. Good(m)
    BY <1>1, <2>2, <2>3
    DEF env_conn_accept, Good, Placed, Accounted, Reached, Delivers
  <2> QED BY <1>1, <2>1, <2>4, Move DEF env_conn_accept
<1> QED BY <1>3, <1>4

\* The accepted connection gets its Configuration, or is taken off the list.
LEMMA ConfiguresKeeps ==
    ASSUME IInv, NEW c \in Accepts, accept_configures(c)
    PROVE  IInv'
<1>1. c \in Conns /\ Good(conn[c]) /\ DOMAIN conn[c] = Fields
  BY DEF Conns, IInv, Good
<1>2. /\ conn[c].told = {} /\ conn[c].tracked /\ conn[c].last = "no"
      /\ conn[c].nat = "new" /\ conn[c].drv = "live" /\ conn[c].sess
  BY <1>1 DEF accept_configures, Good, Placed, Accounted, Delivers
<1>3. CASE conn' = [conn EXCEPT ![c].pc = "out", ![c].nat = "up"]
  <2> DEFINE m == [conn[c] EXCEPT !.pc = "out", !.nat = "up"]
  <2>1. conn' = [conn EXCEPT ![c] = m]
    BY <1>1, <1>3 DEF IInv
  <2>2. /\ DOMAIN m = Fields /\ m.pc = "out" /\ m.queued = conn[c].queued
        /\ m.told = {} /\ m.tracked /\ m.last = "no" /\ m.nat = "up"
        /\ m.drv = "live" /\ m.sess
    BY <1>1, <1>2 DEF Fields
  <2> HIDE DEF m
  <2>3. Good(m)
    BY <1>1, <1>2, <2>2 DEF Good, Placed, Accounted, Reached, Delivers
  <2> QED BY <1>1, <2>1, <2>3, Move DEF accept_configures
<1>4. CASE conn' = [conn EXCEPT ![c] = listener_abandon(discard([@ EXCEPT !.tracked = FALSE]))]
  <2> DEFINE m == [conn[c] EXCEPT !.tracked = FALSE]
  <2>1. DOMAIN m = Fields /\ m.told = {} /\ ~m.tracked /\ m.last = "no"
    BY <1>1, <1>2 DEF Fields
  <2>2. conn' = [conn EXCEPT ![c] = listener_abandon(discard(m))]
    BY <1>1, <1>4 DEF IInv
  <2> HIDE DEF m
  <2>3. Good(listener_abandon(discard(m)))
    BY <2>1, DiscardGood
  <2> QED BY <1>1, <2>2, <2>3, Move DEF accept_configures
<1> QED BY <1>3, <1>4 DEF accept_configures

-----------------------------------------------------------------------------
(* A running connection.                                                   *)

\* An event after which the connection has only notes.
LEMMA EventKeeps ==
    ASSUME IInv, NEW c \in Conns, Enters(c), NEW m, Noted(conn[c], m),
           conn' = [conn EXCEPT ![c] = m]
    PROVE  IInv'
<1>1. Good(conn[c])
  BY DEF IInv
<1>2. Good(m)
  BY <1>1, NotedIsGood DEF Enters, Delivers
<1> QED BY <1>2, Move DEF Enters

\* The notes of conn_poll_shutdown and conn_shutdown on top of others.
LEMMA PollNotes ==
    ASSUME NEW k, NEW m, Noted(k, m)
    PROVE  /\ Noted(k, conn_poll_shutdown(m))
           /\ Noted(k, conn_shutdown(m, FALSE))
           /\ Noted(k, conn_shutdown(conn_poll_shutdown(m), FALSE))
           /\ Noted(k, conn_poll_shutdown(conn_shutdown(m, FALSE)))
<1>1. ASSUME NEW a, Noted(k, a)
      PROVE  Noted(k, conn_poll_shutdown(a)) /\ Noted(k, conn_shutdown(a, FALSE))
  <2>1. Kept(a, conn_poll_shutdown(a)) /\ Kept(a, conn_shutdown(a, FALSE))
    BY <1>1, PollKeeps, ShutdownKeeps DEF Noted
  <2> QED BY <1>1, <2>1 DEF Kept, Noted
<1> QED BY <1>1

\* CONNECTED starts the session.
LEMMA ConnectedKeeps ==
    ASSUME IInv, NEW c \in Conns, conn_CONNECTED(c)
    PROVE  IInv'
<1>1. Good(conn[c]) /\ DOMAIN conn[c] = Fields /\ Enters(c)
  BY DEF IInv, Good, conn_CONNECTED
<1> DEFINE a == [conn[c] EXCEPT !.run = TRUE]
           b == because(a, "start")
<1>2. Noted(conn[c], a) /\ Noted(conn[c], b)
  BY <1>1 DEF Noted, Fields, because
<1>3. \/ conn' = [conn EXCEPT ![c] = conn_poll_shutdown(a)]
      \/ conn' = [conn EXCEPT ![c] = conn_shutdown(conn_poll_shutdown(b), FALSE)]
  BY Zenon DEF conn_CONNECTED
<1> HIDE DEF a, b
<1> QED BY <1>1, <1>2, <1>3, PollNotes, EventKeeps

\* The session ends and its connection goes on.
LEMMA SessionEndsKeeps ==
    ASSUME IInv, NEW c \in Conns, session_ends(c)
    PROVE  IInv'
<1>1. Good(conn[c]) /\ DOMAIN conn[c] = Fields /\ Enters(c)
  BY DEF IInv, Good, session_ends
<1>2. PICK f \in BOOLEAN : conn' = [conn EXCEPT ![c] = conn_poll_shutdown(
           because([latch_error(@, "none") EXCEPT !.eng = "ended", !.flush = f], "ended"))]
  BY DEF session_ends
<1> DEFINE a == latch_error(conn[c], "none")
           m == because([a EXCEPT !.eng = "ended", !.flush = f], "ended")
<1>3. Noted(conn[c], a)
  BY <1>1 DEF Noted, Fields, latch_error
<1>4. conn' = [conn EXCEPT ![c] = conn_poll_shutdown(m)]
  BY <1>2, Zenon
<1> HIDE DEF a
<1>5. Noted(conn[c], m)
  BY <1>3 DEF Noted, Fields, because
<1> HIDE DEF m
<1> QED BY <1>1, <1>4, <1>5, PollNotes, EventKeeps

\* A stream starts under another id than the driver computed.
LEMMA MismatchKeeps ==
    ASSUME IInv, NEW c \in Conns, stream_START_COMPLETE_mismatch(c)
    PROVE  IInv'
<1>1. Good(conn[c]) /\ DOMAIN conn[c] = Fields /\ Enters(c)
  BY DEF IInv, Good, stream_START_COMPLETE_mismatch
<1> DEFINE b == because(conn[c], "id")
           m == stage_local_cause(b)
<1>2. Noted(conn[c], b)
  BY <1>1 DEF Noted, Fields, because
<1>3. conn' = [conn EXCEPT ![c] = conn_feed_closed(m, FALSE)]
  BY Zenon DEF stream_START_COMPLETE_mismatch
<1> HIDE DEF b
<1>4. Noted(conn[c], m)
  BY <1>2 DEF Noted, Fields, stage_local_cause
<1> HIDE DEF m
<1>5. Noted(conn[c], conn_feed_closed(m, FALSE))
  BY <1>4, FeedKeeps DEF Kept, Noted
<1> QED BY <1>1, <1>3, <1>5, EventKeeps

\* The last pending send completes.
LEMMA FlushedKeeps ==
    ASSUME IInv, NEW c \in Conns, sends_flushed(c)
    PROVE  IInv'
<1>1. Good(conn[c]) /\ DOMAIN conn[c] = Fields /\ Enters(c)
  BY DEF IInv, Good, sends_flushed
<1> DEFINE m == [conn[c] EXCEPT !.flush = FALSE]
<1>2. Noted(conn[c], m)
  BY <1>1 DEF Noted, Fields
<1>3. conn' = [conn EXCEPT ![c] = conn_poll_shutdown(m)]
  BY DEF sends_flushed, IInv
<1> HIDE DEF m
<1> QED BY <1>1, <1>2, <1>3, PollNotes, EventKeeps

\* The engine fails the connection.
LEMMA FatalKeeps ==
    ASSUME IInv, NEW c \in Conns, engine_fatal(c)
    PROVE  IInv'
<1>1. Good(conn[c]) /\ DOMAIN conn[c] = Fields /\ Enters(c)
  BY DEF IInv, Good, engine_fatal
<1> DEFINE a == latch_error(conn[c], "app")
           m == because([a EXCEPT !.eng = "closed"], "fatal")
<1>2. Noted(conn[c], a)
  BY <1>1 DEF Noted, Fields, latch_error
<1>3. conn' = [conn EXCEPT ![c] = conn_poll_shutdown(conn_shutdown(m, FALSE))]
  BY Zenon DEF engine_fatal
<1> HIDE DEF a
<1>4. Noted(conn[c], m)
  BY <1>2 DEF Noted, Fields, because
<1> HIDE DEF m
<1> QED BY <1>1, <1>3, <1>4, PollNotes, EventKeeps

\* The program retains the session in a callback.
LEMMA AddRefKeeps ==
    ASSUME IInv, NEW c \in Conns, session_add_ref(c)
    PROVE  IInv'
<1>1. Good(conn[c]) /\ DOMAIN conn[c] = Fields /\ Enters(c)
  BY DEF IInv, Good, session_add_ref
<1> DEFINE m == [conn[c] EXCEPT !.app = TRUE]
<1>2. conn' = [conn EXCEPT ![c] = m]
  BY <1>1 DEF session_add_ref, IInv
<1>3. /\ DOMAIN m = Fields /\ m.pc = conn[c].pc /\ m.by = conn[c].by
      /\ m.admitted = conn[c].admitted /\ m.drv = conn[c].drv
      /\ m.nat = conn[c].nat /\ m.queued = conn[c].queued
      /\ m.sess = conn[c].sess /\ m.tracked = conn[c].tracked
      /\ m.told = conn[c].told /\ m.last = conn[c].last /\ m.eng = conn[c].eng
  BY <1>1 DEF Fields
<1> HIDE DEF m
<1>4. Good(m)
  BY <1>1, <1>3 DEF Enters, Good, Placed, Accounted, Reached, Delivers
<1> QED BY <1>1, <1>2, <1>4, Move DEF Enters

\* The program releases its reference; the session may be destroyed.
LEMMA ReleaseKeeps ==
    ASSUME IInv, NEW c \in Conns, session_release(c)
    PROVE  IInv'
<1>1. Good(conn[c]) /\ DOMAIN conn[c] = Fields
  BY DEF IInv, Good
<1> DEFINE m == forget([conn[c] EXCEPT !.app = FALSE])
<1>2. conn' = [conn EXCEPT ![c] = m]
  BY DEF session_release, IInv
<1>3. /\ DOMAIN m = Fields /\ m.pc = conn[c].pc /\ m.by = conn[c].by
      /\ m.admitted = conn[c].admitted /\ m.drv = conn[c].drv
      /\ m.nat = conn[c].nat /\ m.queued = conn[c].queued /\ ~m.app
      /\ m.sess = conn[c].sess /\ m.tracked = conn[c].tracked
      /\ m.told = conn[c].told /\ m.last = conn[c].last
      /\ m.eng \in {conn[c].eng, "none"}
  BY <1>1 DEF Fields, forget
<1> HIDE DEF m
<1>4. Good(m)
  BY <1>1, <1>3 DEF Good, Placed, Accounted, Reached, Delivers
<1> QED BY <1>1, <1>2, <1>4, Move DEF session_release

\* The transport or the peer shuts the connection down.
LEMMA InitiatedKeeps ==
    ASSUME IInv, NEW c \in Conns, NEW k, NEW r \in BOOLEAN,
           conn_SHUTDOWN_INITIATED(c, k, r)
    PROVE  IInv'
<1>1. Good(conn[c]) /\ DOMAIN conn[c] = Fields /\ Enters(c)
  BY DEF IInv, Good, conn_SHUTDOWN_INITIATED
<1> DEFINE d == because([conn[c] EXCEPT !.nat = "dying"], k)
           q == consume_env_close(d)
           s == IF q.kind = "none" /\ ~q.cleanup THEN [q EXCEPT !.kind = k] ELSE q
<1>2. conn' = [conn EXCEPT ![c] = conn_feed_closed(s, r)]
  BY Zenon DEF conn_SHUTDOWN_INITIATED
<1>3. /\ DOMAIN d = Fields /\ d.pc = conn[c].pc /\ d.by = conn[c].by
      /\ d.admitted = conn[c].admitted /\ d.drv = conn[c].drv
      /\ d.nat = "dying" /\ d.sess = conn[c].sess /\ d.app = conn[c].app
      /\ d.tracked = conn[c].tracked /\ d.told = conn[c].told
      /\ d.last = conn[c].last /\ d.eng = conn[c].eng
  BY <1>1 DEF Fields, because
<1> HIDE DEF d
<1>4. Good(d)
  BY <1>1, <1>3 DEF Enters, Good, Placed, Accounted, Reached, Delivers
<1>5. Noted(d, q)
  BY <1>3, ConsumeKeeps DEF Kept
<1> HIDE DEF q
<1>6. Noted(d, s)
  BY <1>5 DEF Noted, Fields
<1> HIDE DEF s
<1>7. Noted(d, conn_feed_closed(s, r))
  BY <1>6, FeedKeeps DEF Kept, Noted
<1>8. Good(conn_feed_closed(s, r))
  BY <1>3, <1>4, <1>7, NotedIsGood DEF Delivers
<1> QED BY <1>1, <1>2, <1>8, Move DEF Enters

\* MsQuic runs the queued shutdown.
LEMMA ShutdownRunsKeeps ==
    ASSUME IInv, NEW c \in Conns, ShutdownRuns(c)
    PROVE  IInv'
<1>1. Good(conn[c]) /\ DOMAIN conn[c] = Fields
  BY DEF IInv, Good
<1> DEFINE m == [conn[c] EXCEPT !.nat = "dying", !.queued = FALSE]
<1>2. conn' = [conn EXCEPT ![c] = m]
  BY <1>1 DEF ShutdownRuns, IInv
<1>3. /\ DOMAIN m = Fields /\ m.pc = conn[c].pc /\ m.by = conn[c].by
      /\ m.admitted = conn[c].admitted /\ m.drv = conn[c].drv
      /\ m.nat = "dying" /\ m.sess = conn[c].sess /\ m.app = conn[c].app
      /\ m.tracked = conn[c].tracked /\ m.told = conn[c].told
      /\ m.last = conn[c].last /\ m.eng = conn[c].eng
  BY <1>1 DEF Fields
<1> HIDE DEF m
<1>4. Good(m)
  BY <1>1, <1>3 DEF ShutdownRuns, Good, Placed, Accounted, Reached, Delivers
<1> QED BY <1>1, <1>2, <1>4, Move DEF ShutdownRuns

\* The owner of a borrowed Registration shuts the connection down.
LEMMA OutsideKeeps ==
    ASSUME IInv, NEW c \in Conns, ShutdownOutside(c)
    PROVE  IInv'
<1>1. Good(conn[c]) /\ DOMAIN conn[c] = Fields
  BY DEF IInv, Good
<1> DEFINE d == [conn[c] EXCEPT !.nat = "dying", !.queued = FALSE]
           m == because(d, "outside")
<1>2. conn' = [conn EXCEPT ![c] = m]
  BY Zenon DEF ShutdownOutside
<1>3. /\ DOMAIN m = Fields /\ m.pc = conn[c].pc /\ m.by = conn[c].by
      /\ m.admitted = conn[c].admitted /\ m.drv = conn[c].drv
      /\ m.nat = "dying" /\ m.sess = conn[c].sess /\ m.app = conn[c].app
      /\ m.tracked = conn[c].tracked /\ m.told = conn[c].told
      /\ m.last = conn[c].last /\ m.eng = conn[c].eng
  BY <1>1 DEF Fields, because
<1> HIDE DEF m
<1>4. Good(m)
  BY <1>1, <1>3 DEF ShutdownOutside, Good, Placed, Accounted, Reached, Delivers
<1> QED BY <1>1, <1>2, <1>4, Move DEF ShutdownOutside

\* SHUTDOWN_COMPLETE up to the release of the session.
LEMMA CompleteKeeps ==
    ASSUME IInv, NEW c \in Conns, conn_SHUTDOWN_COMPLETE(c)
    PROVE  IInv'
<1>1. Good(conn[c]) /\ DOMAIN conn[c] = Fields
  BY DEF IInv, Good
<1>2. conn[c].nat = "dying" /\ conn[c].sess /\ conn[c].told = {} /\ conn[c].tracked
      /\ conn[c].pc \notin {"none", "admitted", "opened", "built", "accepted"}
  BY <1>1 DEF conn_SHUTDOWN_COMPLETE, Good, Placed, Accounted, Delivers
<1> DEFINE a == consume_env_close(conn[c])
           q == [a EXCEPT !.nat = "over", !.last = "released", !.guard = "worker"]
           e == on_conn_closed(put_error_detail(q), FALSE)
           m == [e EXCEPT !.sess = FALSE, !.told = @ \cup {"quiesced"}]
<1>3. Noted(conn[c], a)
  BY <1>1, ConsumeKeeps DEF Kept
<1>4. conn' = [conn EXCEPT ![c] = IF q.sess THEN m ELSE q]
  BY Zenon DEF conn_SHUTDOWN_COMPLETE, conn_quiesces
<1> HIDE DEF a
<1>5. /\ DOMAIN q = Fields /\ q.pc = conn[c].pc /\ q.by = conn[c].by
      /\ q.nat = "over" /\ q.sess /\ q.told = {} /\ q.tracked
      /\ q.last = "released"
  BY <1>2, <1>3 DEF Noted, Fields
<1> HIDE DEF q
<1>6. Noted(q, e) /\ e.eng = "closed"
  BY <1>5, ClosedKeeps DEF Kept
<1> HIDE DEF e
<1>7. /\ DOMAIN m = Fields /\ m.pc = conn[c].pc /\ m.by = conn[c].by
      /\ m.nat = "over" /\ m.told = {"quiesced"} /\ m.tracked
      /\ m.last = "released" /\ m.eng = "closed" /\ ~m.sess
  BY <1>5, <1>6 DEF Noted, Fields
<1> HIDE DEF m
<1>8. m.pc \in {"none", "opened", "linked"} => ~m.admitted
  <2>1. m.admitted = conn[c].admitted
    BY <1>3, <1>5, <1>6 DEF m, Noted, Fields, q
  <2> QED BY <1>1, <1>7, <2>1 DEF Good, Accounted
<1>9. Good(m)
  BY <1>1, <1>2, <1>7, <1>8 DEF Good, Placed, Accounted, Reached, Delivers
<1> QED BY <1>4, <1>5, <1>9, Move DEF conn_SHUTDOWN_COMPLETE

\* The rest of SHUTDOWN_COMPLETE: unregister, free, leave.
LEMMA UnregisterKeeps ==
    ASSUME IInv, NEW c \in Conns, env_conn_unregister(c)
    PROVE  IInv'
<1>1. Good(conn[c]) /\ DOMAIN conn[c] = Fields
  BY DEF IInv, Good
<1> DEFINE m == [conn[c] EXCEPT !.last = "unlisted", !.tracked = FALSE]
<1>2. conn' = [conn EXCEPT ![c] = m]
  BY <1>1 DEF env_conn_unregister, IInv
<1>3. /\ DOMAIN m = Fields /\ m.pc = conn[c].pc /\ m.by = conn[c].by
      /\ m.admitted = conn[c].admitted /\ m.drv = conn[c].drv
      /\ m.nat = conn[c].nat /\ m.sess = conn[c].sess /\ m.app = conn[c].app
      /\ ~m.tracked /\ m.told = conn[c].told /\ m.queued = conn[c].queued
      /\ m.last = "unlisted" /\ m.eng = conn[c].eng
  BY <1>1 DEF Fields
<1> HIDE DEF m
<1>4. Good(m)
  BY <1>1, <1>3 DEF env_conn_unregister, Good, Placed, Accounted, Reached, Delivers
<1> QED BY <1>2, <1>4, Move DEF env_conn_unregister

\* wtq_msq_conn_free at the end of the callback.
LEMMA FreesKeeps ==
    ASSUME IInv, NEW c \in Conns, conn_frees(c)
    PROVE  IInv'
<1>1. Good(conn[c]) /\ DOMAIN conn[c] = Fields
  BY DEF IInv, Good
<1> DEFINE f == conn_free(conn[c])
           m == [f EXCEPT !.last = "freed"]
<1>2. conn' = [conn EXCEPT ![c] = m]
  BY Zenon DEF conn_frees
<1>3. /\ DOMAIN f = Fields /\ f.pc = conn[c].pc /\ f.by = conn[c].by
      /\ f.admitted = conn[c].admitted /\ f.drv = "freed"
      /\ f.nat = (IF conn[c].nat = "none" THEN "none" ELSE "closed")
      /\ f.app = conn[c].app /\ f.tracked = conn[c].tracked
      /\ f.told = conn[c].told /\ f.eng \in {conn[c].eng, "none"}
      /\ f.app => f.eng = conn[c].eng
  BY <1>1 DEF Fields, conn_free, forget
<1> HIDE DEF f
<1>4. /\ DOMAIN m = Fields /\ m.pc = f.pc /\ m.by = f.by
      /\ m.admitted = f.admitted /\ m.drv = f.drv /\ m.nat = f.nat
      /\ m.app = f.app /\ m.tracked = f.tracked /\ m.told = f.told
      /\ m.eng = f.eng /\ m.last = "freed"
  BY <1>3 DEF Fields
<1> HIDE DEF m
<1>5. Good(m)
  BY <1>1, <1>3, <1>4 DEF conn_frees, Good, Placed, Accounted, Reached, Delivers
<1> QED BY <1>2, <1>5, Move DEF conn_frees

\* The callback returns.
LEMMA LeavesKeeps ==
    ASSUME IInv, NEW c \in Conns, conn_leaves(c)
    PROVE  IInv'
<1>1. Good(conn[c]) /\ DOMAIN conn[c] = Fields
  BY DEF IInv, Good
<1> DEFINE m == [conn[c] EXCEPT !.last = "done", !.guard = "free"]
<1>2. conn' = [conn EXCEPT ![c] = m]
  BY <1>1 DEF conn_leaves, IInv
<1>3. /\ DOMAIN m = Fields /\ m.pc = conn[c].pc /\ m.by = conn[c].by
      /\ m.admitted = conn[c].admitted /\ m.drv = conn[c].drv
      /\ m.nat = conn[c].nat /\ m.sess = conn[c].sess /\ m.app = conn[c].app
      /\ m.tracked = conn[c].tracked /\ m.told = conn[c].told
      /\ m.queued = conn[c].queued /\ m.last = "done" /\ m.eng = conn[c].eng
  BY <1>1 DEF Fields
<1> HIDE DEF m
<1>4. Good(m)
  BY <1>1, <1>3 DEF conn_leaves, Good, Placed, Accounted, Reached, Delivers
<1> QED BY <1>2, <1>4, Move DEF conn_leaves

-----------------------------------------------------------------------------
(* Listeners and the environment.                                          *)

\* A listener changes its state; the callbacks in flight still have one.
LEMMA ListenerKeeps ==
    ASSUME IInv, NEW l \in Listeners, ListenerStep(l)
    PROVE  IInv'
<1>1. /\ env' = env /\ conn' = conn /\ DOMAIN lst = Listeners
      /\ lst' = [lst EXCEPT ![l] = lst'[l]]
  BY DEF IInv, Latched, ListenerStep, listener_start, env_listener_register,
         listener_stop, listener_free
<1>2. Latched'
  BY DEF IInv, Latched, Serving, ListenerStep, listener_start,
         env_listener_register, listener_stop, listener_free
<1>3. lst'[l] \in Serving \/ ~Accepting(l)
  BY DEF IInv, Latched, Serving, ListenerStep, listener_start,
         env_listener_register, listener_stop, listener_free
<1>4. ASSUME NEW c \in Conns PROVE Good(conn[c])'
  <2>1. Good(conn[c])
    BY DEF IInv
  <2>2. conn[c].pc \in {"admitted", "built", "accepted"} => lst'[conn[c].by] \in Serving
    <3>1. CASE conn[c].by = l
      BY <1>3, <3>1 DEF Accepting
    <3>2. CASE conn[c].by # l
      BY <1>1, <2>1, <3>2 DEF Good, Reached
    <3> QED BY <3>1, <3>2
  <2> QED BY <1>1, <2>1, <2>2 DEF Good, Placed, Accounted, Reached
<1> QED BY <1>1, <1>2, <1>4 DEF IInv

\* The latch is set and the tracked listeners are detached.
LEMMA LatchKeeps ==
    ASSUME IInv, env_close_latches
    PROVE  IInv'
<1>1. Latched'
  BY DEF IInv, Latched, Serving, env_close_latches
<1>2. ASSUME NEW c \in Conns PROVE Good(conn[c])'
  <2>1. Good(conn[c]) /\ conn' = conn
    BY DEF IInv, env_close_latches
  <2>2. \A x \in Listeners : lst[x] \in Serving => lst'[x] \in Serving
    BY DEF env_close_latches, Serving
  <2>3. env'.pc = "listeners"
    BY DEF env_close_latches
  <2> QED BY <2>1, <2>2, <2>3 DEF Good, Placed, Accounted, Reached
<1> QED BY <1>1, <1>2 DEF IInv, env_close_latches

\* Every tracked connection is told to shut down.
LEMMA WalkKeeps ==
    ASSUME IInv, env_close_walks
    PROVE  IInv'
<1>1. Latched'
  BY DEF IInv, Latched, env_close_walks
<1>2. DOMAIN conn' = Conns
  BY DEF env_close_walks
<1>3. ASSUME NEW c \in Conns PROVE Good(conn[c])'
  <2>1. Good(conn[c]) /\ DOMAIN conn[c] = Fields
    BY DEF IInv, Good
  <2> DEFINE k == conn[c]
             m == conn'[c]
  <2>2. /\ DOMAIN m = Fields /\ m.pc = k.pc /\ m.by = k.by
        /\ m.admitted = k.admitted /\ m.drv = k.drv /\ m.nat = k.nat
        /\ m.sess = k.sess /\ m.app = k.app /\ m.tracked = k.tracked
        /\ m.told = k.told /\ m.last = k.last /\ m.eng = k.eng
    <3>1. CASE k.tracked
      BY <2>1, <3>1 DEF env_close_walks, because, Fields
    <3>2. CASE ~k.tracked
      BY <2>1, <3>2 DEF env_close_walks
    <3> QED BY <3>1, <3>2
  <2>3. m.nat \in {"new", "up"} => m.queued
    <3>1. CASE k.tracked
      BY <2>1, <2>2, <3>1 DEF env_close_walks, because, Fields
    <3>2. CASE ~k.tracked
      BY <2>1, <2>2, <3>2 DEF Good, Placed, Delivers
    <3> QED BY <3>1, <3>2
  <2>4. env'.pc = "wait" /\ lst' = lst
    BY DEF env_close_walks, IInv, Latched
  <2> HIDE DEF m, k
  <2>5. Placed(m) /\ Accounted(m)
    BY <2>1, <2>2 DEF Good, Placed, Accounted, k
  <2> QED BY <2>1, <2>2, <2>3, <2>4, <2>5 DEF Good, Placed, Accounted, Reached, m, k
<1> QED BY <1>1, <1>2, <1>3 DEF IInv

\* The last connection has unregistered.
LEMMA WaitKeeps ==
    ASSUME IInv, env_close_waits
    PROVE  IInv'
<1>1. Latched' /\ env'.pc = "free" /\ conn' = conn /\ lst' = lst
  BY DEF IInv, Latched, env_close_waits
<1>2. ASSUME NEW c \in Conns PROVE Good(conn[c])'
  <2>1. Good(conn[c]) /\ ~conn[c].tracked
    BY DEF IInv, env_close_waits
  <2> QED BY <1>1, <2>1 DEF Good, Placed, Accounted, Reached, env_close_waits
<1> QED BY <1>1, <1>2 DEF IInv

\* The environment is freed.
LEMMA FreeKeeps ==
    ASSUME IInv, env_free
    PROVE  IInv'
<1>1. Latched' /\ env'.pc = "done" /\ conn' = conn /\ lst' = lst
  BY DEF IInv, Latched, Serving, env_free, CallRunning
<1>2. ASSUME NEW c \in Conns PROVE Good(conn[c])'
  <2>1. Good(conn[c])
    BY DEF IInv
  <2> QED BY <1>1, <2>1 DEF Good, Placed, Accounted, Reached, env_free
<1> QED BY <1>1, <1>2 DEF IInv

-----------------------------------------------------------------------------
(* The theorems.                                                           *)

\* A new environment has no connection and no listener.
LEMMA InitHolds == Init => IInv
<1> SUFFICES ASSUME Init PROVE IInv
  OBVIOUS
<1>1. Latched
  BY DEF Init, Latched
<1>2. Good(NoConn)
  BY DEF Init, NoConn, Fields, Good, Placed, Accounted, Reached, Delivers
<1> QED BY <1>1, <1>2 DEF Init, IInv

\* Every step keeps the inductive invariant.
LEMMA StepHolds == IInv /\ [Next]_vars => IInv'
<1> SUFFICES ASSUME IInv, [Next]_vars PROVE IInv'
  OBVIOUS
<1>1. ASSUME NEW c \in Clients, ClientStep(c) PROVE IInv'
  BY <1>1, ClientOpensKeeps, ClientStartsKeeps, ClientReturnsKeeps DEF ClientStep
<1>2. ASSUME NEW c \in Accepts, AcceptStep(c) PROVE IInv'
  BY <1>2, CallbackKeeps, BuildsKeeps, AcceptKeeps, ConfiguresKeeps DEF AcceptStep
<1>3. ASSUME NEW c \in Conns, ConnStep(c) PROVE IInv'
  BY <1>3, ConnectedKeeps, SessionEndsKeeps, FlushedKeeps, FatalKeeps,
     AddRefKeeps, ReleaseKeeps, InitiatedKeeps, ShutdownRunsKeeps,
     MismatchKeeps, OutsideKeeps, CompleteKeeps, UnregisterKeeps, FreesKeeps, LeavesKeeps
  DEF ConnStep, conn_BY_TRANSPORT, conn_BY_PEER
<1>4. ASSUME NEW l \in Listeners, ListenerStep(l) PROVE IInv'
  BY <1>4, ListenerKeeps
<1>5. CASE EnvStep
  BY <1>5, LatchKeeps, WalkKeeps, WaitKeeps, FreeKeeps DEF EnvStep
<1>6. CASE UNCHANGED vars
  BY <1>6 DEF vars, IInv, Latched, Good, Placed, Accounted, Reached
<1> QED BY <1>1, <1>2, <1>3, <1>4, <1>5, <1>6 DEF Next

\* The inductive invariant holds in every reachable state.
THEOREM Inductive == Spec => []IInv
  BY InitHolds, StepHolds, PTL DEF Spec

\* Whatever races with wtq_msquic_env_close, for any number of connections
\* and listeners: a connection that can still deliver an event is on the
\* list with a live driver, and is told to shut down once the list has been
\* walked.
THEOREM NoneStrays == Spec => []NoStrayConnection
<1>1. IInv => NoStrayConnection
  BY DEF IInv, Good, Placed, Reached, Delivers, NoStrayConnection
<1> QED BY <1>1, Inductive, PTL

\* When wtq_msquic_env_close frees the environment nobody is left who would
\* use it, and a session the program holds has its driver or an engine that
\* is closed.
THEOREM OwnersHold == Spec => []OwnersOutliveUsers
<1>1. IInv => EnvOutlivesChildren
  <2> SUFFICES ASSUME IInv, env.pc = "done" PROVE
        /\ \A c \in Conns : ~conn[c].tracked /\ conn[c].last # "released"
        /\ \A l \in Listeners : lst[l] \in {"none", "gone"} /\ ~Accepting(l)
    BY DEF EnvOutlivesChildren
  <2>1. \A c \in Conns : ~conn[c].tracked /\ conn[c].last # "released"
    BY DEF IInv, Good, Placed, Reached
  <2>2. \A l \in Listeners : lst[l] \in {"none", "gone"}
    BY DEF IInv, Latched
  <2>3. \A l \in Listeners : ~Accepting(l)
    BY <2>2 DEF IInv, Good, Reached, Accepting, Serving
  <2> QED BY <2>1, <2>2, <2>3
<1>2. IInv => HeldSessionHasDriver
  BY DEF IInv, Good, Placed, Accounted, Delivers, HeldSessionHasDriver
<1>3. IInv => OwnersOutliveUsers
  BY <1>1, <1>2 DEF OwnersOutliveUsers
<1> QED BY <1>3, Inductive, PTL

\* A child that accept_prepare admitted is handed back at most once, by
\* accept_abandon if it never ran and by on_transport_quiesced if it did,
\* and is never forgotten.
THEOREM AdmittedHandedBack == Spec => []AdmittedToldOnce
<1>1. Cardinality({}) = 0 /\ Cardinality({"abandon"}) = 1 /\ Cardinality({"quiesced"}) = 1
  BY FS_EmptySet, FS_Singleton, Zenon
<1>2. IInv => AdmittedToldOnce
  <2> SUFFICES ASSUME IInv, NEW c \in Accepts PROVE
        /\ conn[c].admitted => Cardinality(conn[c].told) <= 1
        /\ conn[c].told = {"abandon"} => conn[c].nat \in {"none", "closed"} /\ conn[c].last = "no"
        /\ conn[c].told = {"quiesced"} => conn[c].eng \in {"closed", "none"}
        /\ conn[c].admitted /\ conn[c].pc = "out" /\ conn[c].drv # "live" => conn[c].told # {}
    BY DEF AdmittedToldOnce
  <2>1. Accounted(conn[c])
    BY DEF IInv, Good, Conns
  <2>2. Cardinality(conn[c].told) <= 1
    BY <1>1, <2>1 DEF Accounted
  <2> QED BY <2>1, <2>2 DEF Accounted
<1> QED BY <1>2, Inductive, PTL

-----------------------------------------------------------------------------
(* The error record: what the program reads after the end of a session     *)
(* names something that happened to its connection.                        *)

\* One of the causes that make a shutdown local has happened.
Local(W) == W \cap Ours # {}
\* The history keeps the first of each kind.
Once(W) ==
    /\ \A v, w \in W \cap Ends : v = w
    /\ \A v, w \in W \cap Shuts : v = w

\* The latched record names the first cause, what the engine says first.
Named(k) ==
    /\ Once(k.why)
    /\ k.err \in {"unset", "local", "transport", "app", "none"}
    /\ "ended" \in k.why => k.err = "none"
    /\ "fatal" \in k.why => k.err = "app"
    /\ k.err = "local" => Local(k.why)
    /\ k.err = "transport" => "transport" \in k.why
    /\ k.err = "app" => "app" \in k.why \/ "fatal" \in k.why
    /\ k.err = "none" => "ended" \in k.why

\* A session that is over has a record.
Caused(k) ==
    /\ Named(k)
    /\ k.err = "unset" => k.eng \in {"none", "open"}
    /\ k.eng = "open" => k.err = "unset"
    /\ k.eng = "ended" => k.err = "none"

\* What is staged for the record while the backend holds the session: a kind
\* has its cause unless the record is latched already, a cleanup only
\* retires a session with a record, and no shutdown is under way that
\* nobody has staged or asked for, but the one from outside.
Staged(k) ==
    k.sess =>
        /\ k.kind \in {"none", "local", "transport", "app"}
        /\ k.req => k.err # "unset" \/ Local(k.why)
        /\ k.kind = "local" => k.err # "unset" \/ Local(k.why)
        /\ k.kind = "transport" => k.err # "unset" \/ "transport" \in k.why
        /\ k.kind = "app" => k.err # "unset" \/ "app" \in k.why
        /\ k.cleanup => k.err # "unset"
        /\ k.queued \/ k.nat = "dying" =>
               k.err # "unset" \/ k.req \/ k.kind # "none" \/ Local(k.why)
        /\ k.started => k.kind # "none" \/ k.cleanup

\* Between the driver's steps a cause that has happened is staged, asked for
\* or under way, and a remote one is latched.
Known(k) ==
    k.sess /\ k.err = "unset" =>
        /\ k.kind \notin {"transport", "app"}
        /\ "transport" \notin k.why /\ "app" \notin k.why
        /\ Local(k.why) => k.req \/ k.kind # "none" \/ k.nat = "dying"

\* Before the driver is built nothing is staged and nothing has happened.
Fresh(k) ==
    k.pc \in {"none", "admitted"} =>
        /\ k.kind = "none" /\ ~k.req /\ ~k.cleanup /\ ~k.started /\ ~k.queued
        /\ ~k.sess /\ k.err = "unset" /\ k.eng = "none" /\ k.why = {}

Story(k) == Caused(k) /\ Staged(k) /\ Fresh(k)
Sound(k) == Story(k) /\ Known(k)

CInv == \A c \in Conns : Sound(conn[c])

-----------------------------------------------------------------------------
(* The driver's operations on one connection.                              *)

\* The fields conn_shutdown and conn_poll_shutdown leave alone.
SameStory(k, m) ==
    /\ DOMAIN m = Fields /\ m.pc = k.pc /\ m.sess = k.sess /\ m.nat = k.nat
    /\ m.err = k.err /\ m.why = k.why /\ m.eng = k.eng /\ m.req = k.req

\* The history grows by the first cause of each kind.
LEMMA BecauseFirst ==
    ASSUME NEW k, DOMAIN k = Fields, NEW w \in Ends \cup Shuts, Once(k.why)
    PROVE  LET m == because(k, w) IN
           /\ m.kind = k.kind /\ m.cleanup = k.cleanup
           /\ m.started = k.started /\ m.queued = k.queued
           /\ DOMAIN m = Fields /\ m.pc = k.pc /\ m.sess = k.sess /\ m.nat = k.nat
           /\ m.err = k.err /\ m.eng = k.eng /\ m.req = k.req
           /\ Once(m.why)
           /\ \A v : v \in k.why => v \in m.why
           /\ \A v : v \in m.why => v \in k.why \/ v = w
           /\ w \in Ends => \E v \in Ends : v \in m.why /\ (v = w \/ v \in k.why)
           /\ w \in Shuts => \E v \in Shuts : v \in m.why /\ (v = w \/ v \in k.why)
<1> DEFINE m == because(k, w)
<1>1. /\ m.kind = k.kind /\ m.cleanup = k.cleanup
      /\ m.started = k.started /\ m.queued = k.queued
      /\ DOMAIN m = Fields /\ m.pc = k.pc /\ m.sess = k.sess /\ m.nat = k.nat
      /\ m.err = k.err /\ m.eng = k.eng /\ m.req = k.req
  BY DEF because, Fields
<1>2. \/ m.why = k.why /\ k.why \cap (IF w \in Ends THEN Ends ELSE Shuts) # {}
      \/ /\ m.why = k.why \cup {w}
         /\ k.why \cap (IF w \in Ends THEN Ends ELSE Shuts) = {}
  BY DEF because, Fields
<1> HIDE DEF m
<1>3. w \in Ends => w \notin Shuts
  BY DEF Ends, Shuts, Ours
<1>4. Once(m.why)
  BY <1>2, <1>3 DEF Once
<1> QED BY <1>1, <1>2, <1>3, <1>4 DEF m

\* conn_shutdown is called after the record is latched, or for a start that
\* failed: what it stages has a cause.
LEMMA ShutdownSound ==
    ASSUME NEW k, DOMAIN k = Fields, Story(k), NEW b \in BOOLEAN,
           k.err # "unset" \/ (~b /\ (k.kind = "local" \/ Local(k.why))),
           k.sess /\ k.err = "unset" => "transport" \notin k.why /\ "app" \notin k.why,
           k.pc \notin {"none", "admitted"}
    PROVE  Sound(conn_shutdown(k, b))
<1> DEFINE m == conn_shutdown(k, b)
<1>1. CASE k.started
  BY <1>1 DEF conn_shutdown, Sound, Story, Known, Staged
<1>2. CASE ~k.started
  <2>1. /\ SameStory(k, m) /\ m.started /\ m.queued
        /\ \/ m.cleanup /\ b /\ m.kind = k.kind
           \/ ~b /\ m.cleanup = k.cleanup /\ m.kind = k.kind
              /\ (k.kind # "none" \/ k.cleanup)
           \/ ~b /\ m.cleanup = k.cleanup /\ m.kind = "local"
    BY <1>2 DEF conn_shutdown, stage_local_cause, SameStory, Fields
  <2> HIDE DEF m
  <2>2. Caused(m) /\ Fresh(m)
    BY <2>1 DEF Sound, Story, Known, Caused, Named, Fresh, SameStory
  <2>3. Staged(m)
    BY <2>1 DEF Story, Staged, SameStory
  <2>4. Known(m)
    BY <2>1 DEF Story, Staged, Known, SameStory
  <2> QED BY <2>2, <2>3, <2>4 DEF Sound, Story, m
<1> QED BY <1>1, <1>2

\* conn_poll_shutdown acts on a closed engine or an ended session, and both
\* have a record.
LEMMA PollSound ==
    ASSUME NEW k, DOMAIN k = Fields, Sound(k), k.pc \notin {"none", "admitted"}
    PROVE  Sound(conn_poll_shutdown(k))
<1>1. CASE k.sess /\ k.eng \in {"closed", "ended"}
  <2>1. k.err # "unset" /\ Story(k)
    BY <1>1 DEF Sound, Story, Caused, Named
  <2>2. conn_poll_shutdown(k) \in {k, conn_shutdown(k, FALSE), conn_shutdown(k, TRUE)}
    BY DEF conn_poll_shutdown
  <2> QED BY <2>1, <2>2, ShutdownSound
<1>2. CASE ~(k.sess /\ k.eng \in {"closed", "ended"})
  <2>1. conn_poll_shutdown(k) = k
    BY <1>2 DEF conn_poll_shutdown
  <2> QED BY <2>1
<1> QED BY <1>1, <1>2

\* The environment's request is consumed: it happened, so it may be staged.
LEMMA ConsumeSound ==
    ASSUME NEW k, DOMAIN k = Fields, Sound(k), k.pc \notin {"none", "admitted"}
    PROVE  /\ Sound(consume_env_close(k))
           /\ k.sess /\ k.nat = "dying" =>
                \/ consume_env_close(k).kind # "none"
                \/ consume_env_close(k).err # "unset"
                \/ Local(consume_env_close(k).why)
<1> DEFINE m == consume_env_close(k)
<1>1. CASE ~k.req
  BY <1>1 DEF consume_env_close, Sound, Story, Known, Staged
<1>2. CASE k.req
  <2>1. /\ DOMAIN m = Fields /\ m.pc = k.pc /\ m.sess = k.sess /\ m.nat = k.nat
        /\ m.err = k.err /\ m.why = k.why /\ m.eng = k.eng /\ m.req = FALSE
        /\ m.cleanup = k.cleanup /\ m.started = k.started /\ m.queued = k.queued
        /\ \/ m.kind = k.kind /\ (k.kind # "none" \/ k.cleanup)
           \/ m.kind = "local" /\ ~k.cleanup
    BY <1>2 DEF consume_env_close, stage_local_cause, Fields
  <2> HIDE DEF m
  <2>2. Caused(m) /\ Fresh(m)
    BY <2>1 DEF Sound, Story, Known, Caused, Named, Fresh
  <2>3. Staged(m)
    BY <1>2, <2>1 DEF Sound, Story, Known, Staged
  <2>4. m.sess => m.kind # "none" \/ m.err # "unset"
    BY <2>1, <2>3 DEF Sound, Story, Staged, Fresh
  <2>5. Known(k)
    BY DEF Sound
  <2>6. Known(m)
    BY <2>1, <2>4, <2>5 DEF Known
  <2>7. Sound(m) /\ (k.sess => m.kind # "none" \/ m.err # "unset")
    BY <2>1, <2>2, <2>3, <2>4, <2>6 DEF Sound, Story
  <2> QED BY <2>7 DEF m
<1> QED BY <1>1, <1>2

\* The terminal: the record is written from what is staged, and the engine
\* closes with a record that names its cause.
LEMMA ClosedSound ==
    ASSUME NEW k, DOMAIN k = Fields, Story(k), k.pc \notin {"none", "admitted"},
           k.sess, k.kind # "none" \/ k.err # "unset" \/ Local(k.why),
           NEW r \in BOOLEAN
    PROVE  /\ Sound(on_conn_closed(put_error_detail(k), r))
           /\ on_conn_closed(put_error_detail(k), r).err # "unset"
<1> DEFINE p == put_error_detail(k)
           m == on_conn_closed(p, r)
<1>1. /\ DOMAIN p = Fields /\ p.pc = k.pc /\ p.sess = k.sess /\ p.nat = k.nat
      /\ p.why = k.why /\ p.eng = k.eng /\ p.req = k.req
      /\ p.kind = IF k.kind = "none" /\ ~k.cleanup THEN "local" ELSE k.kind
      /\ p.cleanup = k.cleanup /\ p.started = k.started /\ p.queued = k.queued
      /\ p.err = IF p.kind # "none" /\ k.err = "unset" THEN p.kind ELSE k.err
  BY DEF put_error_detail, latch_error, Fields
<1> HIDE DEF p
<1>2. p.err # "unset"
  BY <1>1 DEF Sound, Story, Known, Staged
<1>3. Named(p)
  BY <1>1, <1>2 DEF Story, Staged, Caused, Named
<1>4. Staged(p) /\ Fresh(p) /\ Known(p)
  BY <1>1, <1>2 DEF Story, Known, Staged, Fresh
<1>5. CASE p.eng = "closed"
  <2>1. m = p
    BY <1>5 DEF on_conn_closed
  <2>2. Caused(p)
    BY <1>2, <1>3, <1>5 DEF Caused
  <2> QED BY <1>2, <1>4, <2>1, <2>2 DEF Sound, Story, p
<1>6. CASE p.eng # "closed"
  <2>1. /\ DOMAIN m = Fields /\ m.pc = p.pc /\ m.sess = p.sess /\ m.nat = p.nat
        /\ m.why = p.why /\ m.eng = "closed" /\ m.req = p.req /\ m.kind = p.kind
        /\ m.cleanup = p.cleanup /\ m.started = p.started /\ m.queued = p.queued
        /\ m.err = p.err
    BY <1>1, <1>2, <1>6 DEF on_conn_closed, latch_error, Fields
  <2> HIDE DEF m
  <2>2. Caused(m) /\ Staged(m) /\ Fresh(m) /\ Known(m)
    BY <1>1, <1>2, <1>3, <1>4, <2>1 DEF Caused, Named, Staged, Fresh, Known
  <2> QED BY <1>2, <2>1, <2>2 DEF Sound, Story, m, p
<1> QED BY <1>5, <1>6

\* conn_feed_closed: the terminal, and the poll after it.
LEMMA FeedSound ==
    ASSUME NEW k, DOMAIN k = Fields, Story(k), k.pc \notin {"none", "admitted"},
           k.sess, k.kind # "none" \/ k.err # "unset" \/ Local(k.why),
           NEW r \in BOOLEAN
    PROVE  Sound(conn_feed_closed(k, r))
<1> DEFINE m == on_conn_closed(put_error_detail(k), r)
<1>1. Sound(m)
  BY ClosedSound
<1>2. DOMAIN m = Fields /\ m.pc = k.pc
  BY ClosedKeeps DEF Kept, Noted
<1>3. conn_feed_closed(k, r) = conn_poll_shutdown(m)
  BY DEF conn_feed_closed
<1> HIDE DEF m
<1> QED BY <1>1, <1>2, <1>3, PollSound

\* A session that nobody refers to takes its record with it.
LEMMA ForgetSound ==
    ASSUME NEW k, DOMAIN k = Fields, Caused(k), k.sess => Staged(k) /\ Known(k),
           k.pc \notin {"none", "admitted"}
    PROVE  Sound(forget(k))
<1> DEFINE m == forget(k)
<1>1. CASE k.sess \/ k.app
  BY <1>1 DEF forget, Sound, Story, Known, Staged, Fresh
<1>2. CASE ~(k.sess \/ k.app)
  <2>1. m.err = "unset" /\ m.eng = "none" /\ ~m.sess /\ m.pc = k.pc /\ m.why = {}
    BY <1>2 DEF forget, Fields
  <2> HIDE DEF m
  <2> QED BY <2>1 DEF Sound, Story, Known, Caused, Named, Once, Local, Staged, Fresh, m
<1> QED BY <1>1, <1>2

\* A construction that failed leaves neither session nor record.
LEMMA DiscardSound ==
    ASSUME NEW k, DOMAIN k = Fields
    PROVE  Sound(discard(k)) /\ Sound(listener_abandon(discard(k)))
<1> DEFINE d == discard(k)
           m == listener_abandon(d)
<1>1. /\ DOMAIN d = Fields /\ d.pc = "out" /\ ~d.sess /\ d.err = "unset"
      /\ d.eng = "none" /\ d.why = {}
  BY DEF discard, conn_free, forget, Fields
<1> HIDE DEF d
<1>2. m.pc = "out" /\ ~m.sess /\ m.err = "unset" /\ m.eng = "none" /\ m.why = {}
  BY <1>1 DEF listener_abandon, Fields
<1> HIDE DEF m
<1> QED BY <1>1, <1>2 DEF Sound, Story, Known, Caused, Named, Once, Local, Staged, Fresh, d, m

-----------------------------------------------------------------------------
(* The actions.                                                            *)

\* A step that leaves one connection sound.
LEMMA Tell ==
    ASSUME IInv, CInv, NEW c \in Conns, NEW k, Sound(k),
           conn' = [conn EXCEPT ![c] = k]
    PROVE  CInv'
<1>1. ASSUME NEW x \in Conns PROVE Sound(conn'[x])
  BY DEF IInv, CInv
<1> QED BY <1>1 DEF CInv, Sound, Story, Known, Caused, Named, Once, Local, Staged, Fresh

\* What the two invariants say of one connection.
LEMMA Here ==
    ASSUME IInv, CInv, NEW c \in Conns
    PROVE  /\ DOMAIN conn[c] = Fields /\ Good(conn[c]) /\ Sound(conn[c])
           /\ conn[c].nat # "none" => conn[c].pc \notin {"none", "admitted"}
  BY DEF IInv, CInv, Good, Placed

\* A client's connection is opened, started and handed to the program.
LEMMA ClientTells ==
    ASSUME IInv, CInv, NEW c \in Clients, ClientStep(c)
    PROVE  CInv'
<1>1. c \in Conns /\ DOMAIN conn[c] = Fields /\ Good(conn[c]) /\ Sound(conn[c])
  BY Here DEF Conns
<1>2. CASE client_connect_opens(c)
  <2>1. PICK g \in BOOLEAN :
        LET k == [conn[c] EXCEPT !.pc = "opened", !.by = "client",
                                 !.guard = IF g THEN "app" ELSE "free",
                                 !.drv = "live", !.nat = "opened"]
        IN \/ conn' = [conn EXCEPT ![c] = [k EXCEPT !.sess = TRUE, !.app = TRUE, !.eng = "open"]]
           \/ conn' = [conn EXCEPT ![c] = discard(k)]
    BY <1>2 DEF client_connect_opens
  <2> DEFINE k == [conn[c] EXCEPT !.pc = "opened", !.by = "client",
                                  !.guard = IF g THEN "app" ELSE "free",
                                  !.drv = "live", !.nat = "opened"]
             m == [k EXCEPT !.sess = TRUE, !.app = TRUE, !.eng = "open"]
  <2>2. conn' \in {[conn EXCEPT ![c] = m], [conn EXCEPT ![c] = discard(k)]}
    BY <2>1
  <2>3. /\ DOMAIN k = Fields /\ k.pc = "opened" /\ k.kind = "none" /\ ~k.req
        /\ ~k.cleanup /\ ~k.started /\ ~k.queued /\ k.err = "unset"
        /\ k.nat = "opened" /\ k.why = {}
    BY <1>1, <1>2 DEF client_connect_opens, Fields, Sound, Story, Known, Fresh
  <2> HIDE DEF k
  <2>4. /\ m.pc = "opened" /\ m.kind = "none" /\ ~m.req /\ ~m.cleanup
        /\ ~m.started /\ ~m.queued /\ m.err = "unset" /\ m.nat = "opened"
        /\ m.eng = "open" /\ m.why = {}
    BY <2>3 DEF Fields
  <2> HIDE DEF m
  <2>5. Sound(m)
    BY <2>4 DEF Sound, Story, Known, Caused, Named, Once, Local, Staged, Fresh
  <2>6. Sound(discard(k))
    BY <2>3, DiscardSound
  <2> QED BY <1>1, <2>2, <2>5, <2>6, Tell
<1>3. CASE client_connect_starts(c)
  <2>1. CASE conn' = [conn EXCEPT ![c].tracked = TRUE, ![c].nat = "up", ![c].pc = "linked"]
    <3> DEFINE m == [conn[c] EXCEPT !.tracked = TRUE, !.nat = "up", !.pc = "linked"]
    <3>1. conn' = [conn EXCEPT ![c] = m]
      BY <1>1, <2>1 DEF IInv
    <3>2. /\ m.pc = "linked" /\ m.nat = "up" /\ m.kind = conn[c].kind
          /\ m.req = conn[c].req /\ m.cleanup = conn[c].cleanup
          /\ m.started = conn[c].started /\ m.queued = conn[c].queued
          /\ m.err = conn[c].err /\ m.why = conn[c].why /\ m.eng = conn[c].eng
          /\ m.sess = conn[c].sess
      BY <1>1 DEF Fields
    <3> HIDE DEF m
    <3>3. Sound(m)
      BY <1>1, <1>3, <3>2 DEF client_connect_starts, Good, Placed, Sound, Story,
                              Known, Caused, Named, Staged, Fresh
    <3> QED BY <1>1, <3>1, <3>3, Tell
  <2>2. CASE conn' = [conn EXCEPT ![c] = discard(@)]
    <3>1. conn' = [conn EXCEPT ![c] = discard(conn[c])]
      BY <2>2
    <3> QED BY <1>1, <3>1, DiscardSound, Tell
  <2> QED BY <1>3, <2>1, <2>2 DEF client_connect_starts
<1>4. CASE client_connect_returns(c)
  <2> DEFINE m == [conn[c] EXCEPT !.pc = "out",
                                  !.guard = IF @ = "app" THEN "free" ELSE @]
  <2>1. conn' = [conn EXCEPT ![c] = m]
    BY <1>1, <1>4 DEF IInv, client_connect_returns
  <2>2. /\ m.pc = "out" /\ m.nat = conn[c].nat /\ m.kind = conn[c].kind
        /\ m.req = conn[c].req /\ m.cleanup = conn[c].cleanup
        /\ m.started = conn[c].started /\ m.queued = conn[c].queued
        /\ m.err = conn[c].err /\ m.why = conn[c].why /\ m.eng = conn[c].eng
        /\ m.sess = conn[c].sess
    BY <1>1 DEF Fields
  <2> HIDE DEF m
  <2>3. Sound(m)
    BY <1>1, <2>2 DEF Sound, Story, Known, Caused, Named, Staged, Fresh
  <2> QED BY <1>1, <2>1, <2>3, Tell
<1> QED BY <1>2, <1>3, <1>4 DEF ClientStep

\* A child is offered to a listener.
LEMMA CallbackTells ==
    ASSUME IInv, CInv, NEW c \in Accepts, NEW l \in Listeners, listener_callback(c, l)
    PROVE  CInv'
<1>1. c \in Conns /\ DOMAIN conn[c] = Fields /\ Good(conn[c]) /\ Sound(conn[c])
  BY Here DEF Conns
<1>2. /\ conn[c].err = "unset" /\ conn[c].eng = "none" /\ ~conn[c].sess
      /\ conn[c].why = {}
  BY <1>1 DEF listener_callback, Sound, Story, Known, Fresh
<1>3. ASSUME NEW h \in BOOLEAN,
             conn' = [conn EXCEPT ![c].pc = "admitted", ![c].by = l, ![c].admitted = h]
      PROVE  CInv'
  <2> DEFINE m == [conn[c] EXCEPT !.pc = "admitted", !.by = l, !.admitted = h]
  <2>1. conn' = [conn EXCEPT ![c] = m]
    BY <1>1, <1>3 DEF IInv
  <2>2. /\ m.pc = "admitted" /\ m.nat = conn[c].nat /\ m.kind = conn[c].kind
        /\ m.req = conn[c].req /\ m.cleanup = conn[c].cleanup
        /\ m.started = conn[c].started /\ m.queued = conn[c].queued
        /\ m.err = conn[c].err /\ m.why = conn[c].why /\ m.eng = conn[c].eng
        /\ m.sess = conn[c].sess
    BY <1>1 DEF Fields
  <2> HIDE DEF m
  <2>3. Sound(m)
    BY <1>1, <1>2, <2>2 DEF listener_callback, Sound, Story, Known, Caused, Named, Staged, Fresh
  <2> QED BY <1>1, <2>1, <2>3, Tell
<1>4. CASE conn' = [conn EXCEPT ![c] = listener_abandon([@ EXCEPT !.pc = "out", !.admitted = TRUE])]
  <2> DEFINE d == [conn[c] EXCEPT !.pc = "out", !.admitted = TRUE]
             m == listener_abandon(d)
  <2>1. conn' = [conn EXCEPT ![c] = m]
    BY <1>1, <1>4 DEF IInv
  <2>2. /\ DOMAIN d = Fields /\ d.err = "unset" /\ d.eng = "none" /\ ~d.sess
        /\ d.pc = "out" /\ d.why = {}
    BY <1>1, <1>2 DEF Fields
  <2> HIDE DEF d
  <2>3. m.err = "unset" /\ m.eng = "none" /\ ~m.sess /\ m.pc = "out" /\ m.why = {}
    BY <2>2 DEF Fields, listener_abandon
  <2> HIDE DEF m
  <2>4. Sound(m)
    BY <2>3 DEF Sound, Story, Known, Caused, Named, Once, Local, Staged, Fresh
  <2> QED BY <1>1, <2>1, <2>4, Tell
<1> QED BY <1>3, <1>4 DEF listener_callback

\* The child's driver and session are built, or the child is handed back.
LEMMA BuildsTells ==
    ASSUME IInv, CInv, NEW c \in Accepts, accept_builds(c)
    PROVE  CInv'
<1>1. c \in Conns /\ DOMAIN conn[c] = Fields /\ Good(conn[c]) /\ Sound(conn[c])
  BY Here DEF Conns
<1>2. /\ conn[c].err = "unset" /\ conn[c].eng = "none" /\ ~conn[c].sess
      /\ conn[c].kind = "none" /\ ~conn[c].req /\ ~conn[c].cleanup
      /\ ~conn[c].started /\ ~conn[c].queued /\ conn[c].nat = "none"
      /\ conn[c].why = {}
  BY <1>1 DEF accept_builds, Sound, Story, Known, Fresh, Good, Placed
<1>3. CASE conn' = [conn EXCEPT ![c].pc = "built", ![c].drv = "live",
                                ![c].sess = TRUE, ![c].eng = "open"]
  <2> DEFINE m == [conn[c] EXCEPT !.pc = "built", !.drv = "live", !.sess = TRUE,
                                  !.eng = "open"]
  <2>1. conn' = [conn EXCEPT ![c] = m]
    BY <1>1, <1>3 DEF IInv
  <2>2. /\ m.pc = "built" /\ m.kind = "none" /\ ~m.req /\ ~m.cleanup
        /\ ~m.started /\ ~m.queued /\ m.err = "unset" /\ m.nat = "none"
        /\ m.eng = "open" /\ m.why = {}
    BY <1>1, <1>2 DEF Fields
  <2> HIDE DEF m
  <2>3. Sound(m)
    BY <2>2 DEF Sound, Story, Known, Caused, Named, Once, Local, Staged, Fresh
  <2> QED BY <1>1, <2>1, <2>3, Tell
<1>4. CASE conn' = [conn EXCEPT ![c] = listener_abandon([@ EXCEPT !.pc = "out"])]
  <2> DEFINE d == [conn[c] EXCEPT !.pc = "out"]
             m == listener_abandon(d)
  <2>1. conn' = [conn EXCEPT ![c] = m]
    BY <1>1, <1>4 DEF IInv
  <2>2. /\ DOMAIN d = Fields /\ d.err = "unset" /\ d.eng = "none" /\ ~d.sess
        /\ d.pc = "out" /\ d.why = {}
    BY <1>1, <1>2 DEF Fields
  <2> HIDE DEF d
  <2>3. m.err = "unset" /\ m.eng = "none" /\ ~m.sess /\ m.pc = "out" /\ m.why = {}
    BY <2>2 DEF Fields, listener_abandon
  <2> HIDE DEF m
  <2>4. Sound(m)
    BY <2>3 DEF Sound, Story, Known, Caused, Named, Once, Local, Staged, Fresh
  <2> QED BY <1>1, <2>1, <2>4, Tell
<1>5. CASE conn' = [conn EXCEPT ![c] = listener_abandon(discard(@))]
  <2>1. conn' = [conn EXCEPT ![c] = listener_abandon(discard(conn[c]))]
    BY <1>5
  <2> QED BY <1>1, <2>1, DiscardSound, Tell
<1> QED BY <1>3, <1>4, <1>5 DEF accept_builds

\* The child is published and configured, or taken back.
LEMMA AcceptTells ==
    ASSUME IInv, CInv, NEW c \in Accepts, env_conn_accept(c) \/ accept_configures(c)
    PROVE  CInv'
<1>1. c \in Conns /\ DOMAIN conn[c] = Fields /\ Good(conn[c]) /\ Sound(conn[c])
  BY Here DEF Conns
<1>2. ASSUME NEW m, DOMAIN m = Fields, m.pc \in {"accepted", "out"}, m.nat \in {"new", "up"},
             m.kind = conn[c].kind, m.req = conn[c].req, m.cleanup = conn[c].cleanup,
             m.started = conn[c].started, m.queued = conn[c].queued,
             m.err = conn[c].err, m.why = conn[c].why, m.eng = conn[c].eng,
             m.sess = conn[c].sess, conn' = [conn EXCEPT ![c] = m]
      PROVE  CInv'
  <2>1. conn[c].nat \in {"none", "new"}
    BY <1>1 DEF env_conn_accept, accept_configures, Good, Placed
  <2>2. Sound(m)
    BY <1>1, <1>2, <2>1 DEF Sound, Story, Known, Caused, Named, Staged, Fresh
  <2> QED BY <1>1, <1>2, <2>2, Tell
<1>3. CASE env_conn_accept(c) /\ env.closing
  <2>1. conn' = [conn EXCEPT ![c] = listener_abandon(discard(conn[c]))]
    BY <1>3 DEF env_conn_accept
  <2> QED BY <1>1, <2>1, DiscardSound, Tell
<1>4. CASE env_conn_accept(c) /\ ~env.closing
  <2> DEFINE m == [conn[c] EXCEPT !.pc = "accepted", !.tracked = TRUE, !.nat = "new"]
  <2>1. conn' = [conn EXCEPT ![c] = m]
    BY <1>1, <1>4 DEF IInv, env_conn_accept
  <2>2. /\ DOMAIN m = Fields /\ m.pc = "accepted" /\ m.nat = "new"
        /\ m.kind = conn[c].kind /\ m.req = conn[c].req
        /\ m.cleanup = conn[c].cleanup /\ m.started = conn[c].started
        /\ m.queued = conn[c].queued /\ m.err = conn[c].err
        /\ m.why = conn[c].why /\ m.eng = conn[c].eng /\ m.sess = conn[c].sess
    BY <1>1 DEF Fields
  <2> HIDE DEF m
  <2> QED BY <1>2, <2>1, <2>2
<1>5. CASE conn' = [conn EXCEPT ![c].pc = "out", ![c].nat = "up"]
  <2> DEFINE m == [conn[c] EXCEPT !.pc = "out", !.nat = "up"]
  <2>1. conn' = [conn EXCEPT ![c] = m]
    BY <1>1, <1>5 DEF IInv
  <2>2. /\ DOMAIN m = Fields /\ m.pc = "out" /\ m.nat = "up"
        /\ m.kind = conn[c].kind /\ m.req = conn[c].req
        /\ m.cleanup = conn[c].cleanup /\ m.started = conn[c].started
        /\ m.queued = conn[c].queued /\ m.err = conn[c].err
        /\ m.why = conn[c].why /\ m.eng = conn[c].eng /\ m.sess = conn[c].sess
    BY <1>1 DEF Fields
  <2> HIDE DEF m
  <2> QED BY <1>2, <2>1, <2>2
<1>6. CASE conn' = [conn EXCEPT ![c] = listener_abandon(discard([@ EXCEPT !.tracked = FALSE]))]
  <2> DEFINE m == [conn[c] EXCEPT !.tracked = FALSE]
  <2>1. DOMAIN m = Fields
    BY <1>1 DEF Fields
  <2>2. conn' = [conn EXCEPT ![c] = listener_abandon(discard(m))]
    BY <1>1, <1>6 DEF IInv
  <2> HIDE DEF m
  <2> QED BY <1>1, <2>1, <2>2, DiscardSound, Tell
<1> QED BY <1>3, <1>4, <1>5, <1>6 DEF accept_configures

\* CONNECTED: a start that fails is a cause of its own.
LEMMA ConnectedTells ==
    ASSUME IInv, CInv, NEW c \in Conns, conn_CONNECTED(c)
    PROVE  CInv'
<1>1. /\ DOMAIN conn[c] = Fields /\ Sound(conn[c]) /\ conn[c].sess
      /\ conn[c].pc \notin {"none", "admitted"}
  BY Here DEF conn_CONNECTED, Enters, Good, Placed, Delivers
<1> DEFINE a == [conn[c] EXCEPT !.run = TRUE]
           b == because(a, "start")
<1>2. \/ conn' = [conn EXCEPT ![c] = conn_poll_shutdown(a)]
      \/ conn' = [conn EXCEPT ![c] = conn_shutdown(conn_poll_shutdown(b), FALSE)]
  BY Zenon DEF conn_CONNECTED
<1>3. /\ DOMAIN a = Fields /\ SameStory(conn[c], a) /\ a.kind = conn[c].kind
      /\ a.cleanup = conn[c].cleanup /\ a.started = conn[c].started
      /\ a.queued = conn[c].queued
  BY <1>1 DEF Fields, SameStory
<1> HIDE DEF a
<1>4. Sound(a)
  BY <1>1, <1>3 DEF Sound, Story, Known, Caused, Named, Staged, Fresh, SameStory
<1>5. Sound(conn_poll_shutdown(a))
  BY <1>1, <1>3, <1>4, PollSound DEF SameStory
<1>6. /\ b.kind = a.kind /\ b.cleanup = a.cleanup
      /\ b.started = a.started /\ b.queued = a.queued
      /\ DOMAIN b = Fields /\ b.pc = a.pc /\ b.sess = a.sess /\ b.nat = a.nat
      /\ b.err = a.err /\ b.eng = a.eng /\ b.req = a.req /\ Once(b.why)
      /\ \A v : v \in a.why => v \in b.why
      /\ \A v : v \in b.why => v \in a.why \/ v = "start"
      /\ \E v \in Shuts : v \in b.why
  BY <1>3, <1>4, BecauseFirst DEF Sound, Story, Caused, Named, Shuts, Ours
<1> HIDE DEF b
<1>7. Local(a.why) => Local(b.why)
  BY <1>6 DEF Local
<1>8. Story(b)
  <2>1. Caused(b)
    BY <1>4, <1>6, <1>7 DEF Sound, Story, Caused, Named
  <2>2. Staged(b)
    BY <1>4, <1>6, <1>7 DEF Sound, Story, Staged
  <2>3. Fresh(b)
    BY <1>1, <1>3, <1>6 DEF Fresh, SameStory
  <2> QED BY <2>1, <2>2, <2>3 DEF Story
<1>9. b.err = "unset" =>
        /\ "transport" \notin b.why /\ "app" \notin b.why /\ Local(b.why)
  <2> SUFFICES ASSUME b.err = "unset"
               PROVE  /\ "transport" \notin b.why /\ "app" \notin b.why
                      /\ Local(b.why)
    OBVIOUS
  <2>1. "transport" \notin a.why /\ "app" \notin a.why
    BY <1>1, <1>3, <1>4, <1>6 DEF Sound, Known, SameStory
  <2>2. "transport" \notin b.why /\ "app" \notin b.why
    BY <1>6, <2>1
  <2> QED BY <1>6, <2>2 DEF Local, Shuts
<1> DEFINE p == conn_poll_shutdown(b)
<1>10. /\ Story(p) /\ SameStory(b, p) /\ DOMAIN p = Fields
       /\ p.kind = b.kind \/ b.err # "unset"
  <2>1. CASE b.sess /\ b.eng \in {"closed", "ended"}
    <3>1. b.err # "unset" /\ b.pc \notin {"none", "admitted"}
      BY <1>1, <1>3, <1>6, <1>8, <2>1 DEF Story, Caused, Named, SameStory
    <3>2. ASSUME NEW x \in BOOLEAN
          PROVE  Story(conn_shutdown(b, x)) /\ SameStory(b, conn_shutdown(b, x))
      <4>1. Story(conn_shutdown(b, x))
        BY <1>6, <1>8, <3>1, ShutdownSound DEF Sound
      <4>2. SameStory(b, conn_shutdown(b, x))
        BY <1>6 DEF SameStory, conn_shutdown, stage_local_cause, Fields
      <4> QED BY <4>1, <4>2
    <3>3. p \in {b, conn_shutdown(b, FALSE), conn_shutdown(b, TRUE)}
      BY DEF conn_poll_shutdown
    <3>4. SameStory(b, b)
      BY <1>6 DEF SameStory
    <3> HIDE DEF p
    <3>5. Story(p) /\ SameStory(b, p)
      BY <1>8, <3>2, <3>3, <3>4
    <3> QED BY <3>1, <3>5 DEF SameStory
  <2>2. CASE ~(b.sess /\ b.eng \in {"closed", "ended"})
    <3>1. p = b
      BY <2>2 DEF conn_poll_shutdown
    <3> QED BY <1>6, <1>8, <3>1 DEF SameStory
  <2> QED BY <2>1, <2>2
<1> HIDE DEF p
<1>11. Sound(conn_shutdown(p, FALSE))
  BY <1>1, <1>3, <1>6, <1>9, <1>10, ShutdownSound DEF SameStory
<1> QED BY <1>2, <1>5, <1>11, Tell DEF p

\* The session ends: the terminal callback seals the record.
LEMMA SessionEndsTells ==
    ASSUME IInv, CInv, NEW c \in Conns, session_ends(c)
    PROVE  CInv'
<1>1. /\ DOMAIN conn[c] = Fields /\ Sound(conn[c])
      /\ conn[c].pc \notin {"none", "admitted"}
  BY Here DEF session_ends, Enters
<1>2. PICK f \in BOOLEAN : conn' = [conn EXCEPT ![c] = conn_poll_shutdown(
           because([latch_error(@, "none") EXCEPT !.eng = "ended", !.flush = f], "ended"))]
  BY DEF session_ends
<1> DEFINE a == latch_error(conn[c], "none")
           e == [a EXCEPT !.eng = "ended", !.flush = f]
           m == because(e, "ended")
<1>3. conn' = [conn EXCEPT ![c] = conn_poll_shutdown(m)]
  BY <1>2, Zenon
<1>4. /\ DOMAIN a = Fields /\ a.pc = conn[c].pc /\ a.sess = conn[c].sess
      /\ a.nat = conn[c].nat /\ a.req = conn[c].req /\ a.why = conn[c].why
      /\ a.kind = conn[c].kind /\ a.cleanup = conn[c].cleanup
      /\ a.started = conn[c].started /\ a.queued = conn[c].queued
      /\ a.err = IF conn[c].err = "unset" THEN "none" ELSE conn[c].err
  BY <1>1 DEF Fields, latch_error
<1> HIDE DEF a
<1>5. conn[c].err = "unset" /\ conn[c].eng = "open"
  BY <1>1 DEF session_ends, Sound, Story, Caused, Named
<1>6. /\ DOMAIN e = Fields /\ e.pc = a.pc /\ e.sess = a.sess
      /\ e.nat = a.nat /\ e.req = a.req /\ e.why = a.why
      /\ e.kind = a.kind /\ e.cleanup = a.cleanup /\ e.eng = "ended"
      /\ e.started = a.started /\ e.queued = a.queued /\ e.err = a.err
  BY <1>4 DEF Fields
<1> HIDE DEF e
<1>7. /\ m.kind = e.kind /\ m.cleanup = e.cleanup
      /\ m.started = e.started /\ m.queued = e.queued
      /\ DOMAIN m = Fields /\ m.pc = e.pc /\ m.sess = e.sess /\ m.nat = e.nat
      /\ m.err = e.err /\ m.eng = e.eng /\ m.req = e.req /\ Once(m.why)
      /\ \A v : v \in e.why => v \in m.why
      /\ \A v : v \in m.why => v \in e.why \/ v = "ended"
      /\ \E v \in Ends : v \in m.why /\ (v = "ended" \/ v \in e.why)
  BY <1>1, <1>4, <1>6, BecauseFirst DEF Sound, Story, Caused, Named, Ends
<1> HIDE DEF m
<1>8. "ended" \in m.why /\ "fatal" \notin m.why
  BY <1>1, <1>4, <1>5, <1>6, <1>7 DEF Sound, Story, Caused, Named, Ends
<1>9. Caused(m) /\ Fresh(m) /\ m.err = "none"
  BY <1>1, <1>4, <1>5, <1>6, <1>7, <1>8 DEF Caused, Named, Fresh
<1>10. Staged(m) /\ Known(m)
  BY <1>1, <1>4, <1>6, <1>7, <1>9 DEF Sound, Story, Known, Staged
<1>11. Sound(conn_poll_shutdown(m))
  BY <1>1, <1>4, <1>6, <1>7, <1>9, <1>10, PollSound DEF Sound, Story
<1> QED BY <1>3, <1>11, Tell

\* The last pending send completes.
LEMMA FlushedTells ==
    ASSUME IInv, CInv, NEW c \in Conns, sends_flushed(c)
    PROVE  CInv'
<1>1. /\ DOMAIN conn[c] = Fields /\ Sound(conn[c])
      /\ conn[c].pc \notin {"none", "admitted"}
  BY Here DEF sends_flushed, Enters
<1> DEFINE m == [conn[c] EXCEPT !.flush = FALSE]
<1>2. conn' = [conn EXCEPT ![c] = conn_poll_shutdown(m)]
  BY DEF sends_flushed, IInv
<1>3. /\ SameStory(conn[c], m) /\ m.kind = conn[c].kind
      /\ m.cleanup = conn[c].cleanup /\ m.started = conn[c].started
      /\ m.queued = conn[c].queued
  BY <1>1 DEF Fields, SameStory
<1> HIDE DEF m
<1>4. Sound(m)
  BY <1>1, <1>3 DEF Sound, Story, Known, Caused, Named, Staged, Fresh, SameStory
<1>5. Sound(conn_poll_shutdown(m))
  BY <1>1, <1>3, <1>4, PollSound DEF SameStory
<1> QED BY <1>2, <1>5, Tell

\* conn_fatal: the record is latched before the shutdown is asked for.
LEMMA FatalTells ==
    ASSUME IInv, CInv, NEW c \in Conns, engine_fatal(c)
    PROVE  CInv'
<1>1. /\ DOMAIN conn[c] = Fields /\ Sound(conn[c])
      /\ conn[c].pc \notin {"none", "admitted"}
  BY Here DEF engine_fatal, Enters
<1> DEFINE a == latch_error(conn[c], "app")
           e == [a EXCEPT !.eng = "closed"]
           m == because(e, "fatal")
<1>2. conn' = [conn EXCEPT ![c] = conn_poll_shutdown(conn_shutdown(m, FALSE))]
  BY Zenon DEF engine_fatal
<1>3. /\ DOMAIN a = Fields /\ a.pc = conn[c].pc /\ a.sess = conn[c].sess
      /\ a.nat = conn[c].nat /\ a.req = conn[c].req /\ a.why = conn[c].why
      /\ a.kind = conn[c].kind /\ a.cleanup = conn[c].cleanup
      /\ a.started = conn[c].started /\ a.queued = conn[c].queued
      /\ a.err = IF conn[c].err = "unset" THEN "app" ELSE conn[c].err
  BY <1>1 DEF Fields, latch_error
<1> HIDE DEF a
<1>4. /\ DOMAIN e = Fields /\ e.pc = a.pc /\ e.sess = a.sess
      /\ e.nat = a.nat /\ e.req = a.req /\ e.why = a.why
      /\ e.kind = a.kind /\ e.cleanup = a.cleanup /\ e.eng = "closed"
      /\ e.started = a.started /\ e.queued = a.queued /\ e.err = a.err
  BY <1>3 DEF Fields
<1> HIDE DEF e
<1>5. /\ m.kind = e.kind /\ m.cleanup = e.cleanup
      /\ m.started = e.started /\ m.queued = e.queued
      /\ DOMAIN m = Fields /\ m.pc = e.pc /\ m.sess = e.sess /\ m.nat = e.nat
      /\ m.err = e.err /\ m.eng = e.eng /\ m.req = e.req /\ Once(m.why)
      /\ \A v : v \in e.why => v \in m.why
      /\ \A v : v \in m.why => v \in e.why \/ v = "fatal"
      /\ \E v \in Ends : v \in m.why /\ (v = "fatal" \/ v \in e.why)
  BY <1>1, <1>3, <1>4, BecauseFirst DEF Sound, Story, Caused, Named, Ends
<1> HIDE DEF m
\* The session had not ended, or the record was sealed when it did.
<1>6. \/ m.err = "app" /\ "fatal" \in m.why /\ "ended" \notin m.why
      \/ m.err = "none" /\ "ended" \in m.why /\ "fatal" \notin m.why
  <2>1. CASE conn[c].eng = "open"
    BY <1>1, <1>3, <1>4, <1>5, <2>1 DEF Sound, Story, Caused, Named, Ends
  <2>2. CASE conn[c].eng = "ended"
    BY <1>1, <1>3, <1>4, <1>5, <2>2 DEF Sound, Story, Caused, Named, Once, Ends
  <2> QED BY <2>1, <2>2 DEF engine_fatal
<1>7. Caused(m) /\ Fresh(m) /\ Staged(m) /\ Known(m)
  <2>1. Caused(m) /\ Fresh(m)
    BY <1>1, <1>3, <1>4, <1>5, <1>6 DEF Caused, Named, Fresh
  <2>2. Staged(m) /\ Known(m)
    BY <1>1, <1>3, <1>4, <1>5, <1>6 DEF Sound, Story, Known, Staged
  <2> QED BY <2>1, <2>2
<1> DEFINE q == conn_shutdown(m, FALSE)
<1>8. Sound(q)
  BY <1>1, <1>3, <1>4, <1>5, <1>6, <1>7, ShutdownSound DEF Story
<1>9. DOMAIN q = Fields /\ q.pc \notin {"none", "admitted"}
  <2>1. Kept(m, q) /\ m.pc \notin {"none", "admitted"}
    BY <1>1, <1>3, <1>4, <1>5, ShutdownKeeps
  <2> QED BY <2>1 DEF Kept, Noted
<1> HIDE DEF q
<1>10. Sound(conn_poll_shutdown(q))
  BY <1>8, <1>9, PollSound
<1> QED BY <1>2, <1>10, Tell DEF q

\* References of the program come and go.
LEMMA RefsTell ==
    ASSUME IInv, CInv, NEW c \in Conns, session_add_ref(c) \/ session_release(c)
    PROVE  CInv'
<1>1. DOMAIN conn[c] = Fields /\ Sound(conn[c])
  BY Here
<1>2. conn[c].pc \notin {"none", "admitted"}
  BY Here DEF session_add_ref, session_release, Enters
<1>3. ASSUME NEW x \in BOOLEAN
      PROVE  /\ DOMAIN [conn[c] EXCEPT !.app = x] = Fields
             /\ [conn[c] EXCEPT !.app = x].pc = conn[c].pc
             /\ Sound([conn[c] EXCEPT !.app = x])
  <2> DEFINE m == [conn[c] EXCEPT !.app = x]
  <2>1. /\ SameStory(conn[c], m) /\ m.kind = conn[c].kind
        /\ m.cleanup = conn[c].cleanup /\ m.started = conn[c].started
        /\ m.queued = conn[c].queued
    BY <1>1 DEF Fields, SameStory
  <2> HIDE DEF m
  <2>2. Sound(m)
    BY <1>1, <2>1 DEF Sound, Story, Known, Caused, Named, Staged, Fresh, SameStory
  <2> QED BY <2>1, <2>2 DEF SameStory, m
<1>4. CASE session_add_ref(c)
  <2>1. conn' = [conn EXCEPT ![c] = [conn[c] EXCEPT !.app = TRUE]]
    BY <1>4 DEF session_add_ref, IInv
  <2> QED BY <1>3, <2>1, Tell
<1>5. CASE session_release(c)
  <2> DEFINE m == [conn[c] EXCEPT !.app = FALSE]
  <2>1. conn' = [conn EXCEPT ![c] = forget(m)]
    BY <1>5 DEF session_release, IInv
  <2>2. DOMAIN m = Fields /\ m.pc \notin {"none", "admitted"} /\ Sound(m)
    BY <1>2, <1>3
  <2> HIDE DEF m
  <2>3. Sound(forget(m))
    BY <2>2, ForgetSound DEF Sound, Story, Known
  <2> QED BY <2>1, <2>3, Tell
<1> QED BY <1>4, <1>5

\* The transport or the peer shuts the connection down, a cause of its own
\* unless the environment's request came first.
LEMMA InitiatedTells ==
    ASSUME IInv, CInv, NEW c \in Conns, NEW k \in {"transport", "app"},
           NEW r \in BOOLEAN, conn_SHUTDOWN_INITIATED(c, k, r)
    PROVE  CInv'
<1>1. /\ DOMAIN conn[c] = Fields /\ Sound(conn[c]) /\ conn[c].sess
      /\ conn[c].pc \notin {"none", "admitted"} /\ conn[c].nat = "up"
  BY Here DEF conn_SHUTDOWN_INITIATED, Enters, Good, Placed, Delivers
<1> DEFINE e == [conn[c] EXCEPT !.nat = "dying"]
           d == because(e, k)
           q == consume_env_close(d)
           s == IF q.kind = "none" /\ ~q.cleanup THEN [q EXCEPT !.kind = k] ELSE q
<1>2. conn' = [conn EXCEPT ![c] = conn_feed_closed(s, r)]
  BY Zenon DEF conn_SHUTDOWN_INITIATED
<1>3. /\ DOMAIN e = Fields /\ e.pc = conn[c].pc /\ e.sess = conn[c].sess
      /\ e.req = conn[c].req /\ e.why = conn[c].why
      /\ e.kind = conn[c].kind /\ e.cleanup = conn[c].cleanup
      /\ e.started = conn[c].started /\ e.queued = conn[c].queued
      /\ e.err = conn[c].err /\ e.eng = conn[c].eng
  BY <1>1 DEF Fields
<1> HIDE DEF e
<1>4. /\ d.kind = e.kind /\ d.cleanup = e.cleanup
      /\ d.started = e.started /\ d.queued = e.queued
      /\ DOMAIN d = Fields /\ d.pc = e.pc /\ d.sess = e.sess
      /\ d.err = e.err /\ d.eng = e.eng /\ d.req = e.req /\ Once(d.why)
      /\ \A v : v \in e.why => v \in d.why
      /\ \A v : v \in d.why => v \in e.why \/ v = k
      /\ \E v \in Shuts : v \in d.why /\ (v = k \/ v \in e.why)
  BY <1>1, <1>3, BecauseFirst DEF Sound, Story, Caused, Named, Shuts
<1> HIDE DEF d
<1>5. Local(e.why) => Local(d.why)
  BY <1>4 DEF Local
\* With nothing staged or asked for, this event is the first cause.
<1>6. d.err = "unset" /\ d.kind = "none" /\ ~d.req => k \in d.why
  BY <1>1, <1>3, <1>4 DEF Sound, Known, Local, Shuts
\* The request is consumed before a shutdown of nobody's making is staged.
<1>7. /\ DOMAIN q = Fields /\ q.pc = d.pc /\ q.sess = d.sess /\ q.why = d.why
      /\ q.err = d.err /\ q.eng = d.eng /\ q.started = d.started
      /\ q.cleanup = d.cleanup /\ ~q.req
      /\ \/ q.kind = d.kind /\ (d.req => d.kind # "none" \/ d.cleanup)
         \/ q.kind = "local" /\ d.req
  BY <1>4 DEF consume_env_close, stage_local_cause, Fields
<1> HIDE DEF q
<1>8. /\ DOMAIN s = Fields /\ s.pc = q.pc /\ s.sess = q.sess /\ s.why = q.why
      /\ s.err = q.err /\ s.eng = q.eng /\ s.started = q.started
      /\ s.cleanup = q.cleanup /\ ~s.req
      /\ s.kind = IF q.kind = "none" /\ ~q.cleanup THEN k ELSE q.kind
  BY <1>7 DEF Fields
<1> HIDE DEF s
<1>9. Caused(d) /\ Fresh(s)
  BY <1>1, <1>3, <1>4, <1>5, <1>7, <1>8 DEF Sound, Story, Caused, Named, Fresh
<1>10. Caused(s)
  BY <1>7, <1>8, <1>9 DEF Caused, Named
<1>11. s.kind # "none" \/ s.err # "unset"
  BY <1>1, <1>3, <1>4, <1>7, <1>8 DEF Sound, Story, Staged
<1>12. Staged(s)
  <2>1. conn[c].req \/ conn[c].kind = "local" => conn[c].err # "unset" \/ Local(conn[c].why)
    BY <1>1 DEF Sound, Story, Staged
  <2>2. s.kind = "local" => s.err # "unset" \/ Local(s.why)
    BY <1>3, <1>4, <1>5, <1>7, <1>8, <2>1
  <2>3. s.kind \in {"transport", "app"} => s.err # "unset" \/ (s.kind = k /\ k \in s.why)
    BY <1>1, <1>3, <1>4, <1>6, <1>7, <1>8 DEF Sound, Story, Known, Staged
  <2>4. /\ s.kind \in {"none", "local", "transport", "app"}
        /\ s.cleanup => s.err # "unset"
        /\ s.started => s.kind # "none" \/ s.cleanup
    BY <1>1, <1>3, <1>4, <1>7, <1>8 DEF Sound, Story, Staged
  <2> QED BY <1>8, <1>11, <2>2, <2>3, <2>4 DEF Staged
<1>13. Sound(conn_feed_closed(s, r))
  BY <1>1, <1>3, <1>4, <1>7, <1>8, <1>9, <1>10, <1>11, <1>12, FeedSound DEF Story
<1> QED BY <1>2, <1>13, Tell

\* A stream that starts under another id is a local cause.
LEMMA MismatchTells ==
    ASSUME IInv, CInv, NEW c \in Conns, stream_START_COMPLETE_mismatch(c)
    PROVE  CInv'
<1>1. /\ DOMAIN conn[c] = Fields /\ Sound(conn[c]) /\ conn[c].sess
      /\ conn[c].pc \notin {"none", "admitted"} /\ conn[c].nat = "up"
  BY Here DEF stream_START_COMPLETE_mismatch, Enters, Good, Placed, Delivers
<1> DEFINE b == because(conn[c], "id")
           m == stage_local_cause(b)
<1>2. conn' = [conn EXCEPT ![c] = conn_feed_closed(m, FALSE)]
  BY Zenon DEF stream_START_COMPLETE_mismatch
<1>3. /\ b.kind = conn[c].kind /\ b.cleanup = conn[c].cleanup
      /\ b.started = conn[c].started /\ b.queued = conn[c].queued
      /\ DOMAIN b = Fields /\ b.pc = conn[c].pc /\ b.sess = conn[c].sess
      /\ b.nat = conn[c].nat
      /\ b.err = conn[c].err /\ b.eng = conn[c].eng /\ b.req = conn[c].req
      /\ Once(b.why)
      /\ \A v : v \in conn[c].why => v \in b.why
      /\ \A v : v \in b.why => v \in conn[c].why \/ v = "id"
      /\ \E v \in Shuts : v \in b.why
  <2>1. Once(conn[c].why) /\ "id" \in Shuts
    BY <1>1 DEF Sound, Story, Caused, Named, Shuts, Ours
  <2> QED BY <1>1, <2>1, BecauseFirst
<1> HIDE DEF b
<1>4. /\ Local(conn[c].why) => Local(b.why)
      /\ b.err = "unset" => Local(b.why)
  BY <1>1, <1>3 DEF Sound, Known, Local, Shuts
<1>5. /\ DOMAIN m = Fields /\ m.pc = b.pc /\ m.sess = b.sess /\ m.why = b.why
      /\ m.nat = b.nat /\ m.req = b.req /\ m.queued = b.queued
      /\ m.err = b.err /\ m.eng = b.eng /\ m.started = b.started
      /\ m.cleanup = b.cleanup
      /\ m.kind = IF b.kind = "none" /\ ~b.cleanup THEN "local" ELSE b.kind
  BY <1>3 DEF stage_local_cause, Fields
<1> HIDE DEF m
<1>6. Caused(m) /\ Fresh(m)
  BY <1>1, <1>3, <1>4, <1>5 DEF Sound, Story, Caused, Named, Fresh
<1>7. m.kind # "none" \/ m.err # "unset"
  BY <1>1, <1>3, <1>5 DEF Sound, Story, Staged
<1>8. Staged(m)
  BY <1>1, <1>3, <1>4, <1>5 DEF Sound, Story, Staged
<1>9. Sound(conn_feed_closed(m, FALSE))
  BY <1>1, <1>3, <1>5, <1>6, <1>7, <1>8, FeedSound DEF Story
<1> QED BY <1>2, <1>9, Tell

\* A shutdown from outside is a local cause, and under way at once.
LEMMA OutsideTells ==
    ASSUME IInv, CInv, NEW c \in Conns, ShutdownOutside(c)
    PROVE  CInv'
<1>1. /\ DOMAIN conn[c] = Fields /\ Sound(conn[c])
      /\ conn[c].pc \notin {"none", "admitted"} /\ conn[c].sess
  BY Here DEF ShutdownOutside, Good, Placed, Delivers
<1> DEFINE e == [conn[c] EXCEPT !.nat = "dying", !.queued = FALSE]
           m == because(e, "outside")
<1>2. conn' = [conn EXCEPT ![c] = m]
  BY Zenon DEF ShutdownOutside
<1>3. /\ DOMAIN e = Fields /\ e.pc = conn[c].pc /\ e.sess = conn[c].sess
      /\ e.req = conn[c].req /\ e.why = conn[c].why /\ e.nat = "dying"
      /\ e.kind = conn[c].kind /\ e.cleanup = conn[c].cleanup
      /\ e.started = conn[c].started /\ ~e.queued
      /\ e.err = conn[c].err /\ e.eng = conn[c].eng
  BY <1>1 DEF Fields
<1> HIDE DEF e
<1>4. /\ m.kind = e.kind /\ m.cleanup = e.cleanup
      /\ m.started = e.started /\ m.queued = e.queued
      /\ DOMAIN m = Fields /\ m.pc = e.pc /\ m.sess = e.sess /\ m.nat = e.nat
      /\ m.err = e.err /\ m.eng = e.eng /\ m.req = e.req /\ Once(m.why)
      /\ \A v : v \in e.why => v \in m.why
      /\ \A v : v \in m.why => v \in e.why \/ v = "outside"
      /\ \E v \in Shuts : v \in m.why
  <2>1. Once(e.why) /\ "outside" \in Shuts
    BY <1>1, <1>3 DEF Sound, Story, Caused, Named, Shuts, Ours
  <2> QED BY <1>3, <2>1, BecauseFirst
<1> HIDE DEF m
<1>5. /\ Local(e.why) => Local(m.why)
      /\ m.err = "unset" => Local(m.why)
  BY <1>1, <1>3, <1>4 DEF Sound, Known, Local, Shuts
<1>6. Caused(m) /\ Fresh(m)
  BY <1>1, <1>3, <1>4, <1>5 DEF Sound, Story, Caused, Named, Fresh
<1>7. Staged(m) /\ Known(m)
  BY <1>1, <1>3, <1>4, <1>5 DEF Sound, Story, Known, Staged
<1> QED BY <1>2, <1>6, <1>7, Tell DEF Sound, Story

\* A queued shutdown runs: somebody staged it or asked for it.
LEMMA ShutdownRunsTells ==
    ASSUME IInv, CInv, NEW c \in Conns, ShutdownRuns(c)
    PROVE  CInv'
<1>1. DOMAIN conn[c] = Fields /\ Sound(conn[c])
  BY Here
<1> DEFINE m == [conn[c] EXCEPT !.nat = "dying", !.queued = FALSE]
<1>2. conn' = [conn EXCEPT ![c] = m]
  BY <1>1 DEF ShutdownRuns, IInv
<1>3. /\ m.pc = conn[c].pc /\ m.nat = "dying" /\ m.kind = conn[c].kind
      /\ m.req = conn[c].req /\ m.cleanup = conn[c].cleanup
      /\ m.started = conn[c].started /\ ~m.queued
      /\ m.err = conn[c].err /\ m.why = conn[c].why /\ m.eng = conn[c].eng
      /\ m.sess = conn[c].sess
  BY <1>1 DEF Fields
<1> HIDE DEF m
<1>4. Sound(m)
  BY <1>1, <1>3 DEF ShutdownRuns, Sound, Story, Known, Caused, Named, Staged, Fresh
<1> QED BY <1>2, <1>4, Tell

\* SHUTDOWN_COMPLETE writes the record from what is staged.
LEMMA CompleteTells ==
    ASSUME IInv, CInv, NEW c \in Conns, conn_SHUTDOWN_COMPLETE(c)
    PROVE  CInv'
<1>1. /\ DOMAIN conn[c] = Fields /\ Sound(conn[c]) /\ conn[c].nat = "dying"
      /\ conn[c].sess /\ conn[c].pc \notin {"none", "admitted"}
  BY Here DEF conn_SHUTDOWN_COMPLETE, Good, Placed, Delivers
<1> DEFINE a == consume_env_close(conn[c])
           q == [a EXCEPT !.nat = "over", !.last = "released", !.guard = "worker"]
           e == on_conn_closed(put_error_detail(q), FALSE)
           m == [e EXCEPT !.sess = FALSE, !.told = @ \cup {"quiesced"}]
<1>2. conn' = [conn EXCEPT ![c] = IF q.sess THEN m ELSE q]
  BY Zenon DEF conn_SHUTDOWN_COMPLETE, conn_quiesces
<1>3. Sound(a) /\ (a.kind # "none" \/ a.err # "unset" \/ Local(a.why))
  BY <1>1, ConsumeSound
<1>4. DOMAIN a = Fields /\ a.pc = conn[c].pc /\ a.sess
  BY <1>1, ConsumeKeeps DEF Kept, Noted
<1> HIDE DEF a
<1>5. /\ q.kind = a.kind
      /\ q.cleanup = a.cleanup /\ q.started = a.started /\ q.queued = a.queued
      /\ DOMAIN q = Fields /\ q.pc = a.pc /\ q.sess = a.sess /\ q.nat = "over"
      /\ q.err = a.err /\ q.why = a.why /\ q.eng = a.eng /\ q.req = a.req
  BY <1>4 DEF Fields
<1> HIDE DEF q
<1>6. Story(q)
  BY <1>3, <1>4, <1>5 DEF Sound, Story, Caused, Named, Staged, Fresh
<1>7. Sound(e) /\ e.err # "unset"
  BY <1>1, <1>3, <1>4, <1>5, <1>6, ClosedSound
<1>8. DOMAIN e = Fields /\ e.pc = q.pc
  BY <1>5, ClosedKeeps DEF Kept, Noted
<1> HIDE DEF e
<1>9. /\ m.err = e.err /\ m.why = e.why /\ m.eng = e.eng /\ ~m.sess
      /\ m.pc = e.pc
  BY <1>8 DEF Fields
<1> HIDE DEF m
<1>10. Sound(m)
  BY <1>1, <1>4, <1>5, <1>7, <1>8, <1>9 DEF Sound, Story, Known, Caused, Named, Staged, Fresh
<1> QED BY <1>2, <1>4, <1>5, <1>10, Tell

\* The end of SHUTDOWN_COMPLETE: unregister, free, leave.
LEMMA EndTells ==
    ASSUME IInv, CInv, NEW c \in Conns,
           env_conn_unregister(c) \/ conn_frees(c) \/ conn_leaves(c)
    PROVE  CInv'
<1>1. /\ DOMAIN conn[c] = Fields /\ Sound(conn[c]) /\ Good(conn[c])
      /\ conn[c].pc \notin {"none", "admitted"}
  BY Here DEF env_conn_unregister, conn_frees, conn_leaves, Good, Placed
<1>2. ASSUME NEW m, SameStory(conn[c], m), m.kind = conn[c].kind,
             m.cleanup = conn[c].cleanup, m.started = conn[c].started,
             m.queued = conn[c].queued, conn' = [conn EXCEPT ![c] = m]
      PROVE  CInv'
  <2>1. Sound(m)
    BY <1>1, <1>2 DEF Sound, Story, Known, Caused, Named, Staged, Fresh, SameStory
  <2> QED BY <1>2, <2>1, Tell
<1>3. CASE env_conn_unregister(c)
  <2> DEFINE m == [conn[c] EXCEPT !.last = "unlisted", !.tracked = FALSE]
  <2>1. conn' = [conn EXCEPT ![c] = m]
    BY <1>1, <1>3 DEF env_conn_unregister, IInv
  <2>2. /\ SameStory(conn[c], m) /\ m.kind = conn[c].kind
        /\ m.cleanup = conn[c].cleanup /\ m.started = conn[c].started
        /\ m.queued = conn[c].queued
    BY <1>1 DEF Fields, SameStory
  <2> HIDE DEF m
  <2> QED BY <1>2, <2>1, <2>2
<1>4. CASE conn_leaves(c)
  <2> DEFINE m == [conn[c] EXCEPT !.last = "done", !.guard = "free"]
  <2>1. conn' = [conn EXCEPT ![c] = m]
    BY <1>1, <1>4 DEF conn_leaves, IInv
  <2>2. /\ SameStory(conn[c], m) /\ m.kind = conn[c].kind
        /\ m.cleanup = conn[c].cleanup /\ m.started = conn[c].started
        /\ m.queued = conn[c].queued
    BY <1>1 DEF Fields, SameStory
  <2> HIDE DEF m
  <2> QED BY <1>2, <2>1, <2>2
<1>5. CASE conn_frees(c)
  <2> DEFINE d == [conn[c] EXCEPT !.drv = "freed",
                     !.nat = IF @ = "none" THEN "none" ELSE "closed",
                     !.queued = FALSE, !.run = FALSE, !.req = FALSE, !.kind = "none",
                     !.cleanup = FALSE, !.started = FALSE, !.flush = FALSE]
             f == forget(d)
             m == [f EXCEPT !.last = "freed"]
  <2>1. conn' = [conn EXCEPT ![c] = m]
    BY <1>5, Zenon DEF conn_frees, conn_free
  <2>2. /\ DOMAIN d = Fields /\ d.pc = conn[c].pc /\ d.sess = conn[c].sess
        /\ d.err = conn[c].err /\ d.why = conn[c].why /\ d.eng = conn[c].eng
        /\ d.kind = "none" /\ ~d.req /\ ~d.cleanup /\ ~d.started /\ ~d.queued
        /\ d.nat = IF conn[c].nat = "none" THEN "none" ELSE "closed"
    BY <1>1 DEF Fields
  <2> HIDE DEF d
  <2>3. Caused(d) /\ ~d.sess
    BY <1>1, <1>5, <2>2 DEF conn_frees, Good, Placed, Sound, Story, Caused, Named
  <2>4. Sound(f)
    BY <1>1, <2>2, <2>3, ForgetSound
  <2>5. DOMAIN f = Fields
    BY <2>2 DEF forget, Fields
  <2> HIDE DEF f
  <2>6. /\ SameStory(f, m) /\ m.kind = f.kind /\ m.cleanup = f.cleanup
        /\ m.started = f.started /\ m.queued = f.queued
    BY <2>5 DEF Fields, SameStory
  <2> HIDE DEF m
  <2>7. Sound(m)
    BY <2>4, <2>6 DEF Sound, Story, Known, Caused, Named, Staged, Fresh, SameStory
  <2> QED BY <2>1, <2>7, Tell
<1> QED BY <1>3, <1>4, <1>5

\* wtq_msquic_env_close asks every tracked connection to shut down, and that
\* is a cause.
LEMMA WalkTells ==
    ASSUME IInv, CInv, env_close_walks
    PROVE  CInv'
<1>1. ASSUME NEW c \in Conns PROVE Sound(conn'[c])
  <2>1. DOMAIN conn[c] = Fields /\ Sound(conn[c]) /\ Good(conn[c])
    BY Here
  <2>2. CASE ~conn[c].tracked
    BY <2>1, <2>2 DEF env_close_walks
  <2>3. CASE conn[c].tracked
    <3> DEFINE e == [conn[c] EXCEPT !.req = TRUE, !.queued = conn[c].nat \in {"new", "up"}]
               m == because(e, "env")
    <3>1. conn'[c] = m
      BY <2>3 DEF env_close_walks
    <3>2. conn[c].pc \notin {"none", "admitted"} /\ conn[c].nat \in Delivers \cup {"over"}
      BY <2>1, <2>3 DEF Good, Placed, Delivers
    <3>3. /\ DOMAIN e = Fields /\ e.pc = conn[c].pc /\ e.sess = conn[c].sess
          /\ e.req /\ e.why = conn[c].why /\ e.nat = conn[c].nat
          /\ e.kind = conn[c].kind /\ e.cleanup = conn[c].cleanup
          /\ e.started = conn[c].started
          /\ e.err = conn[c].err /\ e.eng = conn[c].eng
      BY <2>1 DEF Fields
    <3> HIDE DEF e
    <3>4. /\ m.kind = e.kind /\ m.cleanup = e.cleanup /\ m.started = e.started
          /\ DOMAIN m = Fields /\ m.pc = e.pc /\ m.sess = e.sess /\ m.nat = e.nat
          /\ m.err = e.err /\ m.eng = e.eng /\ m.req = e.req /\ Once(m.why)
          /\ \A v : v \in e.why => v \in m.why
          /\ \A v : v \in m.why => v \in e.why \/ v = "env"
          /\ \E v \in Shuts : v \in m.why
      BY <2>1, <3>3, BecauseFirst DEF Sound, Story, Caused, Named, Shuts, Ours
    <3> HIDE DEF m
    <3>5. /\ Local(e.why) => Local(m.why)
          /\ m.sess /\ m.err = "unset" => Local(m.why)
      BY <2>1, <3>3, <3>4 DEF Sound, Known, Local, Shuts
    <3>6. Caused(m) /\ Fresh(m)
      BY <2>1, <3>2, <3>3, <3>4, <3>5 DEF Sound, Story, Caused, Named, Fresh
    <3>7. Staged(m) /\ Known(m)
      BY <2>1, <3>3, <3>4, <3>5 DEF Sound, Story, Known, Staged
    <3> QED BY <3>1, <3>6, <3>7 DEF Sound, Story
  <2> QED BY <2>2, <2>3
<1> QED BY <1>1 DEF CInv, Sound, Story, Known, Caused, Named, Once, Local, Staged, Fresh

-----------------------------------------------------------------------------
(* The theorem.                                                            *)

\* Every step keeps the story sound.
LEMMA StepTells == IInv /\ CInv /\ [Next]_vars => CInv'
<1> SUFFICES ASSUME IInv, CInv, [Next]_vars PROVE CInv'
  OBVIOUS
<1>1. ASSUME conn' = conn PROVE CInv'
  BY <1>1 DEF CInv, Sound, Story, Known, Caused, Named, Once, Local, Staged, Fresh
<1>2. ASSUME NEW c \in Clients, ClientStep(c) PROVE CInv'
  BY <1>2, ClientTells
<1>3. ASSUME NEW c \in Accepts, AcceptStep(c) PROVE CInv'
  BY <1>3, CallbackTells, BuildsTells, AcceptTells DEF AcceptStep
<1>4. ASSUME NEW c \in Conns, ConnStep(c) PROVE CInv'
  BY <1>4, ConnectedTells, SessionEndsTells, FlushedTells, FatalTells, RefsTell,
     InitiatedTells, ShutdownRunsTells, MismatchTells, OutsideTells,
     CompleteTells, EndTells
  DEF ConnStep, conn_BY_TRANSPORT, conn_BY_PEER
<1>5. ASSUME NEW l \in Listeners, ListenerStep(l) PROVE CInv'
  BY <1>1, <1>5 DEF ListenerStep, listener_start, env_listener_register,
                    listener_stop, listener_free
<1>6. CASE EnvStep
  BY <1>1, <1>6, WalkTells DEF EnvStep, env_close_latches, env_close_waits, env_free
<1>7. CASE UNCHANGED vars
  BY <1>1, <1>7 DEF vars
<1> QED BY <1>2, <1>3, <1>4, <1>5, <1>6, <1>7 DEF Next

\* The record the program reads names the first thing that happened to its
\* connection, for any number of connections and listeners and in every
\* race of the peer, the transport, the engine and wtq_msquic_env_close:
\* what the engine latches comes first, a cause that is staged later never
\* replaces an earlier one, and retiring the connection of an ended session
\* never looks like an error.
THEOREM ErrorsHaveCauses == Spec => []ErrorIsFirstCause
<1>1. Init => CInv
  BY DEF Init, NoConn, CInv, Sound, Story, Known, Caused, Named, Once, Local, Staged, Fresh
<1>2. CInv => ErrorIsFirstCause
  <2> SUFFICES ASSUME CInv, NEW c \in Conns PROVE
        /\ "ended" \in conn[c].why => conn[c].err = "none"
        /\ "fatal" \in conn[c].why => conn[c].err = "app"
        /\ conn[c].err = "unset" => conn[c].eng \in {"none", "open"}
        /\ conn[c].err # "unset" /\ conn[c].why \cap Ends = {} =>
               IF conn[c].why \cap Ours # {} THEN conn[c].err = "local"
                                             ELSE conn[c].err \in conn[c].why
    BY DEF ErrorIsFirstCause
  <2>1. Caused(conn[c])
    BY DEF CInv, Sound, Story
  <2>2. ASSUME conn[c].err # "unset", conn[c].why \cap Ends = {}
        PROVE  IF conn[c].why \cap Ours # {} THEN conn[c].err = "local"
                                             ELSE conn[c].err \in conn[c].why
    <3>1. "ended" \notin conn[c].why /\ "fatal" \notin conn[c].why
      BY <2>2 DEF Ends
    <3>2. CASE conn[c].err = "local"
      BY <2>1, <3>2 DEF Caused, Named, Local
    <3>3. CASE conn[c].err \in {"transport", "app"}
      BY <2>1, <3>1, <3>3 DEF Caused, Named, Once, Shuts, Ours
    <3> QED BY <2>1, <2>2, <3>1, <3>2, <3>3 DEF Caused, Named
  <2> QED BY <2>1, <2>2 DEF Caused, Named
<1> QED BY <1>1, <1>2, Inductive, StepTells, PTL DEF Spec
=============================================================================
