--------------------------- MODULE EngineSession ---------------------------
(***************************************************************************)
(* The control plane of the wtquic engine (src/src/engine/conn.c): one     *)
(* HTTP/3 connection carrying at most one WebTransport session.  The       *)
(* module follows the session from connection start through SETTINGS, the  *)
(* extended CONNECT and its response, the capsules of the session stream,  *)
(* GOAWAY, resets and transport loss, to the one outcome the application   *)
(* is told of.                                                             *)
(*                                                                         *)
(* The engine is sans-I/O and callback driven: the backend feeds it inputs *)
(* one at a time, and the application may call engine operations from      *)
(* inside any callback.  `agenda' is the engine's call stack, as the       *)
(* sequence of continuations still to run: its head is the function that   *)
(* runs next, "app" is an application callback in progress.  A backend     *)
(* input needs an empty agenda, an application operation an empty agenda   *)
(* or "app" at its head.  Code between two callbacks is one step, except   *)
(* that the functions that several callers share are steps of their own.   *)
(*                                                                         *)
(* Bytes are modelled as the frames and capsules the parsers tell apart.   *)
(* A delivery is read lazily: while a parser loop is at the head of the    *)
(* agenda the peer decides what the next frame of this delivery is, or     *)
(* that the delivery ends, with or without FIN.                            *)
(***************************************************************************)
EXTENDS Integers, Sequences, FiniteSets

CONSTANTS
    Roles,        \* the connections checked: whose side the engine is on
                  \* (wtq_conn_cfg_t.perspective), the native ids of the
                  \* request streams (multiples of 4), the ids the peer's
                  \* GOAWAY frames may carry, and whether a delivery may
                  \* end in the middle of a frame
    NoStream,     \* the NULL of an estream pointer
    NoId          \* no GOAWAY received yet

ASSUME RoleAssumption ==
    \A x \in Roles :
        /\ x.perspective \in {"client", "server"} /\ x.split \in BOOLEAN
        /\ x.requests \subseteq Nat /\ x.goaway \subseteq Nat
        /\ NoStream \notin x.requests /\ NoId \notin x.goaway

Requests == UNION {x.requests : x \in Roles}

VARIABLES
    role,       \* the member of Roles this connection is
    closed,     \* conn->closed
    locals,     \* started / locals_attempted: "idle", "deferred", "attempted"
    control,    \* the peer's control stream: "none", "untyped", "open"
    settings,   \* settings_received and wt_supported: "none", "no_wt", "wt"
    goaway,     \* goaway_id once goaway_received, else NoId
    err,        \* the write-once transport error record: its origin
    sess,       \* conn->sess_state
    everEst,    \* conn->session_established, which stays TRUE
    sessionEs,  \* conn->session_es
    respOk,     \* conn->client_response_ok
    closeRx,    \* conn->close_capsule_rx
    drainRx,    \* conn->drain_rx
    capsCut,    \* conn->caps_dec stopped inside a capsule
    wtLive,     \* some WT stream of the session has an open half
    parked,     \* parked_es and parked_fin; the bytes stay undecoded
    req,        \* the estreams of kind CONNECT, REQUEST and BTYPE
    agenda,     \* the engine's call stack (see above)
    told,       \* history: the session callbacks invoked, in order
    answered    \* history: what left on each request stream's send side

connVars == <<closed, locals, control, settings, goaway, err>>
sessVars == <<sess, everEst, sessionEs, respOk, closeRx, drainRx, capsCut,
              wtLive>>
vars == <<role, connVars, sessVars, parked, req, agenda, told, answered>>

Perspective == role.perspective
Active == {"ESTABLISHED", "DRAINING"}                 \* session_active()
Opening == {"IDLE", "PENDING", "SENT"}
Final == {"CLOSED", "REJECTED", "FAILED"}

(* What a complete field section decodes to, as far as the engine's        *)
(* decisions depend on it: as a request, a response, or trailers.          *)
RequestBodies == {"ok", "policy", "bad_token", "not_wt", "buffer", "qpack",
                  "malformed"}
ResponseBodies == {"ok", "refused", "info", "switching", "bad_marker",
                   "bad_protocol", "undecodable"}
TrailerBodies == {"ok", "buffer", "qpack", "malformed"}
(* The next capsule of a DATA payload: "CLOSE+" is a CLOSE capsule with    *)
(* more bytes behind it in the same delivery, "cut" one that the delivery  *)
(* ends in the middle of.                                                  *)
Capsules == {"CLOSE", "CLOSE+", "DRAIN", "other", "bad", "cut"}

(* Frame headers.  A HEADERS frame over the decode limit is "oversize".    *)
Frames == {"HEADERS", "oversize", "DATA", "skip", "forbidden"}
(* The frame a stream is in the middle of: its header, or a payload.  DATA *)
(* is read as capsules (CF_CAPSULE) or skipped (CF_SKIP), as decided when  *)
(* its header was complete.                                                *)
OpenFrames == {"none", "header", "HEADERS", "capsules", "skip"}

(* The estream of a request stream the peer has not opened yet.  A native  *)
(* id is used once: a released stream is FREE for good.                    *)
NewStream == [kind |-> "UNOPENED", dead |-> FALSE, headers |-> FALSE,
              trailers |-> FALSE, isSession |-> FALSE, idPending |-> FALSE,
              frame |-> "none"]
NotParked == [es |-> NoStream, fin |-> FALSE]

Init ==
    /\ role \in Roles
    /\ closed = FALSE /\ locals = "idle" /\ control = "none"
    /\ settings = "none" /\ goaway = NoId /\ err = "unset"
    /\ sess = "IDLE" /\ everEst = FALSE /\ sessionEs = NoStream
    /\ respOk = FALSE /\ closeRx = FALSE /\ drainRx = FALSE
    /\ capsCut = FALSE /\ wtLive = FALSE
    /\ parked = NotParked
    /\ req = [r \in Requests |-> NewStream]
    /\ agenda = <<>> /\ told = <<>>
    /\ answered = [r \in Requests |-> "nothing"]

-----------------------------------------------------------------------------
(* The call stack.                                                         *)

On(op, r) == [op |-> op, r |-> r]
Do(op) == On(op, NoStream)
App == Do("app")

Idle == agenda = <<>>
At(op) == agenda /= <<>> /\ Head(agenda).op = op
This == Head(agenda)
Then(calls) == agenda' = calls \o Tail(agenda)     \* return into `calls'
Enter(calls) == agenda' = calls \o agenda          \* call on top
AppMay == Idle \/ At("app")

Tell(cb) == told' = Append(told, cb)
Set(r, f, v) == req' = [req EXCEPT ![r][f] = v]

(* estream_release: the slot is detached and free, and stays silent.       *)
Release(r) == req' = [req EXCEPT ![r] = [@ EXCEPT !.kind = "FREE",
                                                  !.idPending = FALSE]]
ForgetSessionEs(r) ==
    sessionEs' = IF sessionEs = r THEN NoStream ELSE sessionEs
(* Mutant: the last cause wins.                                            *)
LatchLast(origin) == err' = origin
(* conn_latch_error: write-once, the first causal error wins.              *)
Latch(origin) == err' = IF err = "unset" THEN origin ELSE err

-----------------------------------------------------------------------------
(* Functions every part of the engine shares.                              *)

(* An application callback returns.                                        *)
AppReturns ==
    /\ At("app") /\ Then(<<>>)
    /\ UNCHANGED <<connVars, sessVars, parked, req, told, answered>>

(* session_failed: unconditional; the API layer seals the error record     *)
(* before it tells the application.                                        *)
SessionFailed(rest) ==
    /\ sess' = "FAILED" /\ Tell("failed") /\ Latch("sealed")
    /\ Then(<<App>> \o rest)

(* conn_fatal: close once, latch the first cause, give the session its     *)
(* outcome, then report the error.                                         *)
ConnFatal ==
    /\ At("conn_fatal")
    /\ IF closed
       THEN /\ Then(<<>>)
            /\ UNCHANGED <<closed, err>>
       ELSE /\ closed' = TRUE
            /\ Latch("engine")
            /\ Then(<<Do("session_conn_lost"), Do("on_conn_error")>>)
    /\ UNCHANGED <<locals, control, settings, goaway, sessVars, parked, req,
                   told, answered>>

(* The states in which a lost connection fails the session attempt.        *)
LostStates == Opening

SessionConnLost ==
    /\ At("session_conn_lost")
    /\ \/ /\ sess \in LostStates
          /\ SessionFailed(<<>>)
       \/ /\ sess \in Active
          /\ Then(<<Do("session_closed")>>)
          /\ UNCHANGED <<sess, told, err>>
       \/ /\ sess \notin LostStates \cup Active
          /\ Then(<<>>)
          /\ UNCHANGED <<sess, told, err>>
    /\ UNCHANGED <<closed, locals, control, settings, goaway, everEst,
                   sessionEs, respOk, closeRx, drainRx, capsCut, wtLive,
                   parked, req, answered>>

OnConnError ==
    /\ At("on_conn_error")
    /\ Tell("conn_error") /\ Latch("sealed")
    /\ Then(<<App>>)
    /\ UNCHANGED <<closed, locals, control, settings, goaway, sessVars,
                   parked, req, answered>>

(* shutdown_raw: a driver failure other than CLOSED is fatal.              *)
ShutdownRaw ==
    /\ At("shutdown_raw")
    /\ \/ Then(<<>>)
       \/ Then(<<Do("conn_fatal")>>)
    /\ answered' = [answered EXCEPT ![This.r] =
                      IF @ = "nothing" THEN "reset" ELSE @]
    /\ UNCHANGED <<connVars, sessVars, parked, req, told>>

(* session_closed, the terminal transition.  The teardown of the WT        *)
(* streams comes first; one shutdown of it may fail the connection, whose  *)
(* error is then reported before on_session_closed.                        *)
SessionClosed ==
    /\ At("session_closed")
    /\ \/ /\ sess \notin Active
          /\ Then(<<>>)
          /\ UNCHANGED <<sess, wtLive>>
       \/ /\ sess \in Active
          /\ sess' = "CLOSED" /\ wtLive' = FALSE
          /\ \/ Then(<<Do("on_session_closed")>>)
             \/ /\ wtLive /\ ~closed
                /\ Then(<<Do("conn_fatal"), Do("on_session_closed")>>)
    /\ UNCHANGED <<connVars, everEst, sessionEs, respOk, closeRx, drainRx,
                   capsCut, parked, req, told, answered>>

(* Mutant: no callback on a connection that is already closed.             *)
OnSessionClosedUnlessLost ==
    /\ At("on_session_closed")
    /\ IF closed THEN UNCHANGED <<told, err>>
                 ELSE Tell("closed") /\ Latch("sealed")
    /\ Then(<<App>>)
    /\ UNCHANGED <<closed, locals, control, settings, goaway, sessVars,
                   parked, req, answered>>

OnSessionClosed ==
    /\ At("on_session_closed")
    /\ Tell("closed") /\ Latch("sealed")
    /\ Then(<<App>>)
    /\ UNCHANGED <<closed, locals, control, settings, goaway, sessVars,
                   parked, req, answered>>

DrainIgnored == closed \/ drainRx \/ sess \notin Active

SessionDraining ==
    /\ At("session_draining")
    /\ IF DrainIgnored
       THEN /\ Then(<<>>)
            /\ UNCHANGED <<sess, drainRx, told>>
       ELSE /\ drainRx' = TRUE /\ sess' = "DRAINING"
            /\ Tell("draining") /\ Then(<<App>>)
    /\ UNCHANGED <<connVars, everEst, sessionEs, respOk, closeRx, capsCut,
                   wtLive, parked, req, answered>>

(* session_established(es): publishes the session, tells the application,  *)
(* then applies a GOAWAY that came first.                                  *)
SessionEstablished ==
    /\ At("session_established")
    /\ sess' = "ESTABLISHED" /\ everEst' = TRUE /\ sessionEs' = This.r
    /\ capsCut' = FALSE
    /\ Set(This.r, "isSession", TRUE)
    /\ Tell("established")
    /\ Then(<<App>> \o IF goaway /= NoId THEN <<Do("session_draining")>>
                                         ELSE <<>>)
    /\ UNCHANGED <<connVars, respOk, closeRx, drainRx, wtLive, parked,
                   answered>>

-----------------------------------------------------------------------------
(* The client's CONNECT.                                                   *)

(* wtq_conn_client_connect after its preflight: PENDING until SETTINGS.    *)
ClientConnect ==
    /\ AppMay /\ Perspective = "client"
    /\ ~closed /\ sess = "IDLE" /\ goaway = NoId
    /\ respOk' = FALSE
    /\ \/ /\ settings = "none"
          /\ sess' = "PENDING"
          /\ UNCHANGED <<agenda, told, err>>
       \/ /\ settings = "no_wt"
          /\ sess' = "FAILED" /\ Tell("failed") /\ Latch("sealed")
          /\ Enter(<<App>>)
       \/ /\ settings = "wt"
          /\ sess' = "PENDING"
          /\ Enter(<<Do("client_send_connect")>>)
          /\ UNCHANGED <<told, err>>
    /\ UNCHANGED <<closed, locals, control, settings, goaway, everEst,
                   sessionEs, closeRx, drainRx, capsCut, wtLive, parked,
                   req, answered>>

(* client_send_connect: a fresh bidi stream, the HEADERS, then SENT.  Both *)
(* driver operations may fail, and the transport may assign the native id  *)
(* later.                                                                  *)
ClientSendConnect ==
    /\ At("client_send_connect")
    /\ \/ /\ goaway /= NoId
          /\ SessionFailed(<<>>)
          /\ UNCHANGED req
       \/ \E r \in role.requests :
            /\ goaway = NoId /\ req[r].kind = "UNOPENED"
            /\ UNCHANGED <<told, err>>
            /\ \/ /\ Then(<<Do("conn_fatal")>>)          \* open_bidi failed
                  /\ Set(r, "kind", "FREE")
                  /\ UNCHANGED sess
               \/ \E pending \in BOOLEAN :
                    /\ req' = [req EXCEPT ![r].kind = "CONNECT",
                                          ![r].idPending = pending]
                    /\ \/ Then(<<Do("conn_fatal")>>) /\ UNCHANGED sess
                       \/ Then(<<>>) /\ sess' = "SENT"
    /\ UNCHANGED <<closed, locals, control, settings, goaway, everEst,
                   sessionEs, respOk, closeRx, drainRx, capsCut, wtLive,
                   parked, answered>>

(* client_maybe_establish: both latches, the response and the native id,   *)
(* in either order; a GOAWAY below the request's id refuses it.            *)
ClientMaybeEstablish ==
    /\ At("client_maybe_establish")
    /\ LET r == This.r IN
       \/ /\ sess /= "SENT" \/ ~respOk \/ req[r].idPending
          /\ Then(<<>>)
          /\ UNCHANGED <<sess, told, err, req>>
       \/ /\ sess = "SENT" /\ respOk /\ ~req[r].idPending
          /\ IF goaway /= NoId /\ r >= goaway
             THEN /\ Set(r, "dead", TRUE)
                  /\ SessionFailed(<<On("shutdown_unless_closed", r)>>)
             ELSE /\ Then(<<On("session_established", r)>>)
                  /\ UNCHANGED <<sess, told, err, req>>
    /\ UNCHANGED <<closed, locals, control, settings, goaway, everEst,
                   sessionEs, respOk, closeRx, drainRx, capsCut, wtLive,
                   parked, answered>>

(* "if (!conn->closed) shutdown_raw(...)" behind a callback.               *)
ShutdownUnlessClosed ==
    /\ At("shutdown_unless_closed")
    /\ Then(IF closed THEN <<>> ELSE <<On("shutdown_raw", This.r)>>)
    /\ UNCHANGED <<connVars, sessVars, parked, req, told, answered>>

(* client_response_done: the response's HEADERS are complete.              *)
ClientResponseDone ==
    /\ At("client_response_done")
    /\ \E b \in ResponseBodies : LET r == This.r IN
       \/ /\ b \in {"undecodable", "switching"}
          /\ SessionFailed(<<Do("conn_fatal")>>)
          /\ UNCHANGED <<respOk, req>>
       \/ /\ b = "info"                       \* 1xx: not the final response
          /\ Set(r, "headers", FALSE)
          /\ Then(<<>>)
          /\ UNCHANGED <<sess, told, err, respOk>>
       \/ /\ b = "refused"
          /\ sess' = "REJECTED" /\ Tell("rejected") /\ Latch("sealed")
          /\ Then(<<App>>)
          /\ UNCHANGED <<respOk, req>>
       \/ /\ b \in {"bad_marker", "bad_protocol"}
          /\ SessionFailed(<<>>)              \* the stream is left alone
          /\ UNCHANGED <<respOk, req>>
       \/ /\ b = "ok"
          /\ respOk' = TRUE
          /\ Then(<<On("client_maybe_establish", r)>>)
          /\ UNCHANGED <<sess, told, err, req>>
    /\ UNCHANGED <<closed, locals, control, settings, goaway, everEst,
                   sessionEs, closeRx, drainRx, capsCut, wtLive, parked,
                   answered>>

(* wtq_conn_on_stream_native_id for the CONNECT stream, a valid report.    *)
OnStreamNativeId(r) ==
    /\ Idle /\ ~closed
    /\ req[r].kind = "CONNECT" /\ req[r].idPending
    /\ Set(r, "idPending", FALSE)
    /\ Enter(<<On("client_maybe_establish", r)>>)
    /\ UNCHANGED <<connVars, sessVars, parked, told, answered>>

-----------------------------------------------------------------------------
(* The server's decision on a request.                                     *)

(* request_stream_refuse_err: shut both halves, then absorb.               *)
Refuse(r) == <<On("shutdown_raw", r), On("mark_dead", r)>>
(* server_send_response with an error status, then absorb.                 *)
Respond(r) == <<On("send_error", r), On("mark_dead", r)>>

MarkDead ==
    /\ At("mark_dead")
    /\ Set(This.r, "dead", TRUE)
    /\ Then(<<>>)
    /\ UNCHANGED <<connVars, sessVars, parked, told, answered>>

ServerSendResponse ==
    /\ At("send_error") \/ At("send_200")
    /\ \/ Then(<<>>)
       \/ Then(<<Do("conn_fatal")>>)
    /\ answered' = [answered EXCEPT ![This.r] =
                      IF At("send_200") THEN "200" ELSE "error"]
    /\ UNCHANGED <<connVars, sessVars, parked, req, told>>

Accept(r) == <<On("send_200", r), On("establish_unless_closed", r)>>

(* The decision on a decoded request, in the order of the checks: what the *)
(* decoder found, the token, one session per connection, then policy       *)
(* (marker, path, origin, required subprotocol).                           *)
Decide(r, b) ==
    CASE b \in {"not_wt", "bad_token"} -> Respond(r)
      [] b \in {"buffer", "malformed"} -> Refuse(r)
      [] b = "qpack" -> <<Do("conn_fatal")>>
      [] b \in {"policy", "ok"} /\ everEst -> Refuse(r)
      [] b = "policy" /\ ~everEst -> Respond(r)
      [] b = "ok" /\ ~everEst -> Accept(r)

(* server_request_done: park one request until SETTINGS, refuse others;    *)
(* without a mutual profile nothing is decoded.                            *)
ServerRequestDone ==
    /\ At("server_request_done")
    /\ LET r == This.r IN
       \/ /\ settings = "none" /\ parked.es /= NoStream
          /\ Then(Refuse(r)) /\ UNCHANGED parked
       \/ /\ settings = "none" /\ parked.es = NoStream
          /\ parked' = [es |-> r, fin |-> FALSE]
          /\ Then(<<>>)
       \/ /\ settings = "no_wt"
          /\ Then(Respond(r)) /\ UNCHANGED parked
       \/ \E b \in RequestBodies :
          /\ settings = "wt"
          /\ Then(Decide(r, b)) /\ UNCHANGED parked
    /\ UNCHANGED <<connVars, sessVars, req, told, answered>>

EstablishUnlessClosed ==
    /\ At("establish_unless_closed")
    /\ Then(IF closed THEN <<>> ELSE <<On("session_established", This.r)>>)
    /\ UNCHANGED <<connVars, sessVars, parked, req, told, answered>>

(* request_stream_fail: refuse, drop the parked request, and end the       *)
(* session uncleanly when the stream carries it.                           *)
RequestStreamFail(r) == Refuse(r) \o <<On("request_stream_failed", r)>>

RequestStreamFailed ==
    /\ At("request_stream_failed")
    /\ LET r == This.r IN
       /\ parked' = IF parked.es = r THEN NotParked ELSE parked
       /\ IF req[r].isSession
          THEN /\ ForgetSessionEs(r) /\ Release(r)
               /\ Then(<<Do("session_closed")>>)
          ELSE /\ Then(<<>>)
               /\ UNCHANGED <<sessionEs, req>>
    /\ UNCHANGED <<connVars, sess, everEst, respOk, closeRx, drainRx,
                   capsCut, wtLive, told, answered>>

-----------------------------------------------------------------------------
(* Capsules on the session stream.                                         *)

(* session_stream_poisoned: bytes behind a CLOSE reset the stream.         *)
Poison(r) == <<On("shutdown_raw", r), On("session_stream_poisoned", r)>>

SessionStreamPoisoned ==
    /\ At("session_stream_poisoned")
    /\ ForgetSessionEs(This.r) /\ Release(This.r)
    /\ Then(<<>>)
    /\ UNCHANGED <<connVars, sess, everEst, respOk, closeRx, drainRx,
                   capsCut, wtLive, parked, told, answered>>

(* session_capsule_bytes on the next capsule of a DATA payload.  A session *)
(* that is already CLOSED consumes capsules silently.                      *)
SessionCapsule ==
    /\ At("session_capsule")
    /\ \E c \in Capsules : LET r == This.r  terminal == sess = "CLOSED" IN
       IF closeRx \/ c = "cut" \/ c = "bad"
       THEN /\ Then(CASE closeRx -> Poison(r)
                      [] ~closeRx /\ c = "cut" -> <<>>
                      [] ~closeRx /\ c = "bad" ->
                           IF terminal THEN RequestStreamFail(r)
                                       ELSE <<Do("conn_fatal")>>)
            /\ capsCut' = (capsCut \/ (~closeRx /\ c = "cut"))
            /\ UNCHANGED closeRx
       ELSE /\ capsCut' = FALSE
            /\ closeRx' = (c \in {"CLOSE", "CLOSE+"})
            /\ Then((CASE c \in {"CLOSE", "CLOSE+"} /\ ~terminal ->
                            <<Do("session_closed")>>
                       [] c = "DRAIN" /\ ~terminal ->
                            <<Do("session_draining")>>
                       [] OTHER -> <<>>)
                    \o IF c = "CLOSE+" THEN Poison(r) ELSE <<>>)
    /\ UNCHANGED <<connVars, sess, everEst, sessionEs, respOk, drainRx,
                   wtLive, parked, req, told, answered>>

-----------------------------------------------------------------------------
(* Bytes of a request or CONNECT stream.                                   *)

Walk(r) == On("request_stream_bytes", r)

(* The checks on a frame header, before any payload is read.               *)
HeaderFatal(r, f) ==
    \/ f = "forbidden"
    \/ f \in {"HEADERS", "oversize"} /\ req[r].trailers
    \/ f = "oversize" /\ req[r].kind = "CONNECT" /\ ~req[r].headers
    \/ f = "DATA" /\ (~req[r].headers \/ req[r].trailers)

(* What the payload behind the header is read as.                          *)
PayloadOf(r, f) ==
    IF f = "DATA" THEN IF req[r].isSession THEN "capsules" ELSE "skip"
                  ELSE f

(* The frame's payload is complete, or the next capsule of a DATA payload  *)
(* that may go on behind it.                                               *)
FrameDone(r, f) ==
    \/ /\ f = "skip"
       /\ Set(r, "frame", "none")
       /\ Then(<<Walk(r)>>)
    \/ /\ f = "capsules"
       /\ \/ Set(r, "frame", "none")
          \/ Set(r, "frame", "capsules")
       /\ Then(<<On("session_capsule", r), Walk(r)>>)
    \/ /\ f = "HEADERS" /\ ~req[r].headers
       /\ req' = [req EXCEPT ![r].frame = "none", ![r].headers = TRUE]
       /\ Then(<<On(IF req[r].kind = "CONNECT" THEN "client_response_done"
                                               ELSE "server_request_done",
                    r), Walk(r)>>)
    \/ /\ f = "HEADERS" /\ req[r].headers
       /\ req' = [req EXCEPT ![r].frame = "none", ![r].trailers = TRUE]
       /\ \E b \in TrailerBodies :
             Then(CASE b = "ok" -> <<Walk(r)>>
                    [] b = "qpack" -> <<Do("conn_fatal")>>
                    [] b \in {"buffer", "malformed"} -> RequestStreamFail(r))

(* request_stream_bytes: one turn of the frame walk, or its end.           *)
RequestStreamBytes ==
    /\ At("request_stream_bytes")
    /\ LET r == This.r IN
       \/ /\ Then(<<>>)                       \* end of this delivery
          /\ UNCHANGED req
       \/ /\ ~closed /\ req[r].kind /= "FREE" /\ ~req[r].dead
          /\ req[r].frame \notin {"none", "header"}
          /\ FrameDone(r, req[r].frame)       \* the rest of a cut frame
       \/ /\ ~closed /\ req[r].kind /= "FREE" /\ ~req[r].dead
          /\ req[r].frame = "none" /\ role.split
          /\ Set(r, "frame", "header")        \* cut inside a header
          /\ Then(<<>>)
       \/ /\ ~closed /\ req[r].kind /= "FREE" /\ ~req[r].dead
          /\ req[r].frame \in {"none", "header"}
          /\ \E f \in Frames :
               \/ /\ HeaderFatal(r, f)
                  /\ Then(<<Do("conn_fatal")>>)
                  /\ UNCHANGED req
               \/ /\ ~HeaderFatal(r, f) /\ f = "oversize"
                  /\ Then(RequestStreamFail(r))
                  /\ UNCHANGED req
               \/ /\ ~HeaderFatal(r, f) /\ f = "DATA" /\ parked.es = r
                  /\ Then(Refuse(r) \o <<Do("parked_request_cancel")>>)
                  /\ UNCHANGED req
               \/ /\ ~HeaderFatal(r, f) /\ f /= "oversize"
                  /\ ~(f = "DATA" /\ parked.es = r)
                  /\ \/ FrameDone(r, PayloadOf(r, f))
                     \/ /\ role.split                  \* cut here
                        /\ Set(r, "frame", PayloadOf(r, f))
                        /\ Then(<<>>)
    /\ UNCHANGED <<connVars, sessVars, parked, told, answered>>

ParkedRequestCancel ==
    /\ At("parked_request_cancel")
    /\ parked' = NotParked
    /\ Then(<<>>)
    /\ UNCHANGED <<connVars, sessVars, req, told, answered>>

(* Mutant: a capsule cut off after the session's end releases the stream   *)
(* that the caller releases, too.                                          *)
SessionFinFails(r) ==
    CASE req[r].frame /= "none" -> <<Do("conn_fatal")>>
      [] req[r].frame = "none" /\ closeRx -> <<>>
      [] req[r].frame = "none" /\ ~closeRx /\ capsCut ->
           IF sess = "CLOSED" THEN RequestStreamFail(r)
                              ELSE <<Do("conn_fatal")>>
      [] OTHER -> <<Do("session_closed")>>

(* What FIN means on the session's stream: the end a CLOSE promised, an    *)
(* error inside a frame or a capsule, or else a clean close.               *)
SessionFin(r) ==
    CASE req[r].frame /= "none" -> <<Do("conn_fatal")>>
      [] req[r].frame = "none" /\ closeRx -> <<>>
      [] req[r].frame = "none" /\ ~closeRx /\ capsCut ->
           IF sess = "CLOSED" THEN Refuse(r) ELSE <<Do("conn_fatal")>>
      [] OTHER -> <<Do("session_closed")>>

(* request_stream_fin: what a FIN means on a live request stream.          *)
RequestStreamFin ==
    /\ At("request_stream_fin")
    /\ LET r == This.r
           truncated == req[r].frame /= "none"
           pending == req[r].kind = "CONNECT" /\ ~everEst /\ sess = "SENT"
       IN
       \/ /\ req[r].dead
          /\ Then(<<>>)
          /\ UNCHANGED <<sess, told, err, sessionEs>>
       \/ /\ ~req[r].dead /\ req[r].isSession
          /\ ForgetSessionEs(r)
          /\ Then(SessionFin(r))
          /\ UNCHANGED <<sess, told, err>>
       \/ /\ ~req[r].dead /\ ~req[r].isSession
          /\ IF pending
             THEN SessionFailed(IF truncated THEN <<Do("conn_fatal")>>
                                             ELSE <<>>)
             ELSE /\ Then(IF truncated \/ (req[r].kind = "REQUEST"
                                           /\ ~req[r].headers)
                          THEN <<Do("conn_fatal")>> ELSE <<>>)
                  /\ UNCHANGED <<sess, told, err>>
          /\ UNCHANGED sessionEs
    /\ UNCHANGED <<closed, locals, control, settings, goaway, everEst,
                   respOk, closeRx, drainRx, capsCut, wtLive, parked, req,
                   answered>>

(* The release behind every processed FIN.                                 *)
FinRelease ==
    /\ At("fin_release")
    /\ ForgetSessionEs(This.r) /\ Release(This.r)
    /\ Then(<<>>)
    /\ UNCHANGED <<connVars, sess, everEst, respOk, closeRx, drainRx,
                   capsCut, wtLive, parked, told, answered>>
Fin(r) == <<On("request_stream_fin", r), On("fin_release", r)>>

-----------------------------------------------------------------------------
(* Backend inputs on request streams.                                      *)

(* conn_open_locals_if_deferred, before a peer-open event is processed: a  *)
(* server opens its own control and QPACK streams now, and a failure is    *)
(* fatal and drops the event.                                              *)
LocalsReady == locals /= "deferred"
OpenDeferredLocals(ok) ==
    /\ Idle /\ ~closed /\ locals = "deferred"
    /\ locals' = "attempted"
    /\ Enter(IF ok THEN <<>> ELSE <<Do("conn_fatal")>>)
    /\ UNCHANGED <<closed, control, settings, goaway, err, sessVars, parked,
                   req, told, answered>>

(* wtq_conn_on_peer_bidi_opened: the stream waits for its first bytes.     *)
OnPeerBidiOpened(r) ==
    /\ Idle /\ ~closed /\ LocalsReady /\ Perspective = "server"
    /\ req[r].kind = "UNOPENED"
    /\ Set(r, "kind", "BTYPE")
    /\ UNCHANGED <<connVars, sessVars, parked, agenda, told, answered>>

(* Is anything still to come on the stream?  A FIN that was held with the  *)
(* parked request was the last of it.                                      *)
Receives(r) ==
    /\ req[r].kind \in {"BTYPE", "CONNECT", "REQUEST"}
    /\ ~(parked.es = r /\ parked.fin)

(* wtq_conn_on_stream_bytes with at least one byte.  The backend reports a *)
(* native id before the first delivery on the stream (wt_driver.h, the     *)
(* contract of wtq_conn_on_stream_native_id).                              *)
OnStreamBytes(r) ==
    /\ Idle /\ ~closed /\ Receives(r) /\ ~req[r].idPending
    /\ IF req[r].isSession /\ closeRx
       THEN /\ Enter(Poison(r))
            /\ UNCHANGED req
       ELSE /\ Enter(<<Walk(r), On("stream_bytes_end", r)>>)
            /\ req' = IF req[r].kind = "BTYPE"
                      THEN [req EXCEPT ![r].kind = "REQUEST"] ELSE req
    /\ UNCHANGED <<connVars, sessVars, parked, told, answered>>

(* The end of a delivery, with or without FIN.                             *)
StreamBytesEnd ==
    /\ At("stream_bytes_end")
    /\ LET r == This.r IN
       \/ /\ Then(<<>>)                                   \* no FIN
          /\ UNCHANGED parked
       \/ /\ ~closed /\ req[r].kind /= "FREE"
          /\ \/ /\ parked.es = r /\ req[r].frame /= "none"
                /\ Then(<<Do("conn_fatal")>>)
                /\ UNCHANGED parked
             \/ /\ parked.es = r /\ req[r].frame = "none"
                /\ parked' = [parked EXCEPT !.fin = TRUE]
                /\ Then(<<>>)
             \/ /\ parked.es /= r
                /\ Then(Fin(r))
                /\ UNCHANGED parked
    /\ UNCHANGED <<connVars, sessVars, req, told, answered>>

(* wtq_conn_on_stream_bytes with no bytes, only FIN.                       *)
OnStreamFin(r) ==
    /\ Idle /\ ~closed /\ Receives(r) /\ ~req[r].idPending
    /\ \/ /\ req[r].kind = "BTYPE"              \* H3_REQUEST_INCOMPLETE
          /\ Enter(<<Do("conn_fatal")>>)
          /\ UNCHANGED parked
       \/ /\ req[r].kind /= "BTYPE" /\ parked.es = r
          /\ IF req[r].frame /= "none"
             THEN Enter(<<Do("conn_fatal")>>) /\ UNCHANGED parked
             ELSE /\ parked' = [parked EXCEPT !.fin = TRUE]
                  /\ UNCHANGED agenda
       \/ /\ req[r].kind /= "BTYPE" /\ parked.es /= r
          /\ Enter(Fin(r))
          /\ UNCHANGED parked
    /\ UNCHANGED <<connVars, sessVars, req, told, answered>>

(* Mutant: session_es keeps pointing at the slot that was released.        *)
SessionResetKeep(r) == Release(r) /\ UNCHANGED sessionEs
(* A reset of the session's stream detaches it before the session ends.    *)
SessionReset(r) == Release(r) /\ ForgetSessionEs(r)

(* wtq_conn_on_stream_reset.                                               *)
OnStreamReset(r) ==
    /\ Idle /\ ~closed /\ Receives(r)
    /\ IF req[r].isSession
       THEN /\ SessionReset(r)
            /\ Enter(<<Do("session_closed")>>)
            /\ UNCHANGED <<sess, told, err, parked>>
       ELSE /\ IF req[r].kind = "CONNECT" /\ sess = "SENT" /\ ~everEst
               THEN /\ sess' = "FAILED" /\ Tell("failed") /\ Latch("sealed")
                    /\ Enter(<<App, On("reset_release", r)>>)
                    /\ UNCHANGED <<req, parked>>
               ELSE /\ parked' = IF parked.es = r THEN NotParked ELSE parked
                    /\ Release(r)
                    /\ UNCHANGED <<sess, told, err, agenda>>
            /\ UNCHANGED sessionEs
    /\ UNCHANGED <<closed, locals, control, settings, goaway, everEst,
                   respOk, closeRx, drainRx, capsCut, wtLive, answered>>

ResetRelease ==
    /\ At("reset_release")
    /\ Release(This.r)
    /\ Then(<<>>)
    /\ UNCHANGED <<connVars, sessVars, parked, told, answered>>

(* wtq_conn_on_stop_sending: the peer will not read the answer, so a       *)
(* parked request is refused now; other requests are left alone.           *)
OnStopSending(r) ==
    /\ Idle /\ ~closed /\ parked.es = r
    /\ Enter(Refuse(r) \o <<Do("parked_request_cancel")>>
             \o IF parked.fin THEN <<On("reset_release", r)>> ELSE <<>>)
    /\ UNCHANGED <<connVars, sessVars, parked, req, told, answered>>

(* wtq_conn_on_stream_terminal: frees a dead request absorber only.        *)
OnStreamTerminal(r) ==
    /\ Idle /\ ~closed
    /\ req[r].kind = "REQUEST" /\ req[r].dead
    /\ parked' = IF parked.es = r THEN NotParked ELSE parked
    /\ Release(r)
    /\ UNCHANGED <<connVars, sessVars, agenda, told, answered>>

-----------------------------------------------------------------------------
(* The control stream and the connection.                                  *)

(* wtq_conn_start: a client opens its critical streams now (a failure is   *)
(* returned and ends the attempt), a server at the first peer event.       *)
Start ==
    /\ AppMay /\ ~closed /\ locals = "idle"
    /\ locals' = IF Perspective = "server" THEN "deferred" ELSE "attempted"
    /\ UNCHANGED <<closed, control, settings, goaway, err, sessVars, parked,
                   req, agenda, told, answered>>

(* wtq_conn_on_peer_uni_opened, then the stream type (classify_uni).       *)
OnPeerControlOpened ==
    /\ Idle /\ ~closed /\ LocalsReady
    /\ \/ control = "none" /\ control' = "untyped"
       \/ control = "untyped" /\ control' = "open"
    /\ UNCHANGED <<closed, locals, settings, goaway, err, sessVars, parked,
                   req, agenda, told, answered>>

(* A second critical stream, a push stream, QPACK instructions, or the end *)
(* of a critical stream: all connection errors.                            *)
OnCriticalViolation ==
    /\ Idle /\ ~closed /\ LocalsReady
    /\ Enter(<<Do("conn_fatal")>>)
    /\ UNCHANGED <<connVars, sessVars, parked, req, told, answered>>

OnControlBytes ==
    /\ Idle /\ ~closed /\ control = "open"
    /\ Enter(<<Do("control_bytes")>>)
    /\ UNCHANGED <<connVars, sessVars, parked, req, told, answered>>

(* A SETTINGS frame, by what select_profile finds in it.                   *)
Settings == {"wt", "no_wt"}

(* control_bytes: one frame of the delivery.  "bad" stands for every frame *)
(* that is illegal whatever came before it, "inert" for one that changes   *)
(* nothing.                                                                *)
ControlBytes ==
    /\ At("control_bytes")
    /\ \/ /\ Then(<<>>)                        \* end of the delivery
          /\ UNCHANGED <<settings, goaway, sess, told, err, req>>
       \/ \E f \in Settings \cup {"inert", "bad"} :
            /\ ~closed
            /\ \/ /\ \/ f = "bad"
                     \/ f = "inert" /\ settings = "none"
                     \/ f \in Settings /\ settings /= "none"
                  /\ Then(<<Do("conn_fatal")>>)
                  /\ UNCHANGED settings
               \/ /\ f = "inert" /\ settings /= "none"
                  /\ Then(<<Do("control_bytes")>>)
                  /\ UNCHANGED settings
               \/ /\ f \in Settings /\ settings = "none"
                  /\ settings' = f
                  /\ Then(<<App, Do("settings_latched"),
                            Do("control_bytes")>>)
            /\ UNCHANGED <<goaway, sess, told, err, req>>
       \/ \E v \in role.goaway :
            /\ ~closed
            /\ IF \/ settings = "none"
                  \/ Perspective = "client" /\ v % 4 /= 0
                  \/ goaway /= NoId /\ v > goaway
               THEN /\ Then(<<Do("conn_fatal")>>)
                    /\ UNCHANGED <<goaway, sess, told, err, req>>
               ELSE /\ goaway' = v
                    /\ \/ \E r \in Requests :
                            /\ Perspective = "client" /\ sess = "SENT"
                            /\ req[r].kind = "CONNECT"
                            /\ ~req[r].idPending /\ r >= v
                            /\ Set(r, "dead", TRUE)
                            /\ SessionFailed(
                                 <<On("shutdown_unless_closed", r),
                                   Do("session_draining"),
                                   Do("control_bytes")>>)
                       \/ /\ \A r \in Requests :
                               ~(/\ Perspective = "client" /\ sess = "SENT"
                                 /\ req[r].kind = "CONNECT"
                                 /\ ~req[r].idPending /\ r >= v)
                          /\ Then(<<Do("session_draining"),
                                    Do("control_bytes")>>)
                          /\ UNCHANGED <<sess, told, err, req>>
            /\ UNCHANGED settings
    /\ UNCHANGED <<closed, locals, control, everEst, sessionEs, respOk,
                   closeRx, drainRx, capsCut, wtLive, parked, answered>>

(* Mutant: a request whose FIN was held is not released.                   *)
ParkedReadyUnlessFin == parked.es /= NoStream /\ ~parked.fin
ParkedReady == parked.es /= NoStream

(* SETTINGS decided and on_peer_settings returned: send the client's       *)
(* CONNECT, or release the request the server parked, with its FIN.        *)
SettingsLatched ==
    /\ At("settings_latched")
    /\ \/ /\ Perspective = "client" /\ sess = "PENDING"
          /\ IF settings = "no_wt"
             THEN SessionFailed(<<>>)
             ELSE /\ Then(<<Do("client_send_connect")>>)
                  /\ UNCHANGED <<sess, told, err>>
          /\ UNCHANGED parked
       \/ /\ Perspective = "server" /\ ParkedReady
          /\ parked' = NotParked
          /\ Then(<<On("server_request_done", parked.es)>>
                  \o IF parked.fin THEN <<On("deferred_fin", parked.es)>>
                                   ELSE <<>>)
          /\ UNCHANGED <<sess, told, err>>
       \/ /\ ~(Perspective = "client" /\ sess = "PENDING")
          /\ ~(Perspective = "server" /\ ParkedReady)
          /\ Then(<<>>)
          /\ UNCHANGED <<sess, told, err, parked>>
    /\ UNCHANGED <<closed, locals, control, settings, goaway, everEst,
                   sessionEs, respOk, closeRx, drainRx, capsCut, wtLive,
                   req, answered>>

DeferredFin ==
    /\ At("deferred_fin")
    /\ Then(IF closed \/ req[This.r].kind = "FREE" THEN <<>> ELSE Fin(This.r))
    /\ UNCHANGED <<connVars, sessVars, parked, req, told, answered>>

(* wtq_conn_on_conn_closed: the transport is gone; the terminal input      *)
(* supplies the error record when nobody did before.                       *)
OnConnClosed ==
    /\ Idle /\ ~closed
    /\ closed' = TRUE
    /\ Latch("terminal_input")
    /\ Enter(<<Do("session_conn_lost"), Do("on_conn_error")>>)
    /\ UNCHANGED <<locals, control, settings, goaway, sessVars, parked, req,
                   told, answered>>

(* wtq_conn_set_transport_error, at any time the backend has detail.       *)
SetTransportError ==
    /\ Idle /\ err = "unset"
    /\ Latch("backend")
    /\ UNCHANGED <<closed, locals, control, settings, goaway, sessVars,
                   parked, req, agenda, told, answered>>

-----------------------------------------------------------------------------
(* Application operations of the session.                                  *)

SessionUsable == ~closed /\ sess \in Active /\ sessionEs /= NoStream

(* wtq_conn_session_close: CLOSE capsule and FIN in one submission, whose  *)
(* failure is fatal, then the terminal transition.                         *)
SessionClose ==
    /\ AppMay /\ SessionUsable
    /\ \/ Enter(<<Do("session_closed")>>)
       \/ Enter(<<Do("conn_fatal")>>)
    /\ UNCHANGED <<connVars, sessVars, parked, req, told, answered>>

(* wtq_conn_session_drain: advisory; only its failure changes state.       *)
SessionDrain ==
    /\ AppMay /\ SessionUsable
    /\ Enter(<<Do("conn_fatal")>>)
    /\ UNCHANGED <<connVars, sessVars, parked, req, told, answered>>

(* A WT stream of the session opens (by either side), and closes again.    *)
WtStreams ==
    /\ AppMay /\ ~closed /\ sess \in Active
    /\ wtLive' = ~wtLive
    /\ UNCHANGED <<connVars, sess, everEst, sessionEs, respOk, closeRx,
                   drainRx, capsCut, parked, req, agenda, told, answered>>

-----------------------------------------------------------------------------
EngineStep ==
    \/ AppReturns
    \/ ConnFatal \/ SessionConnLost \/ OnConnError \/ ShutdownRaw
    \/ SessionClosed \/ OnSessionClosed \/ SessionDraining
    \/ SessionEstablished
    \/ ClientSendConnect \/ ClientMaybeEstablish \/ ShutdownUnlessClosed
    \/ ClientResponseDone
    \/ MarkDead \/ ServerSendResponse \/ ServerRequestDone
    \/ EstablishUnlessClosed \/ RequestStreamFailed
    \/ SessionStreamPoisoned \/ SessionCapsule
    \/ RequestStreamBytes \/ ParkedRequestCancel \/ RequestStreamFin
    \/ FinRelease \/ StreamBytesEnd \/ ResetRelease
    \/ ControlBytes \/ SettingsLatched \/ DeferredFin

BackendInput ==
    \/ \E ok \in BOOLEAN : OpenDeferredLocals(ok)
    \/ \E r \in role.requests :
         \/ OnPeerBidiOpened(r) \/ OnStreamBytes(r) \/ OnStreamFin(r)
         \/ OnStreamReset(r) \/ OnStopSending(r) \/ OnStreamTerminal(r)
         \/ OnStreamNativeId(r)
    \/ OnPeerControlOpened \/ OnCriticalViolation \/ OnControlBytes
    \/ OnConnClosed \/ SetTransportError

AppOperation ==
    Start \/ ClientConnect \/ SessionClose \/ SessionDrain \/ WtStreams

Next == (EngineStep \/ BackendInput \/ AppOperation) /\ UNCHANGED role

(* The engine's code runs to completion and callbacks return: nothing in   *)
(* it blocks.  Nobody owes an input.                                       *)
Spec == Init /\ [][Next]_vars /\ WF_vars(EngineStep /\ UNCHANGED role)

-----------------------------------------------------------------------------
(* Properties.                                                             *)

StreamOps == {"shutdown_raw", "session_established", "client_maybe_establish",
              "shutdown_unless_closed", "client_response_done", "mark_dead",
              "send_error", "send_200", "server_request_done",
              "establish_unless_closed", "request_stream_failed",
              "session_stream_poisoned", "session_capsule",
              "request_stream_bytes", "request_stream_fin", "fin_release",
              "stream_bytes_end", "reset_release", "deferred_fin"}
ConnOps == {"app", "conn_fatal", "session_conn_lost", "on_conn_error",
            "session_closed", "on_session_closed", "session_draining",
            "client_send_connect", "parked_request_cancel", "control_bytes",
            "settings_latched"}
Calls == [op : StreamOps, r : Requests] \cup [op : ConnOps, r : {NoStream}]
Streams == [kind : {"UNOPENED", "FREE", "BTYPE", "REQUEST", "CONNECT"},
            dead : BOOLEAN, headers : BOOLEAN, trailers : BOOLEAN,
            isSession : BOOLEAN, idPending : BOOLEAN, frame : OpenFrames]
Callbacks == {"established", "draining", "closed", "failed", "rejected",
              "conn_error"}

(* Type correctness; in particular every continuation that names a stream  *)
(* names a real one, so no function of conn.c runs on a NULL estream.      *)
TypeOK ==
    /\ role \in Roles
    /\ closed \in BOOLEAN /\ locals \in {"idle", "deferred", "attempted"}
    /\ control \in {"none", "untyped", "open"}
    /\ settings \in {"none", "no_wt", "wt"}
    /\ goaway \in role.goaway \cup {NoId}
    /\ err \in {"unset", "engine", "backend", "terminal_input", "sealed"}
    /\ sess \in Opening \cup Active \cup Final
    /\ everEst \in BOOLEAN /\ sessionEs \in Requests \cup {NoStream}
    /\ respOk \in BOOLEAN /\ closeRx \in BOOLEAN /\ drainRx \in BOOLEAN
    /\ capsCut \in BOOLEAN /\ wtLive \in BOOLEAN
    /\ parked \in [es : Requests \cup {NoStream}, fin : BOOLEAN]
    /\ req \in [Requests -> Streams]
    /\ agenda \in Seq(Calls) /\ told \in Seq(Callbacks)
    /\ answered \in [Requests -> {"nothing", "reset", "200", "error"}]

Times(cb) == Cardinality({i \in DOMAIN told : told[i] = cb})
Outcomes == Times("failed") + Times("rejected") + Times("closed")

(* The application hears of exactly one outcome, whatever order GOAWAY,    *)
(* response, reset, close and transport loss take: on_session_closed only  *)
(* for a session that was established, on_session_failed and _rejected     *)
(* only for one that never was, and a terminal state never without its     *)
(* callback once the engine is at rest.                                    *)
OneOutcome ==
    /\ Outcomes <= 1 /\ Times("established") <= 1
    /\ Times("closed") <= Times("established")
    /\ Times("failed") + Times("rejected") + Times("established") <= 1
    /\ Idle => (Outcomes = 1 <=> sess \in Final)

(* The session pointer is never stale: while session_es is set, that       *)
(* stream is the live session stream, and a session the application may    *)
(* still close has one.                                                    *)
SessionStreamLive ==
    /\ sessionEs /= NoStream =>
         /\ req[sessionEs].kind \in {"CONNECT", "REQUEST"}
         /\ req[sessionEs].isSession
    /\ Idle /\ ~closed /\ sess \in Active => sessionEs /= NoStream

(* A parked request is a live, undecided request stream, and waits for     *)
(* SETTINGS only: no reset, STOP_SENDING, terminal event or refusal leaves *)
(* parked_es pointing at a stream that is gone or already answered.        *)
ParkedRequestLive ==
    parked.es /= NoStream =>
        /\ req[parked.es].kind = "REQUEST" /\ req[parked.es].headers
        /\ ~req[parked.es].isSession
        /\ Idle /\ ~closed => /\ ~req[parked.es].dead
                              /\ settings = "none"
                              /\ answered[parked.es] = "nothing"

(* estream_release runs at most once for a stream: whatever callbacks did  *)
(* in between, a pending release finds the stream still in use.            *)
ReleaseOnce ==
    agenda /= <<>> /\ This.op \in {"fin_release", "reset_release",
                                   "session_stream_poisoned"}
        => req[This.r].kind /= "FREE"

(* The server answers a request at most once, never before the peer's      *)
(* SETTINGS, and accepts at most one session per connection.               *)
AnswerOnce ==
    /\ At("send_error") \/ At("send_200") =>
         answered[This.r] = "nothing" /\ settings /= "none"
    /\ At("send_200") => \A r \in Requests : answered[r] /= "200"

(* No pointer of the control plane is stale or NULL where it is followed:  *)
(* session_es, parked_es, and the stream of every continuation.            *)
PointersLive == TypeOK /\ SessionStreamLive /\ ParkedRequestLive

(* What happens once happens once, in any nesting of callbacks: the        *)
(* session's outcome, a stream's release, the answer to a request.         *)
OnceOnly == OneOutcome /\ ReleaseOnce /\ AnswerOnce

(* The transport error record is fixed once the application has heard of   *)
(* an outcome: what a callback read is what every later reader sees.       *)
ErrorFixed ==
    [][Outcomes + Times("conn_error") > 0 => err' = err]_vars

(* Every request a server parked is decided once SETTINGS arrived, or the  *)
(* connection is lost: none is forgotten.                                  *)
ParkedRequestDecided ==
    parked.es /= NoStream /\ settings /= "none" ~> parked.es = NoStream \/ closed

(* The engine implements its promise: callbacks in order, one end, and a   *)
(* lost connection always ends the session (with fairness).                *)
Contract == INSTANCE SessionContract WITH
    down <- closed,
    phase <- CASE sess \in Opening -> "opening"
               [] sess \in Active -> "open"
               [] OTHER -> "ended",
    log <- told
ImplementsContract == Contract!Spec

=============================================================================
