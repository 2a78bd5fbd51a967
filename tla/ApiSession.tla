----------------------------- MODULE ApiSession -----------------------------
(***************************************************************************)
(* The public session and stream handles of wtquic (src/src/api/session.c) *)
(* over the engine's data streams (src/src/engine/conn.c).                 *)
(*                                                                         *)
(* A session handle is reference counted: the backend owns one reference,  *)
(* the application the others, and every stream handle the application     *)
(* retains pins the session.  The session is destroyed when the last       *)
(* reference is gone and no bracket (session_enter, session_exit) is open, *)
(* so that a callback may release it.  Stream handles live in a pool       *)
(* inside the session: a handle is reused at reference count 0, whoever    *)
(* still has a frame on the stack.                                         *)
(*                                                                         *)
(* `agenda' is the call stack, as in EngineStreams: the engine's inputs,   *)
(* the adapters and the public operations are cut at their callbacks.  The *)
(* engine is reduced to the halves of its streams and to the adapters'     *)
(* backlink; EngineStreams has the rest.                                   *)
(***************************************************************************)
EXTENDS Integers, Sequences

CONSTANTS
    Slots,      \* indices of conn->peer[] and of session->streams[]
    PeerSlots,  \* admission mode: those kept for peer streams
    SharedSlots,\* one shared pool: those it has
    Modes,      \* admission mode (TRUE), one shared pool (FALSE), or both
    LocalDirs,  \* which streams the application opens: bidi (TRUE) or uni
    PeerDirs,   \* and which the peer opens
    MaxStreams, \* bound on the number of streams
    MaxRefs,    \* bound on the references the application holds
    MaxDepth,   \* bound on the call stack under a nested application call
    RefMod,     \* the range of a reference count (2^32 in the code)
    None        \* NULL

ASSUME ApiAssumption ==
    /\ Slots \subseteq Nat /\ None \notin Slots /\ PeerSlots \subseteq Slots
    /\ SharedSlots \subseteq Slots
    /\ Modes \subseteq BOOLEAN /\ LocalDirs \subseteq BOOLEAN
    /\ PeerDirs \subseteq BOOLEAN
    /\ {MaxStreams, MaxRefs, MaxDepth} \subseteq Nat
    /\ RefMod \in Nat \ {0}

VARIABLES
    admission,   \* session->budgeted: admission mode
    refs,        \* session->refs
    cbDepth,     \* session->cb_depth
    freed,       \* session_destroy has run
    backend,     \* the backend still owns its reference
    appRefs,     \* the application's own references to the session
    attached,    \* session->admission_driver /= NULL
    running,     \* session->admission_running
    terminal,    \* session->terminal_fired
    commitDepth, \* session->commit_depth
    deferred,    \* session->closed_deferred
    sess,        \* the engine's session: "none", "active" or "ended"
    closed,      \* conn->closed
    hs,          \* the stream handles
    es,          \* the engine streams
    streams,     \* how many streams there were so far
    agenda,      \* the call stack: the functions still to run
    told,        \* history: "given", "closed"... of a handle
    outcome,     \* history: the session's terminal event
    late         \* history: a stream event came after its handle's end

count == <<refs, cbDepth, freed, backend, appRefs>>
flags == <<attached, running, terminal, commitDepth, deferred>>
engine == <<sess, closed>>
history == <<told, outcome, late>>
vars == <<admission, count, flags, engine, hs, es, streams, agenda, history>>

Halves == {"send", "recv"}
ShutCaps == IF admission THEN Halves ELSE {}

(* A stream handle; `fin' is fin_pending and `gen' a history of its reuse. *)
NoHandle == [refs |-> 0, app |-> 0, alive |-> FALSE, send |-> FALSE,
             recv |-> FALSE, fin |-> FALSE, commit |-> FALSE,
             bidi |-> FALSE, local |-> FALSE, es |-> None, credit |-> None,
             gen |-> 0]
(* An engine stream; `lease' is the credit_held of its native stream.      *)
NoStream == [kind |-> "FREE", user |-> None, send |-> FALSE,
             recv |-> FALSE, fin |-> FALSE, drain |-> FALSE,
             commit |-> FALSE, sent |-> FALSE, bidi |-> FALSE,
             local |-> FALSE, lease |-> FALSE, resident |-> FALSE,
             gen |-> 0]

(* The creator's reference is the backend's; a client's application has    *)
(* one of its own from the start.                                          *)
Init ==
    /\ admission \in Modes
    /\ appRefs \in {0, 1} /\ refs = appRefs + 1 /\ cbDepth = 0
    /\ freed = FALSE /\ backend = TRUE
    /\ attached = admission /\ running = FALSE /\ terminal = FALSE
    /\ commitDepth = 0 /\ deferred = FALSE
    /\ sess = "none" /\ closed = FALSE
    /\ hs = [h \in Slots |-> NoHandle] /\ es = [e \in Slots |-> NoStream]
    /\ streams = 0 /\ agenda = <<>>
    /\ told = [h \in Slots |-> "none"] /\ outcome = "none" /\ late = FALSE

-----------------------------------------------------------------------------
(* The call stack.  A frame names the handle it works on, or the engine    *)
(* stream, and which stream that was when the frame was made.              *)

Call(op) == [op |-> op, at |-> None, gen |-> 0, x |-> {}]
OnHandle(op, h, x) == [op |-> op, at |-> h, gen |-> hs[h].gen, x |-> x]
OnStream(op, e, x) == [op |-> op, at |-> e, gen |-> es[e].gen, x |-> x]
App == Call("app")
Exit == Call("exit")

First(S) == CHOOSE i \in S : \A j \in S : i <= j

Idle == agenda = <<>>
At(op) == agenda /= <<>> /\ Head(agenda).op = op
This == Head(agenda)
Then(calls) == agenda' = calls \o Tail(agenda)
Enter(calls) == agenda' = calls \o agenda

(* The same behind a callback.  On a stack of MaxDepth calls the           *)
(* application makes none of its own, and the frame is left out.           *)
AppFirst(calls, rest) ==
    agenda' = (IF Len(calls \o rest) + 1 < MaxDepth THEN <<App>> ELSE <<>>)
              \o calls \o rest
AppThen(calls) == AppFirst(calls, Tail(agenda))
AppEnter(calls) == AppFirst(calls, agenda)

(* The backend delivers at its event loop, or replays from the admission   *)
(* service.  wtq_api_session_enter and _leave bracket a delivery.          *)
BackendMay == (Idle /\ backend) \/ At("service")
InCall == At("service") \/ At("resume")
Bracket == IF InCall THEN <<>> ELSE <<Exit>>
Depth == IF InCall THEN 0 ELSE 1
(* A resume that reports the end of a stream has nothing else to do.       *)
Below == IF At("resume") THEN Tail(agenda) ELSE agenda
Deliver(calls) == agenda' = calls \o Bracket \o Below
AppDeliver(calls) == AppFirst(calls \o Bracket, Below)

(* The application is in a callback, or calls from outside with a          *)
(* reference of its own.                                                   *)
InApp == At("app") /\ Len(agenda) < MaxDepth
MayUse == InApp \/ (Idle /\ appRefs > 0)
(* A stream handle may be used from the moment it was given until          *)
(* on_stream_closed returns, and while it is retained.                     *)
Usable(h) == hs[h].app > 0 \/ told[h] /= "none"
MayUseStream(h) == (Idle \/ InApp) /\ Usable(h)

(* MaxRefs bounds the references the application holds at a time: those    *)
(* that are neither the backend's nor the running service's.               *)
One(b) == IF b THEN 1 ELSE 0
MayRetain == refs - One(backend) - One(running) < MaxRefs

-----------------------------------------------------------------------------
(* References and brackets.                                                *)

(* Mutant: the session is destroyed although a bracket is open.            *)
UnrefAtOnce(n) == refs' = refs - n /\ freed' = (freed \/ refs = n)
(* session_unref (n = 1; a step that drops none has n = 0).                *)
SessionUnref(n) ==
    /\ refs' = refs - n
    /\ freed' = (freed \/ (refs = n /\ cbDepth = 0))

(* session_exit: the count is looked at again when the last bracket ends.  *)
Leave ==
    /\ cbDepth' = cbDepth - 1
    /\ freed' = (freed \/ (cbDepth = 1 /\ refs = 0))

(* Mutant: the lease ends with the stream, not with its handle.            *)
LeaseEndsWithStream(r) ==
    IF ~r.alive /\ r.credit /= None /\ attached
    THEN [es EXCEPT ![r.credit].lease = FALSE] ELSE es
(* stream_credit_release: r is a handle with its new reference count.      *)
CreditRelease(r) ==
    IF r.refs = 0 /\ r.credit /= None /\ attached
    THEN [es EXCEPT ![r.credit].lease = FALSE] ELSE es
(* Nothing reads a free handle's other fields before stream_acquire clears *)
(* them.                                                                   *)
Uncredited(r) == IF r.refs = 0 THEN [NoHandle EXCEPT !.app = r.app] ELSE r
(* stream_slot_release and stream_drop.                                    *)
OneLess(r) == [r EXCEPT !.refs = IF @ > 0 THEN @ - 1 ELSE @]
DropRef(h) ==
    LET r == OneLess(hs[h]) IN
    /\ hs' = [hs EXCEPT ![h] = Uncredited(r)]
    /\ es' = CreditRelease(r)

(* The end of a public operation or of an adapter without a stream, and    *)
(* wtq_api_session_leave.                                                  *)
SessionExit ==
    /\ At("exit") /\ Leave /\ Then(<<>>)
    /\ UNCHANGED <<admission, refs, backend, appRefs, flags, engine, hs, es,
                   streams, history>>

(* stream_drop and session_exit behind an operation on a handle.           *)
DropAndExit ==
    /\ At("drop") /\ DropRef(This.at) /\ Leave /\ Then(<<>>)
    /\ UNCHANGED <<admission, refs, backend, appRefs, flags, engine,
                   streams, history>>

AppReturns ==
    /\ At("app") /\ Then(<<>>)
    /\ UNCHANGED <<admission, count, flags, engine, hs, es, streams, history>>

(* wtq_session_add_ref and wtq_session_release.                            *)
SessionAddRef ==
    /\ MayUse /\ MayRetain
    /\ appRefs' = appRefs + 1 /\ refs' = refs + 1
    /\ UNCHANGED <<admission, cbDepth, freed, backend, flags, engine, hs, es,
                   streams, agenda, history>>

SessionRelease ==
    /\ Idle \/ InApp
    /\ appRefs > 0 /\ appRefs' = appRefs - 1
    /\ SessionUnref(1)
    /\ UNCHANGED <<admission, cbDepth, backend, flags, engine, hs, es,
                   streams, agenda, history>>

StreamAddRef(h) ==
    /\ MayUseStream(h) /\ hs[h].refs > 0 /\ MayRetain
    /\ hs' = [hs EXCEPT ![h].refs = @ + 1, ![h].app = @ + 1]
    /\ refs' = refs + 1
    /\ UNCHANGED <<admission, cbDepth, freed, backend, appRefs, flags,
                   engine, es, streams, agenda, history>>

StreamRelease(h) ==
    /\ Idle \/ InApp
    /\ hs[h].app > 0
    /\ LET r == [hs[h] EXCEPT !.app = @ - 1,
                              !.refs = IF @ = 0 THEN RefMod - 1 ELSE @ - 1]
       IN /\ hs' = [hs EXCEPT ![h] = Uncredited(r)]
          /\ es' = CreditRelease(r)
    /\ SessionUnref(1)
    /\ UNCHANGED <<admission, cbDepth, backend, appRefs, flags, engine,
                   streams, agenda, history>>

-----------------------------------------------------------------------------
(* The end of a stream.                                                    *)

(* Mutant: the engine keeps its backlink.                                  *)
UnlinkHandleOnly(h, r) ==
    /\ hs' = [hs EXCEPT ![h] = [r EXCEPT !.alive = FALSE, !.es = None]]
    /\ UNCHANGED es
(* stream_unlink of handle h, with r its fields at that point.             *)
StreamUnlink(h, r) ==
    /\ hs' = [hs EXCEPT ![h] = [r EXCEPT !.alive = FALSE, !.es = None]]
    /\ es' = IF r.es = None THEN es ELSE [es EXCEPT ![r.es].user = None]

(* History: on_stream_closed is called.                                    *)
TellClosed(h) ==
    told' = [told EXCEPT ![h] = IF @ = "given" THEN "closed"
                                ELSE IF @ = "none" THEN "unasked"
                                ELSE "twice"]
ClosedCalls(h) == <<OnHandle("slot_release", h, {})>>

ShutHandle(r, x) == [r EXCEPT !.send = @ /\ "send" \notin x,
                              !.fin = @ /\ "send" \notin x,
                              !.recv = @ /\ "recv" \notin x]
(* stream_maybe_terminal.                                                  *)
HandleOver(r) == r.alive /\ ~r.send /\ ~r.fin /\ ~r.recv

(* The halves in x are over for handle h (nothing is done if its terminal  *)
(* event came meanwhile), then stream_maybe_terminal.                      *)
SettleHandle(h, r) ==
    IF HandleOver(r)
    THEN StreamUnlink(h, r) /\ TellClosed(h) /\ AppThen(ClosedCalls(h))
    ELSE /\ hs' = [hs EXCEPT ![h] = r]
         /\ Then(<<>>) /\ UNCHANGED <<es, told>>

(* Mutant: a FIN ends the send half in commit mode, too.                   *)
SettleAtFin ==
    /\ At("settle")
    /\ LET h == This.at  r == hs[h] IN
       SettleHandle(h, IF ~r.alive THEN r ELSE
                       ShutHandle(r, {"send" : i \in This.x \cap {"last"}}
                                       \cup (This.x \cap Halves)))
    /\ UNCHANGED <<admission, count, flags, engine, streams, outcome, late>>
(* "last" is a FIN that was accepted: in commit mode it is still pending.  *)
Settle ==
    /\ At("settle")
    /\ LET h == This.at  r == hs[h] IN
       SettleHandle(h, CASE ~r.alive -> r
                         [] "last" \in This.x ->
                              [r EXCEPT !.send = FALSE, !.fin = r.commit]
                         [] OTHER -> ShutHandle(r, This.x))
    /\ UNCHANGED <<admission, count, flags, engine, streams, outcome, late>>

(* stream_slot_release behind on_stream_closed: the library's reference.   *)
SlotRelease ==
    /\ At("slot_release")
    /\ DropRef(This.at)
    /\ told' = [told EXCEPT ![This.at] = "none"]
    /\ Then(<<>>)
    /\ UNCHANGED <<admission, count, flags, engine, streams, outcome, late>>

(* streams_teardown: one turn of its loop.                                 *)
StreamsTeardown ==
    /\ At("streams_teardown")
    /\ LET todo == {h \in This.x : hs[h].refs > 0 /\ hs[h].alive} IN
       \/ todo = {} /\ Then(<<>>) /\ UNCHANGED <<hs, es, told>>
       \/ /\ todo /= {}
          /\ LET h == First(todo) IN
             /\ StreamUnlink(h, ShutHandle(hs[h], Halves))
             /\ TellClosed(h)
             /\ AppThen(ClosedCalls(h) \o <<[This EXCEPT !.x = todo \ {h}]>>)
    /\ UNCHANGED <<admission, count, flags, engine, streams, outcome, late>>

-----------------------------------------------------------------------------
(* The end of the session.                                                 *)

TellOutcome(o) == outcome' = IF outcome = "none" THEN o ELSE "twice"
Teardown == [Call("streams_teardown") EXCEPT !.x = Slots]

(* The shape of the terminal adapters: the first of them wins.             *)
OnceTerminal(op, calls) ==
    /\ At(op) /\ cbDepth' = cbDepth + 1
    /\ Then((IF terminal THEN <<>> ELSE calls) \o <<Exit>>)
    /\ terminal' = TRUE

AdaptSessionClosed ==
    /\ OnceTerminal("on_session_closed", <<Teardown, Call("tell_closed")>>)
    /\ UNCHANGED <<admission, refs, freed, backend, appRefs, attached,
                   running, commitDepth, deferred, engine, hs, es, streams,
                   history>>

AdaptConnError ==
    /\ OnceTerminal("on_conn_error", <<Teardown, Call("tell_failed")>>)
    /\ UNCHANGED <<admission, refs, freed, backend, appRefs, attached,
                   running, commitDepth, deferred, engine, hs, es, streams,
                   history>>

(* session_failed or session_rejected of the engine, with adapt_failed or  *)
(* adapt_rejected.                                                         *)
AdaptFailed ==
    /\ sess' = "ended"
    /\ OnceTerminal("session_failed", <<Call("tell_failed")>>)
    /\ UNCHANGED <<admission, refs, freed, backend, appRefs, attached,
                   running, commitDepth, deferred, closed, hs, es,
                   streams, history>>

(* Mutant: on_closed does not wait for a commit callback.                  *)
TellClosedAtOnce ==
    /\ At("tell_closed") /\ TellOutcome("closed") /\ AppThen(<<>>)
    /\ UNCHANGED deferred
    /\ UNCHANGED <<admission, count, attached, running, terminal,
                   commitDepth, engine, hs, es, streams, told, late>>
(* The end of adapt_session_closed: on_closed waits for a commit callback  *)
(* that is running.                                                        *)
TellSessionClosed ==
    /\ At("tell_closed")
    /\ IF commitDepth = 0
       THEN TellOutcome("closed") /\ AppThen(<<>>) /\ UNCHANGED deferred
       ELSE deferred' = TRUE /\ Then(<<>>) /\ UNCHANGED outcome
    /\ UNCHANGED <<admission, count, attached, running, terminal,
                   commitDepth, engine, hs, es, streams, told, late>>

(* on_failed or on_refused.                                                *)
TellSessionFailed ==
    /\ At("tell_failed") /\ TellOutcome("failed") /\ AppThen(<<>>)
    /\ UNCHANGED <<admission, count, flags, engine, hs, es, streams, told,
                   late>>

-----------------------------------------------------------------------------
(* The engine under it (conn.c).                                           *)

Live(e) == {h \in Halves : IF h = "send" THEN es[e].send \/ es[e].fin
                                         ELSE es[e].recv}
ShutStream(r, x) == [r EXCEPT !.send = @ /\ "send" \notin x,
                              !.fin = @ /\ "send" \notin x,
                              !.recv = @ /\ "recv" \notin x,
                              !.drain = @ \/ "recv" \in x]
(* wt_release_if_done and estream_release: the backlink stays as it is; no *)
(* half of a free stream is read before its reuse.                         *)
Done(r) == r.kind = "WT" /\ ~r.send /\ ~r.fin /\ ~r.recv /\ ~r.drain
Released(r) == [NoStream EXCEPT !.user = r.user, !.lease = r.lease,
                                 !.resident = r.resident]
Kept(r) == IF Done(r) THEN Released(r) ELSE r
SameStream(f) == es[f.at].gen = f.gen /\ es[f.at].kind = "WT"

(* The engine's rest behind a callback: "free" releases the stream         *)
(* whatever its halves; "fin" ends the receive half, "shut" the halves     *)
(* named, "sent" marks a send; "done" releases it if it is done.  All but  *)
(* the first and the last look whether it still is the same stream.        *)
EngineRest ==
    /\ At("engine")
    /\ LET e == This.at  x == This.x  r == es[e]
           sent == [r EXCEPT !.sent = TRUE]
       IN es' = [es EXCEPT ![e] =
            CASE "free" \in x -> Released(r)
              [] "done" \in x -> Kept(r)
              [] ~SameStream(This) -> r
              [] "fin" \in x -> Kept([r EXCEPT !.recv = FALSE,
                                               !.drain = FALSE])
              [] "shut" \in x -> Kept(ShutStream(r, x \cap Halves))
              [] "last" \in x -> Kept([sent EXCEPT !.send = FALSE,
                                                   !.fin = r.commit])
              [] "sent" \in x -> sent
              [] OTHER -> Kept(r)]
    /\ Then(<<>>)
    /\ UNCHANGED <<admission, count, flags, engine, hs, streams, history>>

(* conn_fatal and wtq_conn_on_conn_closed: session_conn_lost, then the     *)
(* connection error.                                                       *)
ConnFatal ==
    /\ At("conn_fatal")
    /\ closed' = TRUE
    /\ Then(IF closed THEN <<>> ELSE
            (CASE sess = "active" -> <<Call("session_closed")>>
               [] sess = "none" -> <<Call("session_failed")>>
               [] OTHER -> <<>>) \o <<Call("on_conn_error")>>)
    /\ UNCHANGED <<admission, count, flags, sess, hs, es, streams,
                   history>>

SessionClosed ==
    /\ At("session_closed")
    /\ sess' = IF sess = "active" THEN "ended" ELSE sess
    /\ Then(IF sess = "active"
            THEN <<[Call("engine_teardown") EXCEPT !.x = Slots],
                   Call("on_session_closed")>>
            ELSE <<>>)
    /\ UNCHANGED <<admission, count, flags, closed, hs, es, streams,
                   history>>

(* Both halves are over; the receive half drains.                          *)
Torn(r) == Kept(ShutStream(r, {"send"} \cup (IF r.recv THEN {"recv"} ELSE {})))

(* session_closed's loop: all at once when the connection is closed, else  *)
(* one turn of it.  There the driver's shutdown may complete a send        *)
(* inline, or fail, which is fatal; the halves are read again behind it.   *)
EngineTeardown ==
    /\ At("engine_teardown")
    /\ LET todo == {e \in This.x : es[e].kind = "WT"}
           e == First(todo)
           next == [This EXCEPT !.x = todo \ {e}]
           torn == OnStream("engine_torn", e, {})
       IN
       \/ /\ closed \/ todo = {}
          /\ es' = [i \in Slots |-> IF i \in todo THEN Torn(es[i]) ELSE es[i]]
          /\ Then(<<>>) /\ UNCHANGED cbDepth
       \/ /\ ~closed /\ todo /= {}
          /\ es' = [es EXCEPT ![e] = Torn(es[e])]
          /\ Then(<<next>>) /\ UNCHANGED cbDepth
       \/ /\ ~closed /\ todo /= {} /\ Live(e) /= {}
          /\ AppThen(<<Exit, torn, next>>) /\ cbDepth' = cbDepth + 1
          /\ UNCHANGED es
       \/ /\ ~closed /\ todo /= {} /\ Live(e) /= {}
          /\ Then(<<Call("conn_fatal"), torn, next>>)
          /\ UNCHANGED <<cbDepth, es>>
    /\ UNCHANGED <<admission, refs, freed, backend, appRefs, flags, engine,
                   hs, streams, history>>

EngineTorn ==
    /\ At("engine_torn")
    /\ es' = [es EXCEPT ![This.at] = Torn(es[This.at])]
    /\ Then(<<>>)
    /\ UNCHANGED <<admission, count, flags, engine, hs, streams, history>>

-----------------------------------------------------------------------------
(* Inputs: the engine's callbacks meet the adapters.                       *)

(* stream_hold.                                                            *)
Held(r) == [r EXCEPT !.refs = @ + 1]

(* An adapter for a stream callback.  The engine stream e becomes ne; its  *)
(* handle, if it has one, is held, becomes r and hears of it, then comes   *)
(* `todo'; the engine's rest is `rest'.                                    *)
Adapt(e, ne, r, todo, rest) ==
    LET h == es[e].user IN
    /\ es' = [es EXCEPT ![e] = ne]
    /\ IF h = None
       THEN /\ Deliver(rest) /\ cbDepth' = cbDepth + Depth
            /\ UNCHANGED <<hs, late>>
       ELSE /\ hs' = [hs EXCEPT ![h] = Held(r)]
            /\ late' = (late \/ told[h] /= "given" \/ outcome /= "none")
            /\ AppDeliver(todo \o <<OnHandle("drop", h, {})>> \o rest)
            /\ cbDepth' = cbDepth + Depth + 1
    /\ UNCHANGED <<admission, refs, freed, backend, appRefs, flags, engine,
                   streams, told, outcome>>
User(e) == IF es[e].user = None THEN NoHandle ELSE hs[es[e].user]
ThenSettle(e, x) ==
    IF es[e].user = None THEN <<>>
                         ELSE <<OnHandle("settle", es[e].user, x)>>
Open(e) == ~closed /\ es[e].kind = "WT"

(* wt_deliver and adapt_stream_data.                                       *)
OnStreamData(e, fin) ==
    /\ BackendMay /\ Open(e) /\ es[e].recv
    /\ Adapt(e, es[e], User(e), IF fin THEN ThenSettle(e, {"recv"}) ELSE <<>>,
             IF fin THEN <<OnStream("engine", e, {"fin"})>> ELSE <<>>)

(* The FIN or RESET that answers a STOP_SENDING: no callback.              *)
OnDrained(e) ==
    /\ BackendMay /\ Open(e) /\ es[e].drain
    /\ es' = [es EXCEPT ![e] = Kept([@ EXCEPT !.drain = FALSE])]
    /\ UNCHANGED <<admission, count, flags, engine, hs, streams, agenda,
                   history>>

OnStreamReset(e) ==
    /\ BackendMay /\ Open(e) /\ es[e].recv
    /\ Adapt(e, [es[e] EXCEPT !.recv = FALSE], User(e),
             ThenSettle(e, {"recv"}), <<OnStream("engine", e, {"done"})>>)

(* wtq_conn_on_stop_sending and adapt_stream_stop: only a stream in commit *)
(* mode ends its send half here.                                           *)
OnStopSending(e) ==
    /\ BackendMay /\ Open(e) /\ (es[e].local \/ es[e].bidi)
    /\ LET x == IF es[e].commit THEN {"send"} ELSE {}
           y == IF User(e).commit THEN {"send"} ELSE {}
       IN Adapt(e, ShutStream(es[e], x), ShutHandle(User(e), y),
                IF User(e).commit THEN ThenSettle(e, {}) ELSE <<>>,
                IF es[e].commit THEN <<OnStream("engine", e, {})>> ELSE <<>>)

(* wtq_conn_on_stream_writable reaches drains, too.                        *)
OnStreamWritable(e) ==
    /\ BackendMay /\ Open(e)
    /\ Adapt(e, es[e], User(e), <<>>, <<>>)

(* adapt_stream_terminal: no event but on_stream_closed.                   *)
AdaptTerminal(e, ne, rest) ==
    LET h == es[e].user IN
    /\ es' = [es EXCEPT ![e] = ne]
    /\ IF h = None
       THEN Deliver(rest) /\ cbDepth' = cbDepth + Depth /\ UNCHANGED hs
       ELSE /\ hs' = [hs EXCEPT ![h] = Held(@)]
            /\ Deliver(<<OnHandle("settle", h, Halves),
                         OnHandle("drop", h, {})>> \o rest)
            /\ cbDepth' = cbDepth + Depth + 1
    /\ UNCHANGED <<admission, refs, freed, backend, appRefs, flags, engine,
                   streams, history>>

(* wtq_conn_on_stream_terminal, from a dispatch root or inside a resume.   *)
OnStreamTerminal(e) ==
    /\ BackendMay \/ (At("resume") /\ This.at = e /\ SameStream(This))
    /\ Open(e)
    /\ LET over == [es[e] EXCEPT !.send = FALSE, !.fin = FALSE,
                                 !.recv = FALSE, !.drain = FALSE]
       IN \/ /\ Live(e) /= {}
             /\ AdaptTerminal(e, over, <<OnStream("engine", e, {"free"})>>)
          \/ /\ Live(e) = {}
             /\ es' = [es EXCEPT ![e] = Released(over)]
             /\ ~At("resume")
             /\ UNCHANGED <<admission, count, flags, engine, hs, streams,
                            agenda, history>>

(* wtq_conn_on_stream_send_shutdown_v1: a commit stream's send half ended, *)
(* with all of it acknowledged (graceful) or not.                          *)
OnSendShutdown(e, graceful) ==
    /\ BackendMay /\ Open(e) /\ sess = "active"
    /\ es[e].commit /\ (IF graceful THEN es[e].fin ELSE Live(e) /= {})
    /\ LET h == es[e].user
           ne == [es[e] EXCEPT !.fin = FALSE, !.send = FALSE]
           rest == <<OnStream("engine", e, {})>>
       IN \/ ~graceful /\ AdaptTerminal(e, ne, rest)
          \/ /\ graceful
             /\ h /= None /\ User(e).alive /\ User(e).commit /\ User(e).fin
             /\ hs' = [hs EXCEPT ![h] = [Held(ShutHandle(@, {"send"}))
                          EXCEPT !.alive = FALSE, !.es = None]]
             /\ es' = [es EXCEPT ![e] = [ne EXCEPT !.user = None]]
             /\ late' = (late \/ told[h] /= "given" \/ outcome /= "none")
             /\ commitDepth' = commitDepth + 1
             /\ cbDepth' = cbDepth + Depth + 1
             /\ AppDeliver(<<OnHandle("committed", h, {})>> \o rest)
             /\ UNCHANGED <<admission, refs, freed, backend, appRefs,
                            attached, running, terminal, deferred, engine,
                            streams, told, outcome>>

(* adapt_send_committed behind its callback: on_stream_closed ...          *)
SendCommitted ==
    /\ At("committed")
    /\ commitDepth' = commitDepth - 1
    /\ TellClosed(This.at)
    /\ AppThen(ClosedCalls(This.at) \o <<OnHandle("commit_end", This.at, {})>>)
    /\ UNCHANGED <<admission, count, attached, running, terminal, deferred,
                   engine, hs, es, streams, outcome, late>>

(* ... then the session's deferred on_closed.                              *)
CommitEnd ==
    /\ At("commit_end")
    /\ DropRef(This.at)
    /\ IF deferred /\ commitDepth = 0
       THEN /\ deferred' = FALSE /\ TellOutcome("closed")
            /\ AppThen(<<Exit>>) /\ UNCHANGED <<cbDepth, freed>>
       ELSE Leave /\ Then(<<>>) /\ UNCHANGED <<deferred, outcome>>
    /\ UNCHANGED <<admission, refs, backend, appRefs, attached, running,
                   terminal, commitDepth, engine, streams, told, late>>

-----------------------------------------------------------------------------
(* The session's own inputs.                                               *)

(* adapt_established.                                                      *)
Establish ==
    /\ Idle /\ backend /\ ~closed /\ sess = "none"
    /\ sess' = "active"
    /\ cbDepth' = cbDepth + 1 /\ AppEnter(<<Exit>>)
    /\ UNCHANGED <<admission, refs, freed, backend, appRefs, flags, closed,
                   hs, es, streams, history>>

(* adapt_draining, adapt_send_complete and adapt_datagram.                 *)
Notify ==
    /\ Idle /\ backend
    /\ cbDepth' = cbDepth + 1 /\ AppEnter(<<Exit>>)
    /\ UNCHANGED <<admission, refs, freed, backend, appRefs, flags, engine,
                   hs, es, streams, history>>

(* A delivery that ends the session: the peer refused it, closed it, or    *)
(* the connection failed.                                                  *)
EndingInput(op) ==
    /\ Idle /\ backend /\ ~closed
    /\ cbDepth' = cbDepth + 1 /\ Enter(<<Call(op), Exit>>)
    /\ UNCHANGED <<admission, refs, freed, backend, appRefs, flags, engine,
                   hs, es, streams, history>>
SessionRefused == sess = "none" /\ EndingInput("session_failed")
PeerCloses == sess = "active" /\ EndingInput("session_closed")
ConnLost == EndingInput("conn_fatal")

(* The backend's last event: the connection is over, and the backend's     *)
(* reference goes inside its bracket.                                      *)
BackendQuits ==
    /\ Idle /\ backend
    /\ cbDepth' = cbDepth + 1
    /\ Enter(<<Call("conn_fatal"), Call("backend_release"), Exit>>)
    /\ UNCHANGED <<admission, refs, freed, backend, appRefs, flags, engine,
                   hs, es, streams, history>>

(* wtq_api_session_admission_detach and wtq_session_release.               *)
BackendRelease ==
    /\ At("backend_release") /\ Then(<<>>)
    /\ attached' = FALSE /\ backend' = FALSE
    /\ hs' = [h \in Slots |-> [hs[h] EXCEPT !.credit = None]]
    /\ SessionUnref(1)
    /\ UNCHANGED <<admission, cbDepth, appRefs, running, terminal,
                   commitDepth, deferred, engine, es, streams, history>>

(* wtq_session_service_stream_admission, called by the application or at   *)
(* a dispatch root, up to the backend's service and behind it.             *)
Service ==
    /\ Idle /\ (appRefs > 0 \/ backend)
    /\ attached /\ ~terminal /\ cbDepth = 0 /\ ~running
    /\ refs' = refs + 1 /\ cbDepth' = cbDepth + 1 /\ running' = TRUE
    /\ Enter(<<Call("service")>>)
    /\ UNCHANGED <<admission, freed, backend, appRefs, attached, terminal,
                   commitDepth, deferred, engine, hs, es, streams, history>>

ServiceDone ==
    /\ At("service") /\ Then(<<>>) /\ running' = FALSE
    /\ refs' = refs - 1 /\ cbDepth' = cbDepth - 1
    /\ freed' = (freed \/ (refs = 1 /\ cbDepth = 1))
    /\ UNCHANGED <<admission, backend, appRefs, attached, terminal,
                   commitDepth, deferred, engine, hs, es, streams, history>>

(* The backend collects a finished native stream without a lease, and      *)
(* wtq_conn_stream_retire_v2 gives its slot back.                          *)
Retire(e) ==
    /\ (Idle /\ backend) \/ At("service")
    /\ attached /\ ~terminal
    /\ es[e].kind = "FREE" /\ es[e].resident /\ ~es[e].lease
    /\ es' = [es EXCEPT ![e].resident = FALSE]
    /\ UNCHANGED <<admission, count, flags, engine, hs, streams, agenda,
                   history>>

-----------------------------------------------------------------------------
(* New streams.                                                            *)

Pool == IF admission THEN Slots ELSE SharedSlots
Spare == {e \in Pool : es[e].kind = "FREE" /\ ~es[e].resident}
LocalSlots == IF admission THEN Slots \ PeerSlots ELSE SharedSlots
FreeHandles == {h \in Pool : hs[h].refs = 0}

(* stream_acquire: the new handle for stream e (or None), number n.        *)
Acquired(e, bidi, local, n) ==
    [NoHandle EXCEPT !.refs = 1, !.alive = TRUE, !.bidi = bidi,
        !.local = local, !.send = local \/ bidi, !.recv = ~local \/ bidi,
        !.es = e, !.credit = IF attached THEN e ELSE None, !.gen = n]
NewStream(bidi, local, n) ==
    [NoStream EXCEPT !.kind = "WT", !.bidi = bidi, !.local = local,
        !.send = local \/ bidi, !.recv = ~local \/ bidi,
        !.resident = admission, !.gen = n]

(* A stream without a handle is refused (wt_reject, wt_abort): shut and    *)
(* drained, or left alone by a dead transport, or the shutdown fails.      *)
Refuse(e, r, below) ==
    LET shut == Kept(ShutStream(r, IF r.recv THEN Halves ELSE {"send"}))
    IN \E ne \in {shut, r}, calls \in {<<>>, <<Call("conn_fatal")>>} :
         /\ ne = r \/ calls = <<>>
         /\ es' = [es EXCEPT ![e] = ne]
         /\ agenda' = calls \o <<Exit>> \o below

(* A peer's stream is associated with the session: adapt_stream_opened.    *)
(* In admission mode the service admits it (wtq_api_session_admit_v2).     *)
OnPeerOpened(bidi) ==
    LET n == streams + 1
        pool == IF admission THEN Spare \cap PeerSlots
                             ELSE {e \in Spare : e = First(Spare)}
    IN
    /\ (IF admission THEN At("service") ELSE Idle /\ backend)
    /\ ~closed /\ sess = "active" /\ streams < MaxStreams
    /\ streams' = n /\ cbDepth' = cbDepth + Depth + 1
    /\ \E e \in pool :
         LET hands == IF admission THEN {e} \cap FreeHandles ELSE FreeHandles
             r == NewStream(bidi, FALSE, n)
         IN
         \/ /\ hands /= {}
            /\ LET h == First(hands) IN
               /\ hs' = [hs EXCEPT ![h] = Acquired(e, bidi, FALSE, n)]
               /\ es' = [es EXCEPT ![e] = [r EXCEPT !.user = h,
                                                    !.lease = attached]]
               /\ told' = [told EXCEPT ![h] = "given"]
            /\ AppDeliver(<<Exit>>)
         \/ /\ hands = {} /\ ~admission
            /\ Refuse(e, r, Bracket \o Below)
            /\ UNCHANGED <<hs, told>>
    /\ UNCHANGED <<admission, refs, freed, backend, appRefs, flags, engine,
                   outcome, late>>

(* session_open up to the driver's open.  In admission mode a handle is    *)
(* reserved first, and the driver may call back.                           *)
SessionOpen(bidi) ==
    LET n == streams + 1
        hands == IF attached THEN Spare \cap LocalSlots \cap FreeHandles
                             ELSE Pool
        e == First(Spare \cap LocalSlots)
        h == First(hands)
        rest(x) == [op |-> "open_rest", at |-> e, gen |-> n, x |-> x]
    IN
    /\ MayUse /\ ~terminal /\ ~closed /\ sess = "active"
    /\ streams < MaxStreams /\ hands /= {} /\ Spare \cap LocalSlots /= {}
    /\ streams' = n /\ cbDepth' = cbDepth + 1
    /\ es' = [es EXCEPT ![e] = [NoStream EXCEPT !.bidi = bidi, !.gen = n,
                  !.kind = IF admission THEN "RESERVED" ELSE "FREE",
                  !.resident = admission]]
    /\ IF attached
       THEN /\ hs' = [hs EXCEPT ![h] = [Acquired(None, bidi, TRUE, n)
                                           EXCEPT !.credit = None]]
            /\ AppEnter(<<rest({h})>>)
       ELSE Enter(<<rest({})>>) /\ UNCHANGED hs
    /\ UNCHANGED <<admission, refs, freed, backend, appRefs, flags, engine,
                   history>>

(* Behind the driver's open: it failed; the session ended meanwhile; the   *)
(* preamble could not be sent; or the stream is up and gets its handle.    *)
OpenRest ==
    /\ At("open_rest")
    /\ LET e == This.at  n == This.gen  reserved == This.x
           hands == IF reserved /= {} THEN reserved ELSE FreeHandles
           h == First(hands)
           live == NewStream(es[e].bidi, TRUE, n)
           dead == admission /\ (closed \/ sess /= "active")
           failed == [Call("open_failed") EXCEPT !.x = reserved]
       IN
       \/ /\ es' = [es EXCEPT ![e] = NoStream]
          /\ Then(<<failed>>) /\ UNCHANGED <<hs, told>>
       \/ /\ dead
          /\ es' = [es EXCEPT ![e] = Released(es[e])]
          /\ Then(<<failed>>) /\ UNCHANGED <<hs, told>>
       \/ /\ ~dead
          /\ es' = [es EXCEPT ![e] = Released(live)]
          /\ Then(<<Call("conn_fatal"), failed>>) /\ UNCHANGED <<hs, told>>
       \/ /\ ~dead /\ hands /= {}
          /\ hs' = [hs EXCEPT ![h] =
                      IF reserved /= {}
                      THEN [@ EXCEPT !.es = e, !.credit = e]
                      ELSE Acquired(e, es[e].bidi, TRUE, n)]
          /\ es' = [es EXCEPT ![e] = [live EXCEPT !.user = h,
                                                  !.lease = attached]]
          /\ told' = [told EXCEPT ![h] = "given"]
          /\ Then(<<Exit>>)
       \/ /\ ~dead /\ hands = {}
          /\ Refuse(e, live, Tail(agenda)) /\ UNCHANGED <<hs, told>>
    /\ UNCHANGED <<admission, count, flags, engine, streams, outcome, late>>

(* The error path of session_open.                                         *)
OpenFailed ==
    /\ At("open_failed")
    /\ IF This.x = {} THEN UNCHANGED <<hs, es>> ELSE DropRef(First(This.x))
    /\ Leave /\ Then(<<>>)
    /\ UNCHANGED <<admission, refs, backend, appRefs, flags, engine, streams,
                   history>>

-----------------------------------------------------------------------------
(* Operations of the application.  A refused one changes nothing.          *)

(* An operation on handle h, held, whose driver call may complete sends    *)
(* inline; then `rest'.                                                    *)
Operate(h, rest) ==
    /\ hs' = [hs EXCEPT ![h] = Held(@)]
    /\ cbDepth' = cbDepth + 2
    /\ AppEnter(<<Exit>> \o rest \o <<OnHandle("drop", h, {})>>)
    /\ UNCHANGED <<admission, refs, freed, backend, appRefs, flags, engine,
                   es, streams, history>>
Stream(h) == hs[h].es

(* wtq_stream_send.                                                        *)
StreamSend(h, fin) ==
    /\ MayUseStream(h) /\ hs[h].alive /\ hs[h].send
    /\ ~closed /\ sess /= "ended" /\ Open(Stream(h)) /\ es[Stream(h)].send
    /\ Operate(h, IF fin THEN <<OnStream("engine", Stream(h), {"last"}),
                                OnHandle("settle", h, {"last"})>>
                         ELSE <<OnStream("engine", Stream(h), {"sent"})>>)

(* wtq_stream_reset (x = {"send"}), _stop_sending ({"recv"}) and _abort    *)
(* (both, of which the open ones are shut).                                *)
StreamShut(h, x) ==
    LET e == Stream(h)
        mine == {i \in Halves : IF i = "send" THEN hs[h].send \/ hs[h].fin
                                              ELSE hs[h].recv}
    IN
    /\ MayUseStream(h) /\ hs[h].alive /\ x \cap mine /= {}
    /\ Open(e) /\ x \cap Live(e) /= {}
    /\ (es[e].bidi /\ es[e].send /\ es[e].recv /\ x /= Halves)
          => x \subseteq ShutCaps
    /\ \/ Operate(h, <<OnStream("engine", e, {"shut"} \cup (x \cap Live(e))),
                       OnHandle("settle", h, x)>>)
       \/ Operate(h, <<Call("conn_fatal")>>)

(* wtq_stream_enable_send_commit: MsQuic only.                             *)
EnableSendCommit(h) ==
    LET e == Stream(h) IN
    /\ MayUseStream(h) /\ admission
    /\ hs[h].alive /\ hs[h].local /\ ~hs[h].bidi
    /\ sess = "active" /\ Open(e) /\ es[e].send /\ ~es[e].sent
    /\ hs' = [hs EXCEPT ![h].commit = TRUE]
    /\ es' = [es EXCEPT ![e].commit = TRUE]
    /\ UNCHANGED <<admission, count, flags, engine, streams, agenda, history>>

(* wtq_stream_resume_receive: the driver may replay a FIN it held back,    *)
(* and then the end of the stream.                                         *)
Resume(h) ==
    LET e == Stream(h)  resume == OnStream("resume", e, {}) IN
    /\ MayUseStream(h) /\ hs[h].alive /\ hs[h].recv
    /\ Open(e) /\ es[e].recv
    /\ \/ Adapt(e, es[e], User(e), ThenSettle(e, {"recv"}),
                <<OnStream("engine", e, {"fin"}), resume>>)
       \/ /\ Enter(<<resume, Exit>>) /\ cbDepth' = cbDepth + 1
          /\ UNCHANGED <<admission, refs, freed, backend, appRefs, flags,
                         engine, hs, es, streams, history>>
ResumeDone ==
    /\ At("resume") /\ Then(<<>>)
    /\ UNCHANGED <<admission, count, flags, engine, hs, es, streams, history>>

(* wtq_session_close; its capsule, like wtq_session_drain's, may fail to   *)
(* go out.                                                                 *)
SessionClose ==
    /\ MayUse /\ ~terminal /\ ~closed /\ sess = "active"
    /\ cbDepth' = cbDepth + 1
    /\ \/ Enter(<<Call("session_closed"), Exit>>)
       \/ Enter(<<Call("conn_fatal"), Exit>>)
    /\ UNCHANGED <<admission, refs, freed, backend, appRefs, flags, engine,
                   hs, es, streams, history>>

-----------------------------------------------------------------------------
LibraryStep ==
    \/ SessionExit \/ DropAndExit \/ Settle \/ SlotRelease \/ StreamsTeardown
    \/ AdaptSessionClosed \/ AdaptConnError \/ AdaptFailed
    \/ TellSessionClosed \/ TellSessionFailed
    \/ EngineRest \/ ConnFatal \/ SessionClosed \/ EngineTeardown
    \/ EngineTorn \/ SendCommitted \/ CommitEnd \/ BackendRelease
    \/ ServiceDone \/ OpenRest \/ OpenFailed \/ ResumeDone

BackendInput ==
    \/ Establish \/ Notify \/ SessionRefused \/ PeerCloses \/ ConnLost
    \/ BackendQuits \/ Service
    \/ \E b \in PeerDirs : OnPeerOpened(b)
    \/ \E e \in Slots :
         \/ OnDrained(e) \/ OnStreamReset(e) \/ OnStopSending(e)
         \/ OnStreamWritable(e) \/ OnStreamTerminal(e) \/ Retire(e)
         \/ \E b \in BOOLEAN : OnStreamData(e, b) \/ OnSendShutdown(e, b)

AppOperation ==
    \/ AppReturns \/ SessionAddRef \/ SessionRelease \/ SessionClose
    \/ \E b \in LocalDirs : SessionOpen(b)
    \/ \E h \in Slots :
         \/ StreamAddRef(h) \/ StreamRelease(h)
         \/ EnableSendCommit(h) \/ Resume(h)
         \/ \E b \in BOOLEAN : StreamSend(h, b)
         \/ \E x \in SUBSET Halves : StreamShut(h, x)

Next == LibraryStep \/ BackendInput \/ AppOperation
Spec == Init /\ [][Next]_vars

-----------------------------------------------------------------------------
(* Properties.                                                             *)

HandleOps == {"settle", "drop", "slot_release", "committed", "commit_end"}
StreamOps == {"engine", "engine_torn", "resume"}
SlotSetOps == {"streams_teardown", "engine_teardown", "open_failed"}
PlainOps == {"app", "exit", "on_session_closed", "on_conn_error",
             "session_failed", "tell_closed", "tell_failed", "conn_fatal",
             "session_closed", "service", "backend_release"}
Marks == {"send", "recv", "last", "sent", "fin", "shut", "done", "free"}
FrameOK(f) ==
    /\ f.gen \in 0..MaxStreams
    /\ CASE f.op \in HandleOps \cup StreamOps ->
              f.at \in Slots /\ f.x \subseteq Marks
         [] f.op = "open_rest" -> f.at \in Slots /\ f.x \subseteq Slots
         [] f.op \in SlotSetOps -> f.at = None /\ f.x \subseteq Slots
         [] f.op \in PlainOps -> f.at = None /\ f.x = {}
Handle == [refs : 0..(RefMod - 1), app : 0..MaxRefs, alive : BOOLEAN,
           send : BOOLEAN, recv : BOOLEAN, fin : BOOLEAN, commit : BOOLEAN,
           bidi : BOOLEAN, local : BOOLEAN, es : Slots \cup {None},
           credit : Slots \cup {None}, gen : 0..MaxStreams]
EStream == [kind : {"FREE", "RESERVED", "WT"}, user : Slots \cup {None},
            send : BOOLEAN, recv : BOOLEAN, fin : BOOLEAN, drain : BOOLEAN,
            commit : BOOLEAN, sent : BOOLEAN, bidi : BOOLEAN,
            local : BOOLEAN, lease : BOOLEAN, resident : BOOLEAN,
            gen : 0..MaxStreams]

(* Every variable keeps its type; no counter leaves its range.             *)
TypeOK ==
    /\ {admission, freed, backend, attached, running, terminal, deferred,
        closed, late} \subseteq BOOLEAN
    /\ refs \in Nat /\ cbDepth \in Nat /\ commitDepth \in Nat
    /\ appRefs \in 0..(MaxRefs + 1) /\ streams \in 0..MaxStreams
    /\ sess \in {"none", "active", "ended"}
    /\ \A h \in Slots : hs[h] \in Handle /\ es[h] \in EStream
    /\ \A i \in DOMAIN agenda : FrameOK(agenda[i])
    /\ told \in [Slots -> {"none", "given", "closed", "unasked", "twice"}]
    /\ outcome \in {"none", "closed", "failed", "twice"}

Owned == backend \/ appRefs > 0 \/ \E h \in Slots : hs[h].app > 0

(* The session's memory (session_unref, session_exit, the pins of retained *)
(* streams): it is destroyed only when nobody owns a reference and no call *)
(* of the library is left on the stack, whatever was released inside which *)
(* callback; and once nobody owns one and the stack is empty it is gone.   *)
FreedWhenUnowned ==
    /\ freed => ~Owned /\ Idle /\ \A h \in Slots : told[h] = "none"
    /\ (Idle /\ ~Owned) => freed

(* stream_hold: while a function of the library works on a stream handle,  *)
(* its slot is not given to another stream, whatever the application does  *)
(* in the callbacks the function makes.                                    *)
HandlesNotRecycled ==
    \A i \in DOMAIN agenda : agenda[i].op \in HandleOps =>
        hs[agenda[i].at].gen = agenda[i].gen /\ hs[agenda[i].at].refs > 0

LinksAgree ==
    /\ \A e \in Slots : (es[e].kind = "WT" /\ es[e].user /= None) =>
         LET r == hs[es[e].user] IN r.refs > 0 /\ r.alive /\ r.es = e
    /\ \A h \in Slots : (hs[h].alive /\ hs[h].es /= None) =>
         es[hs[h].es].kind = "FREE" \/ es[hs[h].es].user = h

(* handle_of and st->es agree: an engine stream that is in use points to a *)
(* live handle that points back, so that no event reaches the handle of    *)
(* another stream; and a live handle's engine stream was not reused.  In   *)
(* admission mode the lease sees to it.                                    *)
BacklinksAgree == admission => LinksAgree

(* The same for the shared pool, where only the order of the engine's and  *)
(* the adapter's steps can: "the estream survives at least until the       *)
(* callback returns", the engine says before it reports a reset.           *)
BacklinksAgreeShared == ~admission => LinksAgree

(* The adapter mirrors each stream's per-direction state (in admission     *)
(* mode; a slot of the shared pool may be reused too early, see            *)
(* BacklinksAgreeShared): between calls a live handle has the halves its   *)
(* engine stream has, a FIN that waits for its acknowledgement included,   *)
(* and at least one of them is open; and a stream with an open half has a  *)
(* handle, its on_stream_closed has not come.                              *)
MirrorsEngine ==
    (admission /\ Idle) =>
        /\ \A h \in Slots : hs[h].alive /\ hs[h].refs > 0 =>
             LET e == es[hs[h].es] IN
             /\ e.kind = "WT" /\ Live(hs[h].es) /= {}
             /\ <<hs[h].send, hs[h].fin, hs[h].recv, hs[h].commit>>
                  = <<e.send, e.fin, e.recv, e.commit>>
        /\ \A e \in Slots : es[e].kind = "WT" /\ Live(e) /= {} =>
             es[e].user /= None

(* Exactly one terminal event per session (terminal_fired): never two, and *)
(* one by the time the backend let go of the session, a deferred on_closed *)
(* included.                                                               *)
ExactlyOneOutcome ==
    /\ outcome /= "twice"
    /\ (Idle /\ ~backend) => outcome /= "none"

(* By the time on_closed fires every live stream has had its               *)
(* on_stream_closed, the one in its commit callback included.              *)
ClosedLast == outcome = "closed" => \A h \in Slots : told[h] /= "given"

(* A stream's events: none before its handle was given out, none behind    *)
(* its on_stream_closed or the session's terminal event, and               *)
(* on_stream_closed once.                                                  *)
StreamEventsInOrder == ~late /\ \A h \in Slots : told[h] /= "twice"

(* The lease (admission_ops.lease): as long as anyone refers to a handle   *)
(* its engine slot stays occupied, while the session can have new streams. *)
(* So wtq_api_session_admit_v2 never meets a slot whose handle is still in *)
(* use, and a local open takes the engine slot that belongs to the handle  *)
(* it reserved, whatever callback they run in.  (The error path of         *)
(* session_open gives the slot back first, then the handle; and behind the *)
(* session's end the count of a handle may be wrong, see RefsCoverAppRefs.)*)
LeaseKeepsSlot ==
    (admission /\ ~closed /\ sess = "active" /\ ~At("open_failed")) =>
        \A e \in Spare : hs[e].refs = 0

(* A handle in use stays what it was: neither its slot nor the engine slot *)
(* behind it is given to another stream.                                   *)
HandlesStay == TypeOK /\ HandlesNotRecycled /\ LeaseKeepsSlot

(* The application's events: one outcome, behind every stream's close, and *)
(* none out of order.                                                      *)
EventsInOrder == ExactlyOneOutcome /\ ClosedLast /\ StreamEventsInOrder

(* What the comment on the struct says of a handle's count: "Sum of the    *)
(* library baseline, transient internal holds, and app_refs".              *)
RefsCoverAppRefs == \A h \in Slots : hs[h].refs >= hs[h].app
=============================================================================
