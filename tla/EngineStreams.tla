--------------------------- MODULE EngineStreams ---------------------------
(***************************************************************************)
(* The WebTransport data streams of the wtquic engine                      *)
(* (src/src/engine/conn.c): the pool of engine streams ("slots"), the two  *)
(* halves of each stream, the link from the transport's stream object back *)
(* to the slot, and the teardown of all streams when the session ends.     *)
(*                                                                         *)
(* A slot is reused as soon as it is released, transport objects are       *)
(* reused too, and both happen while older calls are still on the stack:   *)
(* the application may call the engine from any callback, and the driver   *)
(* may complete sends, replay a held FIN or report a stream's end from     *)
(* inside an operation.  `agenda' is that stack, as in EngineSession.      *)
(*                                                                         *)
(* The connection and its session are reduced to what the streams see of   *)
(* them (EngineSession has the rest); control, QPACK and request streams   *)
(* take slots of the same pool and are not repeated here.                  *)
(***************************************************************************)
EXTENDS Integers, Sequences

CONSTANTS
    Slots,       \* conn->peer[]
    DStreams,    \* the backend's stream objects (wtq_dstream_t *)
    Budgeted,    \* admission mode (MsQuic) or one shared pool (Network)
    ShutCaps,    \* which single halves of a bidi stream can be shut down
    Directions,  \* which streams are opened: {TRUE} bidi, {FALSE} uni
    MaxGen,      \* bound on conn->stream_generation
    MaxDepth,    \* bound on the call stack under a nested application call
    NoSlot, NoDs \* NULL pointers

ASSUME SlotAssumption == NoSlot \notin Slots /\ NoDs \notin DStreams
ASSUME ModeAssumption ==
    Budgeted \in BOOLEAN /\ MaxGen \in Nat /\ MaxDepth \in Nat
ASSUME CapsAssumption ==
    ShutCaps \subseteq {"send", "recv"} /\ Directions \subseteq BOOLEAN

VARIABLES
    closed,   \* conn->closed
    sess,     \* "none", "active" (ESTABLISHED, DRAINING) or "ended"
    slot,     \* the estream in each slot
    gens,     \* conn->stream_generation
    ectx,     \* the backend's link from a stream object to its slot
    dgen,     \* the generation the backend noted with that link
    tx, rx,   \* the two halves of the stream in the transport
    gone,     \* the transport stream ended whole
    held,     \* the backend keeps a FIN back while receive is paused
    agenda,   \* the call stack: the functions still to run
    heard     \* history: the callbacks of a slot's present stream

connVars == <<closed, sess>>
wire == <<tx, rx, gone, held>>
vars == <<connVars, slot, gens, ectx, dgen, wire, agenda, heard>>

Halves == {"send", "recv"}

(* The fields of an estream; `fin' is wt_fin_pending.  RESERVED marks a    *)
(* slot whose driver open is running (admission mode only); TYPE stands    *)
(* for a peer stream whose preamble is incomplete.                         *)
EmptySlot == [kind |-> "FREE", ds |-> NoDs, gen |-> 0, local |-> FALSE,
              bidi |-> FALSE, send |-> FALSE, recv |-> FALSE,
              drain |-> FALSE, fin |-> FALSE, commit |-> FALSE,
              sent |-> FALSE, paused |-> FALSE, resident |-> FALSE]

Init ==
    /\ closed = FALSE /\ sess = "none"
    /\ slot = [s \in Slots |-> EmptySlot] /\ gens = 0
    /\ ectx = [d \in DStreams |-> NoSlot]
    /\ dgen = [d \in DStreams |-> 0]
    /\ tx = [d \in DStreams |-> "none"] /\ rx = [d \in DStreams |-> "none"]
    /\ gone = [d \in DStreams |-> FALSE] /\ held = [d \in DStreams |-> FALSE]
    /\ agenda = <<>> /\ heard = [s \in Slots |-> {}]

-----------------------------------------------------------------------------
(* The call stack.  A frame names the stream it was entered for: the slot, *)
(* and the generation and stream object the slot had then.                 *)

Call(op) == [op |-> op, s |-> NoSlot, g |-> 0, d |-> NoDs, x |-> {}]
CallOn(op, s, x) == [op |-> op, s |-> s, g |-> slot[s].gen,
                     d |-> slot[s].ds, x |-> x]
CallFor(op, d) == [op |-> op, s |-> NoSlot, g |-> 0, d |-> d, x |-> {}]
App == Call("app")

Idle == agenda = <<>>
At(op) == agenda /= <<>> /\ Head(agenda).op = op
This == Head(agenda)
Then(calls) == agenda' = calls \o Tail(agenda)
Enter(calls) == agenda' = calls \o agenda
AppMay == Idle \/ (At("app") /\ Len(agenda) < MaxDepth)
(* Mutant: any stream in the slot will do.                                 *)
SameStreamAssumed == slot[This.s].kind = "WT"
(* The stream the frame was entered for still has its slot.                *)
SameStream ==
    slot[This.s].gen = This.g /\ slot[This.s].ds = This.d
    /\ slot[This.s].kind = "WT"

(* History: a callback for the stream in slot s.  It is late when it       *)
(* reports on a half that the application knows to be over, or delivers    *)
(* while receive is paused.                                                *)
Late(s, cb) ==
    CASE cb \in {"data", "fin"} ->
           \/ heard[s] \cap {"fin", "reset", "terminal", "app_stop",
                             "session"} /= {}
           \/ slot[s].paused
      [] cb = "reset" ->
           heard[s] \cap {"fin", "reset", "terminal", "app_stop",
                          "session"} /= {}
      [] cb = "committed" ->
           heard[s] \cap {"committed", "terminal", "stop", "session"} /= {}
      [] cb = "terminal" ->
           heard[s] \cap {"committed", "terminal", "session"} /= {}
      [] OTHER -> FALSE
Hear(s, cb) ==
    heard' = [heard EXCEPT ![s] = (@ \cup ({cb} \ {"data"}))
                \cup IF Late(s, cb) THEN {"late"} ELSE {}]

-----------------------------------------------------------------------------
(* Releasing a slot.                                                       *)

(* Mutant: the link is left in place.                                      *)
UnlinkNothing(s, e) == ectx
(* The driver's detach, identity-checked: only a link that is still s's.   *)
Unlink(s, e) ==
    IF e.ds /= NoDs /\ ectx[e.ds] = s THEN [ectx EXCEPT ![e.ds] = NoSlot]
                                      ELSE ectx

(* estream_release of slot s, with e its contents at that point.           *)
ReleaseAs(s, e) ==
    /\ slot' = [slot EXCEPT ![s] = [e EXCEPT !.kind = "FREE"]]
    /\ ectx' = Unlink(s, e)
Release(s) == ReleaseAs(s, slot[s])

(* wt_release_if_done: both halves are over and no drain is owed.          *)
Done(e) == /\ e.kind = "WT" /\ ~e.send /\ ~e.fin
           /\ ~e.recv /\ ~e.drain
Settle(s, e) ==
    IF Done(e) THEN ReleaseAs(s, e)
               ELSE slot' = [slot EXCEPT ![s] = e] /\ UNCHANGED ectx

(* The halves in `h' were shut down locally: the receive half stays as a   *)
(* drain that absorbs what is still in flight.                             *)
Shut(e, h) == [e EXCEPT !.send = @ /\ "send" \notin h,
                        !.fin = @ /\ "send" \notin h,
                        !.recv = @ /\ "recv" \notin h,
                        !.drain = @ \/ "recv" \in h]

(* The driver still takes calls for d: the Network driver refuses them     *)
(* once the stream ended, MsQuic keeps the handle until Retire.            *)
Reachable(d) == Budgeted \/ ~gone[d]

(* Mutant: a held FIN outlives the abort of the receive half.              *)
WireShutKeepsFin(d, h) ==
    /\ tx' = IF "send" \in h THEN [tx EXCEPT ![d] = "ended"] ELSE tx
    /\ rx' = IF "recv" \in h /\ rx[d] = "open"
             THEN [rx EXCEPT ![d] = "stopped"] ELSE rx
    /\ UNCHANGED <<held, gone>>
(* The transport's side of the driver's shutdown_stream; aborting receive  *)
(* discards a held FIN.                                                    *)
WireShut(d, h) ==
    /\ tx' = IF "send" \in h THEN [tx EXCEPT ![d] = "ended"] ELSE tx
    /\ rx' = IF "recv" \in h /\ rx[d] = "open"
             THEN [rx EXCEPT ![d] = "stopped"] ELSE rx
    /\ held' = IF "recv" \in h THEN [held EXCEPT ![d] = FALSE] ELSE held
    /\ UNCHANGED gone

-----------------------------------------------------------------------------
(* The session's end.                                                      *)

AppReturns ==
    /\ At("app") /\ Then(<<>>)
    /\ UNCHANGED <<connVars, slot, gens, ectx, dgen, wire, heard>>

Establish ==
    /\ Idle /\ ~closed /\ sess = "none"
    /\ sess' = "active"
    /\ UNCHANGED <<closed, slot, gens, ectx, dgen, wire, agenda, heard>>

(* The transport is lost, or an input is a protocol error.                 *)
OnConnLost ==
    /\ Idle /\ ~closed
    /\ Enter(<<Call("conn_fatal")>>)
    /\ UNCHANGED <<connVars, slot, gens, ectx, dgen, wire, heard>>

(* The peer's CLOSE capsule, FIN or reset of the session stream, or the    *)
(* application's wtq_conn_session_close.                                   *)
SessionEnds ==
    /\ AppMay /\ ~closed /\ sess = "active"
    /\ Enter(<<Call("session_closed")>>)
    /\ UNCHANGED <<connVars, slot, gens, ectx, dgen, wire, heard>>

ConnFatal ==
    /\ At("conn_fatal")
    /\ closed' = TRUE
    /\ Then(IF closed THEN <<>> ELSE <<Call("session_closed")>>)
    /\ UNCHANGED <<sess, slot, gens, ectx, dgen, wire, heard>>

SessionClosed ==
    /\ At("session_closed")
    /\ IF sess = "active"
       THEN /\ sess' = "ended"
            /\ Then(<<[Call("teardown") EXCEPT !.x = Slots]>>)
       ELSE Then(<<>>) /\ UNCHANGED sess
    /\ UNCHANGED <<closed, slot, gens, ectx, dgen, wire, heard>>

(* Which halves session_closed shuts down on the wire.                     *)
LiveHalves(e) == {h \in Halves : IF h = "send" THEN e.send \/ e.fin
                                               ELSE e.recv}

(* One turn of the loop of session_closed; the code visits the slots in    *)
(* index order, which makes no difference to any of them.  The shutdown    *)
(* may complete sends inline, fail (fatal) or find the transport dead.     *)
Teardown ==
    /\ At("teardown")
    /\ LET todo == {s \in This.x : slot[s].kind = "WT"}
           Rest(s) == [This EXCEPT !.x = todo \ {s}]
       IN
       \/ /\ todo = {}
          /\ heard' = [s \in Slots |-> heard[s] \cup {"session"}]
          /\ Then(<<App>>)                        \* on_session_closed
          /\ UNCHANGED wire
       \/ \E s \in todo :
            LET d == slot[s].ds  h == LiveHalves(slot[s]) IN
            /\ \/ /\ closed \/ h = {} \/ ~Reachable(d)
                  /\ Then(<<CallOn("torn", s, {}), Rest(s)>>)
                  /\ UNCHANGED wire
               \/ /\ ~closed /\ h /= {} /\ Reachable(d)
                  /\ WireShut(d, h)
                  /\ \/ Then(<<App, CallOn("torn", s, {}), Rest(s)>>)
                     \/ Then(<<App, Call("conn_fatal"),
                               CallOn("torn", s, {}), Rest(s)>>)
            /\ UNCHANGED heard
    /\ UNCHANGED <<connVars, slot, gens, ectx, dgen>>

(* Mutant: the receive half is left open.                                  *)
TornSendOnly(e) == Shut(e, {"send"})
(* The halves behind that shutdown, as the code reads them again then.     *)
TornSlot(e) == Shut(e, {"send"} \cup IF e.recv THEN {"recv"} ELSE {})

Torn ==
    /\ At("torn")
    /\ LET s == This.s IN Settle(s, TornSlot(slot[s]))
    /\ Then(<<>>)
    /\ UNCHANGED <<connVars, gens, dgen, wire, heard>>

-----------------------------------------------------------------------------
(* Streams come into being.                                                *)

Unused(d) == tx[d] = "none" /\ rx[d] = "none" /\ ectx[d] = NoSlot
(* Mutant: the counter is stepped for the slot and again for the backend.  *)
FreshTwice(s) == [EmptySlot EXCEPT !.gen = gens + 2]
Fresh(s) == [EmptySlot EXCEPT !.gen = gens + 1]
Spare == {s \in Slots : slot[s].kind = "FREE" /\ ~slot[s].resident}

(* A slot whose driver open is running.  Only admission mode marks it:     *)
(* there the driver may call back before it returns.                       *)
OpeningKind == IF Budgeted THEN "RESERVED" ELSE "FREE"

(* wt_open up to the driver's open_uni or open_bidi.  The code takes the   *)
(* first free slot; which one makes no difference.                         *)
WtOpen(s, bidi) ==
    /\ AppMay /\ ~closed /\ sess = "active" /\ gens < MaxGen
    /\ s \in Spare
    /\ gens' = gens + 1
    /\ slot' = [slot EXCEPT ![s] = [Fresh(s) EXCEPT !.kind = OpeningKind,
                                      !.bidi = bidi, !.resident = Budgeted]]
    /\ heard' = [heard EXCEPT ![s] = {}]
    /\ LET rest == [op |-> "wt_open", s |-> s, g |-> gens + 1, d |-> NoDs,
                    x |-> {}]
       IN Enter(IF Budgeted THEN <<App, rest>> ELSE <<rest>>)
    /\ UNCHANGED <<connVars, ectx, dgen, wire>>

(* The rest of wt_open: the open failed; or the session ended meanwhile,   *)
(* or the preamble could not be sent, and the new stream is detached; or   *)
(* the stream is live.                                                     *)
WtOpened ==
    /\ At("wt_open")
    /\ LET s == This.s IN
       \/ /\ slot' = [slot EXCEPT ![s] = [@ EXCEPT !.kind = "FREE",
                                                   !.resident = FALSE]]
          /\ Then(<<>>)
          /\ UNCHANGED <<ectx, dgen, wire>>
       \/ \E d \in DStreams :
            LET dead == Budgeted /\ (closed \/ sess /= "active")
                live == [slot[s] EXCEPT !.kind = "WT", !.ds = d,
                           !.local = TRUE, !.send = TRUE,
                           !.recv = slot[s].bidi]
            IN
            /\ Unused(d)
            /\ tx' = [tx EXCEPT ![d] = "open"]
            /\ rx' = [rx EXCEPT ![d] = IF slot[s].bidi THEN "open" ELSE @]
            /\ gone' = [gone EXCEPT ![d] = FALSE] /\ UNCHANGED held
            /\ dgen' = [dgen EXCEPT ![d] = slot[s].gen]
            /\ \/ /\ ~dead
                  /\ slot' = [slot EXCEPT ![s] = live]
                  /\ ectx' = [ectx EXCEPT ![d] = s]
                  /\ Then(<<>>)
               \/ /\ slot' = [slot EXCEPT ![s] = [@ EXCEPT !.kind = "FREE",
                                                           !.ds = d]]
                  /\ Then(IF dead THEN <<>> ELSE <<Call("conn_fatal")>>)
                  /\ UNCHANGED ectx
    /\ UNCHANGED <<connVars, gens, heard>>

(* wtq_conn_on_peer_uni_opened and _bidi_opened (shared pool): a slot for  *)
(* the stream, or a rejection when there is none, whose failure is fatal.  *)
OnPeerOpened(d, bidi) ==
    /\ Idle /\ ~closed /\ ~Budgeted /\ gens < MaxGen /\ Unused(d)
    /\ rx' = [rx EXCEPT ![d] = IF Spare = {} THEN "stopped" ELSE "open"]
    /\ tx' = [tx EXCEPT ![d] = CASE ~bidi -> "none"
                                 [] bidi /\ Spare = {} -> "ended"
                                 [] OTHER -> "open"]
    /\ gone' = [gone EXCEPT ![d] = FALSE]
    /\ \/ \E s \in Spare :
            /\ gens' = gens + 1
            /\ slot' = [slot EXCEPT ![s] = [Fresh(s) EXCEPT !.kind = "TYPE",
                                              !.ds = d, !.bidi = bidi]]
            /\ ectx' = [ectx EXCEPT ![d] = s]
            /\ dgen' = [dgen EXCEPT ![d] = gens + 1]
            /\ heard' = [heard EXCEPT ![s] = {}]
            /\ UNCHANGED agenda
       \/ /\ Spare = {}
          /\ Enter(<<>>) \/ Enter(<<Call("conn_fatal")>>)
          /\ UNCHANGED <<gens, slot, ectx, dgen, heard>>
    /\ UNCHANGED <<connVars, held>>

(* wt_associate: a complete preamble joins the stream to the session, or   *)
(* the stream is rejected and drained.  A malformed session id is fatal.   *)
WtAssociate(d) ==
    /\ Idle /\ ~closed /\ ectx[d] /= NoSlot
    /\ LET s == ectx[d]
           h == IF slot[s].bidi THEN Halves ELSE {"recv"}
       IN
       /\ slot[s].kind = "TYPE" /\ rx[d] = "open"
       /\ \/ /\ Enter(<<Call("conn_fatal")>>)
             /\ UNCHANGED <<slot, wire>>
          \/ /\ sess = "active"
             /\ slot' = [slot EXCEPT ![s] = [slot[s] EXCEPT !.kind = "WT",
                               !.recv = TRUE, !.send = slot[s].bidi]]
             /\ Enter(<<App>>)                        \* on_wt_stream_opened
             /\ UNCHANGED wire
          \/ /\ slot' = [slot EXCEPT ![s] = [@ EXCEPT !.kind = "DRAIN"]]
             /\ WireShut(d, h)
             /\ Enter(<<>>) \/ Enter(<<Call("conn_fatal")>>)
    /\ UNCHANGED <<connVars, gens, ectx, dgen, heard>>

(* The backend forgets a stream object that ended whole and has no link;   *)
(* in admission mode wtq_conn_stream_retire_v2 then frees its slot.        *)
Retire(d) ==
    /\ Idle /\ gone[d] /\ ectx[d] = NoSlot
    /\ tx' = [tx EXCEPT ![d] = "none"] /\ rx' = [rx EXCEPT ![d] = "none"]
    /\ gone' = [gone EXCEPT ![d] = FALSE] /\ held' = [held EXCEPT ![d] = FALSE]
    /\ slot' = [s \in Slots |->
                  IF Budgeted /\ slot[s].ds = d /\ slot[s].kind = "FREE"
                  THEN [slot[s] EXCEPT !.resident = FALSE, !.ds = NoDs]
                  ELSE slot[s]]
    /\ UNCHANGED <<connVars, gens, ectx, dgen, agenda, heard>>

-----------------------------------------------------------------------------
(* Events of a stream, delivered through the backend's link.               *)

Linked(d) == ectx[d] /= NoSlot
Receiving(d) == rx[d] \in {"open", "stopped"} /\ ~gone[d]

(* The callback of wt_deliver, and the frame behind it: the rest of the    *)
(* input (which is delivered in chunks), or the end of the receive half.   *)
Deliver(s, cb) ==
    /\ Hear(s, cb)
    /\ Then(<<App, CallOn(IF cb = "fin" THEN "fin_delivered" ELSE "more",
                          s, {})>>)

(* stream_bytes stops before a callback while receive is paused.           *)
Hold(e) == e.paused /\ ~e.drain

(* stream_bytes on a WT stream, with FIN or without: absorbed by a drain,  *)
(* held back while paused (only a bare FIN stays with the backend; data is *)
(* offered again), or delivered.                                           *)
StreamBytes(s, d, fin) ==
    LET e == slot[s] IN
    \/ /\ ~e.recv /\ ~e.drain
       /\ Then(<<>>)
       /\ UNCHANGED <<slot, ectx, rx, held, heard>>
    \/ /\ e.drain
       /\ IF fin THEN Settle(s, [e EXCEPT !.drain = FALSE])
                 ELSE UNCHANGED <<slot, ectx>>
       /\ rx' = IF fin THEN [rx EXCEPT ![d] = "ended"] ELSE rx
       /\ Then(<<>>)
       /\ UNCHANGED <<held, heard>>
    \/ /\ e.recv /\ ~e.drain /\ Hold(e)
       /\ held' = [held EXCEPT ![d] = @ \/ fin]
       /\ Then(<<>>)
       /\ UNCHANGED <<slot, ectx, rx, heard>>
    \/ /\ e.recv /\ ~e.drain /\ ~Hold(e)
       /\ rx' = IF fin THEN [rx EXCEPT ![d] = "ended"] ELSE rx
       /\ held' = [held EXCEPT ![d] = @ /\ ~fin]
       /\ Deliver(s, IF fin THEN "fin" ELSE "data")
       /\ UNCHANGED <<slot, ectx>>

(* wtq_conn_on_stream_bytes_accounted enters here; op "input" carries the  *)
(* stream object, whose link is read when the input is processed.          *)
OnStreamBytes(d) ==
    /\ Idle /\ ~closed /\ Linked(d) /\ Receiving(d) /\ ~held[d]
    /\ slot[ectx[d]].kind = "WT"
    /\ Enter(<<CallFor("input", d)>>) \/ Enter(<<CallFor("input_fin", d)>>)
    /\ UNCHANGED <<connVars, slot, gens, ectx, dgen, wire, heard>>

Input ==
    /\ At("input") \/ At("input_fin")
    /\ LET d == This.d IN
       IF closed \/ ~Linked(d) \/ slot[ectx[d]].kind /= "WT"
       THEN /\ Then(<<>>)
            /\ UNCHANGED <<slot, ectx, rx, held, heard>>
       ELSE StreamBytes(ectx[d], d, At("input_fin"))
    /\ UNCHANGED <<connVars, gens, dgen, tx, gone>>

(* Behind a data callback: the input ends here, or its next chunk comes.   *)
(* The loop has no test of the backend's stream; Receiving stands for the  *)
(* finite length of one input: a stream that is gone brings no more of it. *)
More ==
    /\ At("more")
    /\ \/ /\ Then(<<>>)
          /\ UNCHANGED <<slot, ectx, rx, held, heard>>
       \/ /\ ~closed /\ SameStream /\ Receiving(This.d)
          /\ \E fin \in BOOLEAN : StreamBytes(This.s, This.d, fin)
    /\ UNCHANGED <<connVars, gens, dgen, tx, gone>>

(* A delivered FIN ends the receive half and answers any drain.            *)
Finished(e) == [e EXCEPT !.recv = FALSE, !.drain = FALSE]

FinDelivered ==
    /\ At("fin_delivered")
    /\ LET s == This.s IN
       IF slot[s].gen = This.g /\ slot[s].kind = "WT"
       THEN Settle(s, Finished(slot[s]))
       ELSE UNCHANGED <<slot, ectx>>
    /\ Then(<<>>)
    /\ UNCHANGED <<connVars, gens, dgen, wire, heard>>

(* wtq_conn_on_stream_reset: an unassociated stream is released; the reset *)
(* that answers a drain is absorbed; any other is reported, and the slot   *)
(* is looked at again after the callback without a check of generation.    *)
OnStreamReset(d) ==
    /\ Idle /\ ~closed /\ Linked(d) /\ Receiving(d) /\ ~held[d]
    /\ rx' = [rx EXCEPT ![d] = "ended"]
    /\ LET s == ectx[d]  e == slot[s] IN
       \/ /\ e.kind \in {"TYPE", "DRAIN"}
          /\ Release(s)
          /\ UNCHANGED <<agenda, heard>>
       \/ /\ e.kind = "WT" /\ e.drain
          /\ Settle(s, [e EXCEPT !.drain = FALSE])
          /\ UNCHANGED <<agenda, heard>>
       \/ /\ e.kind = "WT" /\ ~e.drain
          /\ slot' = [slot EXCEPT ![s] = [@ EXCEPT !.recv = FALSE]]
          /\ Hear(s, "reset")
          /\ Enter(<<App, CallOn("settle", s, {})>>)
          /\ UNCHANGED ectx
    /\ UNCHANGED <<connVars, gens, dgen, tx, gone, held>>

(* A FIN before the preamble is complete, or on a rejected stream; on an   *)
(* unclassified bidi stream it is a connection error.                      *)
OnEarlyFin(d) ==
    /\ Idle /\ ~closed /\ Linked(d) /\ Receiving(d)
    /\ LET s == ectx[d] IN
       /\ slot[s].kind \in {"TYPE", "DRAIN"}
       /\ IF slot[s].kind = "TYPE" /\ slot[s].bidi
          THEN /\ Enter(<<Call("conn_fatal")>>)
               /\ UNCHANGED <<slot, ectx>>
          ELSE Release(s) /\ UNCHANGED agenda
    /\ rx' = [rx EXCEPT ![d] = "ended"]
    /\ UNCHANGED <<connVars, gens, dgen, tx, gone, held, heard>>

SettleAfterReset ==
    /\ At("settle")
    /\ Settle(This.s, slot[This.s])
    /\ Then(<<>>)
    /\ UNCHANGED <<connVars, gens, dgen, wire, heard>>

SettleIfSame ==
    /\ At("settle_same")
    /\ IF slot[This.s].gen = This.g THEN Settle(This.s, slot[This.s])
                                    ELSE UNCHANGED <<slot, ectx>>
    /\ Then(<<>>)
    /\ UNCHANGED <<connVars, gens, dgen, wire, heard>>

(* Only a stream in commit mode loses its send half to a STOP_SENDING.     *)
Stopped(e) == [e EXCEPT !.send = @ /\ ~e.commit, !.fin = @ /\ ~e.commit]

(* wtq_conn_on_stop_sending on a WT stream.                                *)
OnStopSending(d) ==
    /\ Idle /\ ~closed /\ Linked(d) /\ ~gone[d] /\ tx[d] \in {"open", "fin"}
    /\ LET s == ectx[d]  commit == slot[s].commit IN
       /\ slot[s].kind = "WT"
       /\ slot' = [slot EXCEPT ![s] = Stopped(slot[s])]
       /\ tx' = IF commit THEN [tx EXCEPT ![d] = "ended"] ELSE tx
       /\ IF commit THEN Hear(s, "stop") ELSE UNCHANGED heard
       /\ Enter(<<App>> \o IF commit THEN <<CallOn("settle_same", s, {})>>
                                     ELSE <<>>)
    /\ UNCHANGED <<connVars, gens, ectx, dgen, rx, gone, held>>

(* The conditions of wtq_conn_on_stream_send_shutdown_v1 on the stream.    *)
CommitDue(e, d, graceful) ==
    /\ e.kind = "WT" /\ e.ds = d /\ e.gen = dgen[d]
    /\ e.commit /\ e.local /\ ~e.bidi /\ (graceful => e.fin)

(* The transport finished the send half: all of it was acknowledged        *)
(* (graceful), or it was lost.                                             *)
OnSendShutdown(d, graceful) ==
    /\ Idle /\ ~closed /\ sess = "active" /\ Linked(d)
    /\ tx[d] \in {"open", "fin"} /\ (graceful => tx[d] = "fin")
    /\ LET s == ectx[d] IN
       /\ CommitDue(slot[s], d, graceful)
       /\ slot' = [slot EXCEPT ![s] = [@ EXCEPT !.fin = FALSE,
                                              !.send = FALSE]]
       /\ Hear(s, IF graceful THEN "committed" ELSE "terminal")
       /\ Enter(<<App, CallOn("settle_same", s, {})>>)
    /\ tx' = [tx EXCEPT ![d] = "ended"]
    /\ UNCHANGED <<connVars, gens, ectx, dgen, rx, gone, held>>

(* The transport stream ends whole; inside a driver call, too.  The        *)
(* Network backend drops a held FIN then, MsQuic keeps it.                 *)
TransportGone(d) ==
    /\ Idle \/ At("app")
    /\ ~gone[d] /\ (tx[d] /= "none" \/ rx[d] /= "none")
    /\ gone' = [gone EXCEPT ![d] = TRUE]
    /\ held' = [held EXCEPT ![d] = @ /\ Budgeted]
    /\ UNCHANGED <<connVars, slot, gens, ectx, dgen, tx, rx, agenda, heard>>

(* Mutant: a stream with no live half left is not reported.                *)
ReportTerminalLive(d) ==
    /\ Idle /\ ~closed /\ gone[d] /\ ~held[d] /\ Linked(d)
    /\ slot[ectx[d]].kind = "WT" /\ LiveHalves(slot[ectx[d]]) /= {}
    /\ Enter(<<CallFor("terminal", d)>>)
    /\ UNCHANGED <<connVars, slot, gens, ectx, dgen, wire, heard>>
(* The backend reports that end from a dispatch root, and not before a     *)
(* held FIN went out.                                                      *)
ReportTerminal(d) ==
    /\ Idle /\ ~closed /\ gone[d] /\ ~held[d] /\ Linked(d)
    /\ slot[ectx[d]].kind \in {"WT", "DRAIN"}
    /\ Enter(<<CallFor("terminal", d)>>)
    /\ UNCHANGED <<connVars, slot, gens, ectx, dgen, wire, heard>>

(* wtq_conn_on_stream_terminal, reported or met by a resume: the halves    *)
(* close at once, the application hears of it if one was still live, and   *)
(* the slot is released.                                                   *)
OnStreamTerminal ==
    /\ At("terminal")
    /\ LET d == This.d  s == ectx[d] IN
       \/ /\ \/ closed \/ held[d] \/ ~Linked(d)
             \/ Linked(d) /\ slot[s].kind = "TYPE"
          /\ Then(<<>>)
          /\ UNCHANGED <<slot, ectx, heard>>
       \/ /\ ~closed /\ ~held[d] /\ Linked(d) /\ slot[s].kind = "DRAIN"
          /\ Release(s)
          /\ Then(<<>>)
          /\ UNCHANGED heard
       \/ /\ ~closed /\ ~held[d] /\ Linked(d) /\ slot[s].kind = "WT"
          /\ slot' = [slot EXCEPT ![s] = [@ EXCEPT !.send = FALSE, !.fin = FALSE,
                                                 !.recv = FALSE, !.drain = FALSE]]
          /\ IF LiveHalves(slot[s]) /= {}
             THEN Hear(s, "terminal") /\ Then(<<App, CallOn("release", s, {})>>)
             ELSE UNCHANGED heard /\ Then(<<CallOn("release", s, {})>>)
          /\ UNCHANGED ectx
    /\ UNCHANGED <<connVars, gens, dgen, wire>>

TerminalRelease ==
    /\ At("release")
    /\ Release(This.s)
    /\ Then(<<>>)
    /\ UNCHANGED <<connVars, gens, dgen, wire, heard>>

-----------------------------------------------------------------------------
(* Operations of the application on a stream.                              *)

(* wtq_conn_wt_send; sends may complete inline.  A refused send changes    *)
(* nothing.                                                                *)
WtSend(s, fin) ==
    /\ AppMay /\ ~closed /\ sess /= "ended"
    /\ slot[s].kind = "WT" /\ slot[s].send /\ tx[slot[s].ds] = "open"
    /\ tx' = IF fin THEN [tx EXCEPT ![slot[s].ds] = "fin"] ELSE tx
    /\ Enter(<<App, CallOn("send_done", s, IF fin THEN {"fin"} ELSE {})>>)
    /\ UNCHANGED <<connVars, slot, gens, ectx, dgen, rx, gone, held, heard>>

WtSent ==
    /\ At("send_done")
    /\ LET s == This.s  e == slot[s] IN
       \/ /\ SameStream /\ "fin" \in This.x
          /\ Settle(s, [e EXCEPT !.sent = TRUE, !.send = FALSE,
                                 !.fin = e.commit])
       \/ /\ SameStream /\ "fin" \notin This.x
          /\ slot' = [slot EXCEPT ![s] = [e EXCEPT !.sent = TRUE]]
          /\ UNCHANGED ectx
       \/ ~SameStream /\ UNCHANGED <<slot, ectx>>
    /\ Then(<<>>)
    /\ UNCHANGED <<connVars, gens, dgen, wire, heard>>

(* wt_shutdown of the halves h (wt_reset, wt_stop, wt_abort, wt_reject):   *)
(* they must be open, and one half of a fully open bidi stream needs the   *)
(* driver's capability.  A driver error is fatal; a dead transport changes *)
(* nothing.                                                                *)
WtShutdown(s, h) ==
    LET e == slot[s] IN
    /\ AppMay /\ ~closed /\ e.kind = "WT" /\ Reachable(e.ds)
    /\ h /= {} /\ h \subseteq LiveHalves(e)
    /\ (e.bidi /\ e.send /\ e.recv /\ h /= Halves) => h \subseteq ShutCaps
    /\ WireShut(e.ds, h)
    /\ IF "recv" \in h THEN Hear(s, "app_stop") ELSE UNCHANGED heard
    /\ \/ Enter(<<App, CallOn("shutdown_done", s, h)>>)
       \/ Enter(<<App, Call("conn_fatal")>>)
    /\ UNCHANGED <<connVars, slot, gens, ectx, dgen>>

WtShutdownDone ==
    /\ At("shutdown_done")
    /\ IF SameStream THEN Settle(This.s, Shut(slot[This.s], This.x))
                     ELSE UNCHANGED <<slot, ectx>>
    /\ Then(<<>>)
    /\ UNCHANGED <<connVars, gens, dgen, wire, heard>>

(* wtq_conn_wt_enable_send_commit; only the MsQuic driver has the          *)
(* capability.                                                             *)
EnableSendCommit(s) ==
    LET e == slot[s] IN
    /\ AppMay /\ Budgeted /\ ~closed /\ sess = "active"
    /\ e.kind = "WT" /\ e.local /\ ~e.bidi /\ e.send /\ ~e.sent /\ ~e.commit
    /\ slot' = [slot EXCEPT ![s] = [@ EXCEPT !.commit = TRUE]]
    /\ UNCHANGED <<connVars, gens, ectx, dgen, wire, agenda, heard>>

(* wtq_conn_wt_recv_enable.  The flag is published before the driver runs: *)
(* a resume replays a held FIN, and reports a stream that ended meanwhile, *)
(* before the driver returns.  A failing driver leaves all as it was.      *)
RecvEnable(s, on) ==
    LET d == slot[s].ds IN
    /\ AppMay /\ ~closed /\ slot[s].kind = "WT" /\ slot[s].recv
    /\ Reachable(d)
    /\ slot' = [slot EXCEPT ![s] = [@ EXCEPT !.paused = ~on]]
    /\ held' = [held EXCEPT ![d] = @ /\ ~on]
    /\ Enter((IF on /\ held[d] THEN <<CallFor("input_fin", d)>> ELSE <<>>)
             \o (IF on /\ gone[d] THEN <<CallFor("terminal", d)>> ELSE <<>>))
    /\ UNCHANGED <<connVars, gens, ectx, dgen, tx, rx, gone, heard>>

-----------------------------------------------------------------------------
(* Every step of the connection's one thread of control.                   *)

EngineStep ==
    \/ AppReturns \/ ConnFatal \/ SessionClosed \/ Teardown \/ Torn
    \/ WtOpened \/ Input \/ More \/ FinDelivered
    \/ SettleAfterReset \/ SettleIfSame \/ OnStreamTerminal \/ TerminalRelease
    \/ WtSent \/ WtShutdownDone

BackendInput ==
    \/ Establish \/ OnConnLost
    \/ \E d \in DStreams :
         \/ \E b \in Directions : OnPeerOpened(d, b)
         \/ \E b \in BOOLEAN : OnSendShutdown(d, b)
         \/ WtAssociate(d) \/ Retire(d) \/ OnStreamBytes(d) \/ OnEarlyFin(d)
         \/ OnStreamReset(d) \/ OnStopSending(d) \/ TransportGone(d)
         \/ ReportTerminal(d)

AppOperation ==
    \/ SessionEnds
    \/ \E s \in Slots :
         \/ \E b \in Directions : WtOpen(s, b)
         \/ \E b \in BOOLEAN : WtSend(s, b) \/ RecvEnable(s, b)
         \/ \E h \in SUBSET Halves : WtShutdown(s, h)
         \/ EnableSendCommit(s)

Next == EngineStep \/ BackendInput \/ AppOperation

(* The engine runs its calls to their end and the application returns from *)
(* each of its callbacks, however many calls it makes there; the backend   *)
(* reports a stream's end, and frees the object of a finished stream, at   *)
(* each of its dispatch roots.                                             *)
Fairness ==
    /\ WF_vars(EngineStep)
    /\ \A n \in 1..MaxDepth : SF_vars(AppReturns /\ Len(agenda) = n)
    /\ \A d \in DStreams : SF_vars(ReportTerminal(d)) /\ SF_vars(Retire(d))

Spec == Init /\ [][Next]_vars /\ Fairness

-----------------------------------------------------------------------------
(* Properties.                                                             *)

InUse == {"TYPE", "WT", "DRAIN"}
Kinds == InUse \cup {"FREE", "RESERVED"}
Estream == [kind : Kinds, ds : DStreams \cup {NoDs}, gen : Nat,
            local : BOOLEAN, bidi : BOOLEAN, send : BOOLEAN, recv : BOOLEAN,
            drain : BOOLEAN, fin : BOOLEAN, commit : BOOLEAN,
            sent : BOOLEAN, paused : BOOLEAN, resident : BOOLEAN]

(* Frames that carry a slot, and frames that carry a stream object.        *)
SlotOps == {"torn", "wt_open", "more", "fin_delivered", "settle",
            "settle_same", "release", "send_done", "shutdown_done"}
StreamOps == {"input", "input_fin", "terminal"}
PlainOps == {"app", "conn_fatal", "session_closed", "teardown"}
Marks == {"fin", "reset", "stop", "committed", "terminal", "app_stop",
          "session", "late"}
Frame ==
    [op : SlotOps, s : Slots, g : Nat, d : DStreams \cup {NoDs},
     x : SUBSET (Slots \cup Halves \cup {"fin"})]
    \cup [op : StreamOps, s : {NoSlot}, g : Nat, d : DStreams, x : {{}}]
    \cup [op : PlainOps, s : {NoSlot}, g : Nat, d : {NoDs}, x : SUBSET Slots]

(* Every variable keeps its type: every call on the stack names a slot or  *)
(* a stream object of this connection, and no stream has a generation that *)
(* conn->stream_generation has not reached.                                *)
TypeOK ==
    /\ closed \in BOOLEAN /\ sess \in {"none", "active", "ended"}
    /\ slot \in [Slots -> Estream] /\ gens \in Nat
    /\ ectx \in [DStreams -> Slots \cup {NoSlot}]
    /\ dgen \in [DStreams -> Nat]
    /\ \A s \in Slots : slot[s].gen <= gens
    /\ tx \in [DStreams -> {"none", "open", "fin", "ended"}]
    /\ rx \in [DStreams -> {"none", "open", "stopped", "ended"}]
    /\ gone \in [DStreams -> BOOLEAN] /\ held \in [DStreams -> BOOLEAN]
    /\ agenda \in Seq(Frame) /\ heard \in [Slots -> SUBSET Marks]

(* The link that estream_release severs before a slot is reused.  While    *)
(* the backend holds a link from stream object d to slot s, the slot is in *)
(* use, for d, in the generation the backend noted: no event of an older   *)
(* stream ever reaches the slot's next occupant.  And a slot in use has    *)
(* its link: the event that will release it can reach it.                  *)
LinkIntegrity ==
    /\ \A d \in DStreams : Linked(d) =>
         /\ slot[ectx[d]].kind \in InUse
         /\ slot[ectx[d]].ds = d
         /\ slot[ectx[d]].gen = dgen[d]
    /\ \A s \in Slots : slot[s].kind \in InUse =>
         slot[s].ds \in DStreams /\ ectx[slot[s].ds] = s

(* Whenever no call is running, the engine's view of a live stream's send  *)
(* half is the transport's: open in both, or closed in both, and a FIN the *)
(* engine waits for (wt_fin_pending) was really sent.  Sends and shutdowns *)
(* nested in each other's callbacks must not disturb it.                   *)
SendHalvesAgree ==
    (Idle /\ ~closed) => \A s \in Slots :
        LET e == slot[s] IN
        (e.kind = "WT" /\ ~gone[e.ds]) =>
            /\ e.send <=> tx[e.ds] = "open"
            /\ e.fin => tx[e.ds] = "fin"

(* The same for the receive half; and the engine waits for the answer to a *)
(* STOP_SENDING (wt_recv_drain) exactly while one can still come: a drain  *)
(* that nothing answers would keep the slot for ever.                      *)
RecvHalvesAgree ==
    (Idle /\ ~closed) => \A s \in Slots :
        LET e == slot[s] IN
        (e.kind = "WT" /\ ~gone[e.ds]) =>
            /\ e.recv <=> rx[e.ds] = "open"
            /\ e.drain <=> rx[e.ds] = "stopped"

(* wt_release_if_done is called everywhere it must be: when no call is     *)
(* running no finished stream keeps its slot, and once the session is over *)
(* (session_closed) the streams that remain only wait for their drains.    *)
NoStrandedStream ==
    (Idle /\ ~closed) => \A s \in Slots : slot[s].kind = "WT" =>
        /\ LiveHalves(slot[s]) /= {} \/ slot[s].drain
        /\ sess = "ended" => LiveHalves(slot[s]) = {}

(* The order of a stream's callbacks (wt_deliver, on_stream_reset,         *)
(* on_stream_terminal, send_shutdown_v1): no data after the end of the     *)
(* receive half, after the application stopped it, while it is paused or   *)
(* after on_session_closed; one end of the receive half; one outcome of a  *)
(* committed send.                                                         *)
CallbacksInOrder == \A s \in Slots : "late" \notin heard[s]

(* Engine, transport and application have the same idea of each stream.    *)
StreamsAgree == SendHalvesAgree /\ RecvHalvesAgree /\ CallbacksInOrder

(* A FIN the backend holds back (recv_enable) is held only for a stream    *)
(* whose application asked for the pause and still waits for it: a resume  *)
(* never leaves it behind, and no shutdown leaves it in the way of the     *)
(* stream's end.                                                           *)
HeldOnlyWhilePaused ==
    (Idle /\ ~closed) => \A d \in DStreams : (held[d] /\ Linked(d)) =>
        slot[ectx[d]].paused /\ slot[ectx[d]].recv

(* Admission mode: a native stream belongs to one slot from its open until *)
(* wtq_conn_stream_retire_v2, so there are never more of them than slots.  *)
PoolBound ==
    Budgeted => \A d \in DStreams : tx[d] /= "none" =>
        \E s \in Slots : slot[s].ds = d /\ slot[s].resident

(* Admission mode keeps its books: held FINs and slots of the pool.        *)
BudgetHonoured == StreamsAgree /\ HeldOnlyWhilePaused /\ PoolBound

(* A stream that ended whole gives its object and its slot back, unless    *)
(* the application keeps a FIN waiting by a pause or the connection dies:  *)
(* whatever state its halves were in, drains included.                     *)
EndedStreamFreed ==
    \A d \in DStreams : gone[d] ~> (~gone[d] \/ held[d] \/ closed)
=============================================================================
