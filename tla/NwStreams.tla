----------------------------- MODULE NwStreams ------------------------------
(***************************************************************************)
(* The streams of the Network.framework backend                            *)
(* (src/backends/network/nw_conn.c): the stream shells, their two-stage    *)
(* ready, the send chain with its two-phase records, the one receive that  *)
(* may be held while paused, stamped cancels, the orderly shutdown that    *)
(* waits for accepted bytes, and the two-turn reap.                        *)
(*                                                                         *)
(* Everything runs on the connection's serial queue.  `w' is the backend's *)
(* memory: the driver, the shells, the datagram flow, the send batches in  *)
(* the hands of Network.framework, the blocks the backend queued, and the  *)
(* call stack, a frame per function that still has to run with the         *)
(* application on top when it was called back.  A function that calls no   *)
(* callback is an operator from one w to the next; one that does is cut    *)
(* into frames.  Network.framework's own callbacks come between blocks.    *)
(***************************************************************************)
EXTENDS Integers, Sequences, FiniteSets, FiniteSetsExt, SequencesExt

CONSTANTS
    Shells,        \* memory for struct wtq_dstream
    Connect,       \* the shell of the CONNECT stream
    NumRecs,       \* WTQ_NW_SEND_RECORDS
    MaxBytes,      \* WTQ_NW_SEND_BYTES_MAX
    Sizes,         \* sizes of gather sends
    MaxSends,      \* bound on accepted sends
    MaxRecv,       \* bound on receive completions
    MaxOpens,      \* bound on streams opened
    MaxDgrams,     \* bound on datagrams in flight, 32 in op_dgram_send
    MaxDepth,      \* bound on the stack under a nested application call
    Uses,          \* bound: what happens in one behaviour, a set of sets
    RetryCanceled  \* the application sends from a canceled completion

ASSUME ShellAssumption == Connect \in Shells /\ IsFiniteSet(Shells)
ASSUME SendAssumption ==
    /\ NumRecs \in Nat \ {0} /\ MaxBytes \in Nat /\ Sizes \subseteq Nat
    /\ MaxSends \in Nat /\ MaxRecv \in Nat /\ MaxDgrams \in Nat
    /\ MaxDepth \in Nat /\ MaxOpens \in Nat
ASSUME UseAssumption ==
    /\ Uses \subseteq SUBSET {"send", "wide", "peer", "pause", "reset", "close",
                    "bye", "fail", "drop", "meta", "stop", "oom", "dgram"}
    /\ RetryCanceled \in BOOLEAN

VARIABLES
    use,     \* what the application and the network do in this behaviour
    eng,     \* the engine: "open", "done" (orderly terminal) or "fatal"
    w,       \* the backend's memory
    sent,    \* history: sends accepted so far
    told,    \* history: completions delivered per send
    recvs,   \* history: receive completions so far
    opens    \* history: data streams opened so far

vars == <<use, eng, w, sent, told, recvs, opens>>

Recs == 1..NumRecs
FreeRec == [used |-> FALSE, app |-> TRUE, tr |-> TRUE, bytes |-> 0, n |-> 0,
            fin |-> FALSE]
NoHold == [on |-> FALSE, left |-> 0, fin |-> FALSE, err |-> FALSE]
(* The halves of the engine's stream, all over.                            *)
NoHalves == [send |-> FALSE, fin |-> FALSE, recv |-> FALSE, drain |-> FALSE]

(* ds_new: what a shell starts with.  `es' is the engine's side of the     *)
(* stream, `nw' the state of the nw_connection; `alone' is a history: the   *)
(* send that was refused is too large and no other was under way.          *)
ds_new(local, bidi) ==
    [live |-> TRUE, local |-> local, bidi |-> bidi, conn |-> TRUE,
     ectx |-> FALSE, known |-> FALSE, detached |-> FALSE, es |-> NoHalves,
     ready_seen |-> FALSE, ready |-> FALSE, recheck |-> FALSE,
     failed |-> FALSE, terminal |-> FALSE, cancel |-> FALSE,
     cancel_deferred |-> FALSE, enabled |-> TRUE, rpend |-> FALSE,
     ended |-> FALSE, hold |-> NoHold, delivering |-> FALSE,
     fin |-> FALSE, reset |-> FALSE, blocked |-> FALSE, alone |-> FALSE,
     pend |-> <<>>,
     inflight |-> FALSE, recs |-> [r \in Recs |-> FreeRec],
     scheduled |-> FALSE, handler |-> TRUE, nw |-> "preparing"]
EmptyShell == [ds_new(FALSE, FALSE) EXCEPT !.live = FALSE, !.conn = FALSE,
                                           !.nw = "none"]
(* The CONNECT stream of an established session.                           *)
ConnectShell ==
    [ds_new(TRUE, TRUE) EXCEPT !.ectx = TRUE, !.known = TRUE,
        !.ready_seen = TRUE, !.ready = TRUE, !.rpend = TRUE, !.nw = "ready"]
(* The datagram flow as the group's ready handler extracts it.             *)
Dgram(on) == [conn |-> on, ready |-> FALSE, terminal |-> FALSE,
              cancel |-> FALSE, rpend |-> FALSE, inflight |-> 0,
              scheduled |-> FALSE, handler |-> on,
              nw |-> IF on THEN "preparing" ELSE "none"]

Init ==
    /\ use \in Uses
    /\ eng = "open"
    /\ w = [drv |-> [session |-> TRUE, shutdown |-> FALSE, flush |-> FALSE,
                     terminal |-> FALSE, fed |-> FALSE, rundown |-> FALSE,
                     done |-> FALSE, group |-> "ready"],
            streams |-> <<Connect>>,
            ds |-> [s \in Shells |-> IF s = Connect THEN ConnectShell
                                                    ELSE EmptyShell],
            dg |-> Dgram("dgram" \in use),
            batches |-> {}, queue |-> <<>>, stack |-> <<>>]
    /\ sent = 0 /\ told = [n \in 1..MaxSends |-> 0] /\ recvs = 0
    /\ opens = 0

-----------------------------------------------------------------------------
(* The stack and the queue.                                                *)

Frame(k, s) == [k |-> k, s |-> s, i |-> 0, b |-> 0, flag |-> FALSE,
                canceled |-> FALSE]
(* An application callback; `leave' when the bracket ends with it, that    *)
(* is, when nw_leave_and_poll follows.                                     *)
App(leave) == [Frame("app", Connect) EXCEPT !.flag = leave]
Completion(canceled) == [App(TRUE) EXCEPT !.canceled = canceled]

Idle == w.stack = <<>>
At(k) == w.stack /= <<>> /\ Head(w.stack).k = k
This == Head(w.stack)
Pop(v) == [v EXCEPT !.stack = Tail(@)]
Push(v, fs) == [v EXCEPT !.stack = fs \o @]
Set(v, s, d) == [v EXCEPT !.ds[s] = d]
dispatch_async(v, k, s) == [v EXCEPT !.queue = Append(@, [k |-> k, s |-> s])]
AppMay == Idle \/ (At("app") /\ Len(w.stack) < MaxDepth)

-----------------------------------------------------------------------------
(* Lifetime of a shell.                                                    *)

Pending(d) == {r \in Recs : d.recs[r].used /\ ~d.recs[r].app}
Unretired(d) == {r \in Recs : ~d.recs[r].tr}
Batches(v, s) == {b \in v.batches : b.s = s}

ds_reap_eligible(v, s) ==
    LET d == v.ds[s] IN
    /\ d.terminal /\ ~d.rpend /\ ~d.recheck
    /\ Unretired(d) = {} /\ Pending(d) = {} /\ Batches(v, s) = {}

ds_maybe_free(v, s) ==
    IF v.ds[s].scheduled \/ ~ds_reap_eligible(v, s) THEN v
    ELSE dispatch_async([v EXCEPT !.ds[s].scheduled = TRUE], "reap1", s)

(* The block of ds_maybe_free, and ds_reap_phase1.                         *)
ds_reap_phase1(v, s) ==
    IF ds_reap_eligible(v, s)
    THEN dispatch_async([v EXCEPT !.ds[s].handler = FALSE], "reap2", s)
    ELSE [v EXCEPT !.ds[s].scheduled = FALSE]

(* Freed memory, with the pointers to it that others would still have: an  *)
(* outstanding receive's, and the engine's until it heard of the close.    *)
Freed(d, fed) == [EmptyShell EXCEPT !.rpend = d.rpend,
                                    !.ectx = d.ectx /\ ~fed]
(* Mutant: the engine's link does not keep the shell.                      *)
EngineForgotten(v, s) == FALSE
(* The engine may still name this shell.                                   *)
EngineMayName(v, s) ==
    v.ds[s].known /\ ~v.ds[s].detached /\ ~v.drv.fed
(* The block of ds_reap_phase1, and ds_reap_phase2.                        *)
ds_reap_phase2(v, s) ==
    IF ~ds_reap_eligible(v, s) \/ v.ds[s].handler
    THEN [v EXCEPT !.ds[s].scheduled = FALSE]
    ELSE IF EngineMayName(v, s)
    THEN [v EXCEPT !.ds[s].hold = NoHold, !.ds[s].conn = FALSE,
                   !.ds[s].scheduled = FALSE]
    ELSE [v EXCEPT !.ds[s] = Freed(@, v.drv.fed),
                   !.streams = SelectSeq(@, LAMBDA t : t /= s)]

op_detach(v, s) ==
    IF ~v.ds[s].ectx THEN v
    ELSE ds_maybe_free([v EXCEPT !.ds[s].ectx = FALSE,
                                 !.ds[s].detached = TRUE], s)

(* The engine releases a data stream whose halves are all over.            *)
Settle(v, s) ==
    IF s /= Connect /\ v.ds[s].ectx /\ v.ds[s].es = NoHalves
    THEN op_detach(v, s) ELSE v

-----------------------------------------------------------------------------
(* Closing the connection.                                                 *)

nw_connection_cancel(d) == [d EXCEPT !.cancel = TRUE]
Cancelable(d) == d.conn /\ ~d.terminal /\ ~d.cancel
CancelAll(v) ==
    [v EXCEPT !.ds = [s \in Shells |->
                        IF s \in Range(v.streams) /\ Cancelable(v.ds[s])
                        THEN nw_connection_cancel(v.ds[s]) ELSE v.ds[s]]]
CancelDgram(v) ==
    IF v.dg.conn /\ ~v.dg.terminal /\ ~v.dg.cancel
    THEN [v EXCEPT !.dg.cancel = TRUE] ELSE v

op_conn_close(v) ==
    IF v.drv.shutdown THEN v
    ELSE [CancelDgram(CancelAll(v)) EXCEPT
            !.drv.shutdown = TRUE,
            !.drv.group = IF @ = "ready" THEN "cancelling" ELSE @]

drv_sends_owed(v) ==
    \E s \in Range(v.streams) :
        /\ Cancelable(v.ds[s])
        /\ v.ds[s].inflight \/ (v.ds[s].pend /= <<>> /\ v.ds[s].ready)

conn_poll_deferred_shutdown(v) ==
    IF ~v.drv.flush \/ v.drv.shutdown \/ drv_sends_owed(v) THEN v
    ELSE op_conn_close([v EXCEPT !.drv.flush = FALSE])

(* Mutant: an orderly terminal closes at once.                             *)
PollClosesAtOnce(v) ==
    IF v.drv.shutdown \/ ~v.drv.session \/ eng = "open" THEN v
    ELSE op_conn_close(v)
conn_poll_shutdown(v) ==
    IF v.drv.shutdown \/ ~v.drv.session \/ eng = "open" THEN v
    ELSE IF eng = "done" /\ drv_sends_owed(v)
         THEN [v EXCEPT !.drv.flush = TRUE]
         ELSE op_conn_close(v)
nw_leave_and_poll(v) == conn_poll_shutdown(v)

-----------------------------------------------------------------------------
(* The send chain.                                                         *)

Entry(rec, fin) == [rec |-> rec, fin |-> fin]
NoRec == 0
ds_drop_pending_sends(v, s) == [v EXCEPT !.ds[s].pend = <<>>]

(* ds_pump_sends when the data cannot be concatenated: nothing was issued. *)
PumpFails(v, s) == op_conn_close(ds_drop_pending_sends(v, s))

MayPump(d) == ~d.inflight /\ d.ready /\ ~d.terminal /\ ~d.cancel /\ d.conn
(* The entries one submission takes: until it carries NumRecs records.     *)
Taken(pend) ==
    LET recsIn(k) == Cardinality({i \in 1..k : pend[i].rec /= NoRec})
    IN Max({k \in 0..Len(pend) : k = 0 \/ recsIn(k - 1) < NumRecs})
BatchId(v, s) ==
    CHOOSE i \in 1..(Cardinality(v.batches) + 1) :
        \A b \in v.batches : b.s = s => b.id /= i
ds_pump_sends(v, s) ==
    LET d == v.ds[s]
        n == Taken(d.pend)
        recs == SelectSeq([i \in 1..n |-> d.pend[i].rec],
                          LAMBDA r : r /= NoRec)
        b == [s |-> s, id |-> BatchId(v, s), recs |-> recs,
              done |-> FALSE, ret |-> FALSE]
    IN IF ~MayPump(d) \/ d.pend = <<>> THEN v
       ELSE [v EXCEPT
               !.ds[s].pend = SubSeq(@, n + 1, Len(@)),
               !.ds[s].inflight = TRUE,
               !.ds[s].recs = [r \in Recs |-> IF r \in Range(recs)
                                 THEN [@[r] EXCEPT !.tr = FALSE] ELSE @[r]],
               !.batches = @ \cup {b}]
ds_enqueue_send(v, s, rec, fin) ==
    [v EXCEPT !.ds[s].pend = Append(@, Entry(rec, fin))]

Dead(d) == d.terminal \/ d.cancel \/ ~d.conn
op_send(v, s, fin) ==
    IF Dead(v.ds[s]) THEN v
    ELSE ds_pump_sends(ds_enqueue_send(v, s, NoRec, fin), s)

FreeRecs(d) == {r \in Recs : ~d.recs[r].used}
NoneUnderWay(d) == \A r \in Recs : d.recs[r].app /\ d.recs[r].tr
Window(d) == FoldSet(LAMBDA r, acc : acc + d.recs[r].bytes, 0, Pending(d))
Accepts(d, bytes) ==
    ~Dead(d) /\ FreeRecs(d) /= {} /\ Window(d) + bytes <= MaxBytes
(* op_send_gather, accepted: `n' is the application's cookie.              *)
Gathered(v, s, bytes, fin, n) ==
    LET r == Min(FreeRecs(v.ds[s]))
        d == [v.ds[s] EXCEPT
                !.recs[r] = [used |-> TRUE, app |-> FALSE, tr |-> TRUE,
                             bytes |-> bytes, n |-> n, fin |-> fin]]
    IN ds_enqueue_send(Set(v, s, d), s, r, fin)
(* ds_pump_sends, which finds no memory when the application's use says so.*)
Pumps(v, s) ==
    {ds_pump_sends(v, s)}
    \cup IF "oom" \in use /\ MayPump(v.ds[s]) /\ v.ds[s].pend /= <<>>
         THEN {PumpFails(v, s)} ELSE {}

(* Mutant: the application's phase is enough.                              *)
FreeSlotEarly(v, s, r) ==
    IF v.ds[s].recs[r].app
    THEN [v EXCEPT !.ds[s].recs[r].used = FALSE] ELSE v
(* A slot is reused once both phases of its record are over.               *)
FreeSlot(v, s, r) ==
    IF v.ds[s].recs[r].app /\ v.ds[s].recs[r].tr
    THEN [v EXCEPT !.ds[s].recs[r].used = FALSE] ELSE v
(* rec_app_complete, for a record that still owes its completion.          *)
rec_app_complete(v, s, r, canceled) ==
    LET d == v.ds[s]
        edge == d.blocked /\ ~d.terminal /\ ~d.cancel
        e == [d EXCEPT !.recs[r].app = TRUE, !.blocked = @ /\ ~edge,
                       !.es.fin = @ /\ ~d.recs[r].fin]
    IN IF v.drv.session
       THEN Push(Settle(Set(v, s, e), s), <<Completion(canceled)>>)
       ELSE Set(v, s, e)
Tell(s, r) ==
    told' = IF w.drv.session THEN [told EXCEPT ![w.ds[s].recs[r].n] = @ + 1]
                             ELSE told

(* The frames of a loop over records: `i' of them are over.                *)
Synth(s) == Frame("synth", s)
Fan(b, canceled) == [Frame("fan", b.s) EXCEPT !.b = b.id, !.flag = canceled]
Next1(v) == [v EXCEPT !.stack[1].i = @ + 1]

(* The loop in ds_synthesize_completions, up to the next record that still *)
(* owes its completion.                                                    *)
ds_synthesize_completions ==
    /\ At("synth")
    /\ LET s == This.s
           owing == {r \in Pending(w.ds[s]) : r > This.i}
           next == IF owing = {} THEN NumRecs + 1 ELSE Min(owing)
           passed == {r \in Recs : This.i <= r /\ r < next}
           v == FoldSet(LAMBDA r, u : FreeSlot(u, s, r), w, passed)
       IN IF owing = {}
          THEN w' = Pop(v) /\ UNCHANGED told
          ELSE /\ w' = rec_app_complete([v EXCEPT !.stack[1].i = next],
                                        s, next, TRUE)
               /\ Tell(s, next)
    /\ UNCHANGED <<use, eng, sent, recvs, opens>>

(* Network.framework completed a submission: batch_on_complete begins.     *)
batch_on_complete(b) ==
    /\ Idle /\ b \in w.batches /\ ~b.done
    /\ \E canceled \in {w.ds[b.s].cancel, FALSE} :
          w' = Push([w EXCEPT !.ds[b.s].inflight = FALSE],
                    <<Fan(b, canceled)>>)
    /\ UNCHANGED <<use, eng, sent, told, recvs, opens>>

(* The first phase of a batch is over; the second frees it.                *)
Phase(v, b, c) ==
    [v EXCEPT !.batches = (@ \ {b}) \cup IF c.done /\ c.ret THEN {} ELSE {c}]
(* Its loop: the completions, one by one, then the next submission.        *)
batch_fans_out ==
    /\ At("fan")
    /\ LET s == This.s
           b == CHOOSE x \in w.batches : x.s = s /\ x.id = This.b
           i == This.i
           v == IF i = 0 THEN w ELSE FreeSlot(w, s, b.recs[i])
       IN IF i < Len(b.recs)
          THEN LET r == b.recs[i + 1] IN
               IF w.ds[s].recs[r].app
               THEN w' = Next1(v) /\ UNCHANGED told
               ELSE w' = rec_app_complete(Next1(v), s, r, This.flag)
                    /\ Tell(s, r)
          ELSE /\ \E u \in Pumps(Pop(Phase(v, b, [b EXCEPT !.done = TRUE])),
                                s) :
                     w' = ds_maybe_free(conn_poll_deferred_shutdown(u), s)
               /\ UNCHANGED told
    /\ UNCHANGED <<use, eng, sent, recvs, opens>>

RetireWakes(v, s, freed) ==
    freed /\ v.ds[s].blocked /\ ~v.ds[s].terminal /\ ~v.ds[s].cancel
    /\ v.ds[s].ectx /\ v.drv.session
Retired(v, s, rs) ==
    [v EXCEPT !.ds[s].recs = [r \in Recs |-> IF r \in rs
        THEN [@[r] EXCEPT !.tr = TRUE, !.used = ~v.ds[s].recs[r].app]
        ELSE @[r]]]
batch_on_retire(b) ==
    /\ Idle /\ b \in w.batches /\ ~b.ret
    /\ LET s == b.s
           rs == Range(b.recs)
           freed == \E r \in rs : w.ds[s].recs[r].app
           v == Phase(Retired(w, s, rs), b, [b EXCEPT !.ret = TRUE])
       IN w' = IF RetireWakes(w, s, freed)
               THEN Push([v EXCEPT !.ds[s].blocked = FALSE],
                         <<App(TRUE), Frame("free", s)>>)
               ELSE ds_maybe_free(v, s)
    /\ UNCHANGED <<use, eng, sent, told, recvs, opens>>

(* What is left of a callback after the application returned to it.        *)
reap_armed ==
    /\ At("free")
    /\ w' = ds_maybe_free(Pop(w), This.s)
    /\ UNCHANGED <<use, eng, sent, told, recvs, opens>>

-----------------------------------------------------------------------------
(* The receive side.                                                       *)

Dying(d) == d.terminal \/ d.cancel \/ d.cancel_deferred \/ d.failed
ds_arm_receive(v, s) ==
    LET d == v.ds[s] IN
    IF \/ d.rpend \/ d.hold.on \/ d.delivering \/ ~d.conn \/ ~d.enabled
       \/ d.fin \/ d.ended \/ Dying(d)
    THEN v ELSE [v EXCEPT !.ds[s].rpend = TRUE]
ds_drop_deferred(v, s) == [v EXCEPT !.ds[s].hold = NoHold]

(* ds_deliver_bytes begins: the rest is the frame "deliver".               *)
ds_deliver_bytes(v, s) ==
    LET d == v.ds[s] IN
    IF d.delivering \/ ~d.hold.on THEN v
    ELSE IF ~v.drv.session \/ ~d.ectx THEN ds_drop_deferred(v, s)
    ELSE Push([v EXCEPT !.ds[s].delivering = TRUE], <<Frame("deliver", s)>>)

DeliveryOver(v, s) == [v EXCEPT !.ds[s].delivering = FALSE]
(* ds_deliver_bytes ends; what is blocked stays held.                      *)
DeliveryEnds(blocked) ==
    LET s == This.s
        v == Pop(IF blocked THEN w ELSE ds_drop_deferred(w, s))
    IN w' = nw_leave_and_poll(DeliveryOver(v, s))
(* The engine takes a piece of the content, the FIN with the last one.     *)
Consumed(v, s) ==
    LET h == v.ds[s].hold
        last == h.fin /\ h.left <= 1
        u == [v EXCEPT !.ds[s].hold.left = IF @ > 0 THEN @ - 1 ELSE 0,
                       !.ds[s].fin = @ \/ last,
                       !.ds[s].es.recv = @ /\ ~last,
                       !.ds[s].es.drain = @ /\ ~last]
    IN IF last THEN Settle(u, s) ELSE u
(* Mutant: a pause inside the delivery is not seen.                        *)
PauseUnseen(d) == FALSE
PausedMidway(d) == d.hold.left > 0 /\ ~d.enabled
(* One region of the held content, or the FIN alone.                       *)
deliver_region ==
    /\ At("deliver")
    /\ LET s == This.s
           d == w.ds[s]
           more == d.hold.on /\ (d.hold.left > 0 \/ (d.hold.fin /\ ~d.fin))
           live == d.ectx /\ ~Dying(d)
       IN IF ~more \/ ~live THEN DeliveryEnds(FALSE)
          ELSE IF PausedMidway(d) THEN DeliveryEnds(TRUE)
          ELSE w' = Push(Consumed(w, s), <<App(FALSE)>>)
    /\ UNCHANGED <<use, eng, sent, told, recvs, opens>>

(* After the delivery of a fresh or of a held completion; `flag' when the  *)
(* receive side ended with it.                                             *)
delivered ==
    /\ ~Idle /\ This.k \in {"received", "resumed"}
    /\ LET s == This.s
           v == IF This.flag THEN Pop(w) ELSE ds_arm_receive(Pop(w), s)
       IN w' = IF This.k = "received" THEN ds_maybe_free(v, s) ELSE v
    /\ UNCHANGED <<use, eng, sent, told, recvs, opens>>

Latched(v, s, fin, err) ==
    [v EXCEPT !.ds[s].rpend = FALSE, !.ds[s].ended = @ \/ fin \/ err]
(* ds_receive_completed for a data stream that is not cancelled: `left'    *)
(* regions of content, the FIN or an error.                                *)
ds_receive_completed(s, left, fin, err) ==
    /\ Idle /\ s /= Connect /\ w.ds[s].rpend /\ ~w.ds[s].cancel
    /\ recvs < MaxRecv /\ (left > 0 \/ fin \/ err) /\ ~(fin /\ err)
    /\ LET v == Latched(w, s, fin, err)
           after == [Frame("received", s) EXCEPT !.flag = fin \/ err]
           h == [on |-> TRUE, left |-> left, fin |-> fin, err |-> err]
           u == [v EXCEPT !.ds[s].hold = h]
       IN w' = IF left = 0 /\ ~fin THEN ds_maybe_free(v, s)
               ELSE IF v.ds[s].hold.on THEN op_conn_close(v)
               ELSE IF ~v.ds[s].enabled THEN u
               ELSE ds_deliver_bytes(Push(u, <<after>>), s)
    /\ recvs' = recvs + 1
    /\ UNCHANGED <<use, eng, sent, told, opens>>

(* The flush of a cancelled stream's receive.                              *)
receive_flushed(s) ==
    /\ Idle /\ w.ds[s].rpend /\ w.ds[s].cancel
    /\ w' = ds_maybe_free([w EXCEPT !.ds[s].rpend = FALSE], s)
    /\ UNCHANGED <<use, eng, sent, told, recvs, opens>>

-----------------------------------------------------------------------------
(* The engine and the application.                                         *)

op_shutdown_stream(v, s) ==
    LET d == v.ds[s]
        u == ds_drop_deferred(v, s)
    IN IF d.terminal \/ ~d.conn \/ d.cancel \/ d.cancel_deferred THEN v
       ELSE IF ~d.ready THEN [u EXCEPT !.ds[s].cancel_deferred = TRUE]
       ELSE [u EXCEPT !.ds[s] = nw_connection_cancel(@)]

(* The session ends in order: the engine finishes the CONNECT stream and   *)
(* releases its data streams, shut down or not.                            *)
EndStream(v, s) ==
    op_detach([op_shutdown_stream(v, s) EXCEPT !.ds[s].es = NoHalves], s)
SessionEnds(v) ==
    FoldSeq(LAMBDA s, u : IF s /= Connect /\ u.ds[s].ectx
                          THEN EndStream(u, s) ELSE u,
            op_send(v, Connect, TRUE), v.streams)

EngineTakes(s) ==
    eng = "open" /\ w.drv.session /\ s /= Connect /\ w.ds[s].ectx

(* A gather send: accepted, or refused for want of room.  A program may    *)
(* send more than the whole window allows.                                 *)
op_send_gather(s, bytes, fin) ==
    /\ AppMay /\ "send" \in use /\ EngineTakes(s) /\ w.ds[s].es.send
    /\ bytes > MaxBytes => "wide" \in use
    /\ ~(At("app") /\ This.canceled /\ ~RetryCanceled)
    /\ ~Dead(w.ds[s])
    /\ IF Accepts(w.ds[s], bytes)
       THEN /\ sent < MaxSends /\ sent' = sent + 1
            /\ LET v == [Gathered(w, s, bytes, fin, sent + 1) EXCEPT
                            !.ds[s].es.send = ~fin, !.ds[s].es.fin = fin]
               IN \E u \in Pumps(v, s) : w' = u
       ELSE /\ w' = [w EXCEPT !.ds[s].blocked = TRUE,
                        !.ds[s].alone = bytes > MaxBytes /\ NoneUnderWay(w.ds[s])]
            /\ UNCHANGED sent
    /\ UNCHANGED <<use, eng, told, recvs, opens>>

(* wt_shutdown of the whole stream: its receive half drains.               *)
app_resets(s) ==
    /\ AppMay /\ "reset" \in use /\ EngineTakes(s)
    /\ w.ds[s].es.send \/ w.ds[s].es.fin \/ w.ds[s].es.recv
    /\ w.ds[s].conn /\ ~w.ds[s].terminal
    /\ LET v == [op_shutdown_stream(w, s) EXCEPT
                    !.ds[s].es = [NoHalves EXCEPT !.drain = w.ds[s].es.recv]]
       IN w' = Settle(v, s)
    /\ UNCHANGED <<use, eng, sent, told, recvs, opens>>

op_recv_enable(s, enabled) ==
    /\ AppMay /\ "pause" \in use /\ EngineTakes(s) /\ w.ds[s].es.recv
    /\ LET d == w.ds[s]
           v == [w EXCEPT !.ds[s].enabled = enabled]
           after == [Frame("resumed", s) EXCEPT
                       !.flag = d.hold.fin \/ d.hold.err]
       IN /\ d.conn /\ ~Dying(d)
          /\ ~(d.ended /\ (~d.hold.on \/ (enabled /\ d.delivering)))
          /\ w' = IF ~enabled \/ d.delivering THEN v
                  ELSE IF d.hold.on
                       THEN ds_deliver_bytes(Push(v, <<after>>), s)
                       ELSE ds_arm_receive(v, s)
    /\ UNCHANGED <<use, eng, sent, told, recvs, opens>>

op_open(s) ==
    /\ AppMay /\ "send" \in use /\ eng = "open" /\ w.drv.session
    /\ opens < MaxOpens /\ ~w.ds[s].live /\ ~w.drv.shutdown /\ ~w.drv.terminal
    /\ w' = [w EXCEPT
               !.ds[s] = [ds_new(TRUE, FALSE) EXCEPT !.ectx = TRUE,
                            !.known = TRUE, !.es.send = TRUE],
               !.streams = <<s>> \o @]
    /\ opens' = opens + 1
    /\ UNCHANGED <<use, eng, sent, told, recvs>>

app_closes ==
    /\ AppMay /\ "close" \in use /\ eng = "open" /\ w.drv.session
    /\ eng' = "done" /\ w' = SessionEnds(w)
    /\ UNCHANGED <<use, sent, told, recvs, opens>>

app_returns ==
    /\ At("app")
    /\ w' = IF This.flag THEN nw_leave_and_poll(Pop(w)) ELSE Pop(w)
    /\ UNCHANGED <<use, eng, sent, told, recvs, opens>>

(* The peer ends the session on the CONNECT stream, or breaks the          *)
(* protocol, which closes the connection from inside the engine.           *)
connect_receives(fatal) ==
    /\ Idle /\ w.ds[Connect].rpend /\ ~w.ds[Connect].cancel
    /\ "bye" \in use /\ eng \in {"open", "done"} /\ w.drv.session
    /\ LET v == [Latched(w, Connect, ~fatal, FALSE) EXCEPT
                    !.ds[Connect].fin = ~fatal]
           after == [Frame("received", Connect) EXCEPT !.flag = ~fatal]
       IN w' = Push(IF fatal THEN op_conn_close(v)
                    ELSE IF eng = "open" THEN SessionEnds(v) ELSE v,
                    <<App(TRUE), after>>)
    /\ eng' = IF fatal THEN "fatal" ELSE "done"
    /\ UNCHANGED <<use, sent, told, recvs, opens>>

-----------------------------------------------------------------------------
(* The states of a stream.                                                 *)

(* ds_ready_process.  The outcomes of an inbound stream: the engine keeps  *)
(* it, refuses it, or it is one of Network.framework's own.                *)
Inbound(v, s, outcome) ==
    IF outcome = "hidden" \/ ~v.drv.session THEN v
    ELSE IF outcome = "kept" /\ eng = "open"
    THEN ds_arm_receive(
           [v EXCEPT !.ds[s].known = TRUE, !.ds[s].ectx = TRUE,
                     !.ds[s].es.recv = TRUE], s)
    ELSE nw_leave_and_poll(
           IF Cancelable(v.ds[s]) THEN [v EXCEPT !.ds[s].cancel = TRUE]
                                  ELSE v)
ds_ready_process(v, s, outcome) ==
    LET u == [v EXCEPT !.ds[s].ready = TRUE]
        d == u.ds[s]
    IN IF d.cancel_deferred /\ ~d.cancel
       THEN [ds_drop_pending_sends(u, s) EXCEPT
               !.ds[s].cancel_deferred = FALSE, !.ds[s].cancel = TRUE]
       ELSE IF ~d.local THEN Inbound(u, s, outcome)
       ELSE LET p == dispatch_async(u, "pump", s)
            IN IF d.ectx /\ v.drv.session THEN nw_leave_and_poll(p) ELSE p

(* The ready callback: the stream's metadata may be missing in it.         *)
stream_ready(s, outcome) ==
    /\ Idle /\ w.ds[s].nw = "preparing"
    /\ LET v == [w EXCEPT !.ds[s].nw = "ready", !.ds[s].ready_seen = TRUE]
       IN \/ w' = ds_ready_process(v, s, outcome)
          \/ /\ "meta" \in use
             /\ w' = dispatch_async([v EXCEPT !.ds[s].recheck = TRUE],
                                    "recheck", s)
    /\ UNCHANGED <<use, eng, sent, told, recvs, opens>>

(* The dying disposition of ds_ready_recheck.                              *)
RecheckDying(v, s) == ds_maybe_free([v EXCEPT !.ds[s].recheck = FALSE], s)
ds_ready_recheck(v, s, outcome, ok) ==
    LET d == v.ds[s]
        u == [v EXCEPT !.ds[s].recheck = FALSE]
    IN IF d.terminal \/ d.failed \/ d.cancel \/ ~d.conn
       THEN RecheckDying(v, s)
       ELSE IF ~ok THEN op_conn_close(u)
       ELSE ds_ready_process(u, s, outcome)

(* ds_handle_failure: the reset callback, then the frame "drop".           *)
ds_handle_failure(v, s) ==
    LET u == Push(ds_drop_deferred(v, s), <<Frame("drop", s)>>)
        d == u.ds[s]
        e == [u EXCEPT !.ds[s].reset = TRUE, !.ds[s].es.recv = FALSE,
                       !.ds[s].es.drain = FALSE]
    IN IF ~(d.ectx /\ v.drv.session /\ ~d.reset /\ ~d.fin /\ ~d.cancel)
       THEN u
       ELSE Push(IF s /= Connect THEN Settle(e, s)
                 ELSE IF eng = "open" THEN SessionEnds(e) ELSE e,
                 <<App(TRUE)>>)
stream_failed(s) ==
    /\ Idle /\ (IF s = Connect THEN "drop" ELSE "fail") \in use
    /\ w.ds[s].nw \in {"preparing", "ready"} /\ ~w.ds[s].failed
    /\ LET v == [w EXCEPT !.ds[s].nw = "failed", !.ds[s].failed = TRUE]
       IN w' = ds_handle_failure(Push(v, <<Frame("converge", s)>>), s)
    /\ eng' = IF s = Connect /\ eng = "open" /\ ~w.ds[s].fin
                 /\ ~w.ds[s].cancel /\ w.drv.session
              THEN "done" ELSE eng
    /\ UNCHANGED <<use, sent, told, recvs, opens>>
sends_dropped ==
    /\ At("drop")
    /\ w' = Push(ds_drop_pending_sends(Pop(w), This.s), <<Synth(This.s)>>)
    /\ UNCHANGED <<use, eng, sent, told, recvs, opens>>
failure_converges ==
    /\ At("converge")
    /\ w' = [Pop(w) EXCEPT !.ds[This.s].cancel = TRUE]
    /\ UNCHANGED <<use, eng, sent, told, recvs, opens>>

(* The cancelled callback, the last one of a stream.                       *)
stream_cancelled(s) ==
    /\ Idle /\ w.ds[s].cancel /\ w.ds[s].conn /\ w.ds[s].nw /= "cancelled"
    /\ LET v == Push([w EXCEPT !.ds[s].nw = "cancelled",
                               !.ds[s].failed = TRUE],
                     <<Frame("terminal", s)>>)
       IN w' = IF w.ds[s].failed THEN v ELSE ds_handle_failure(v, s)
    /\ UNCHANGED <<use, eng, sent, told, recvs, opens>>
(* wtq_conn_on_stream_terminal ends what is left of a data stream.         *)
stream_terminal ==
    /\ At("terminal")
    /\ LET s == This.s
           v == [Pop(w) EXCEPT !.ds[s].terminal = TRUE]
       IN w' = IF v.ds[s].ectx /\ v.drv.session
               THEN Push(IF s = Connect THEN v
                         ELSE op_detach([v EXCEPT !.ds[s].es = NoHalves], s),
                         <<App(TRUE), Frame("free", s)>>)
               ELSE ds_maybe_free(v, s)
    /\ UNCHANGED <<use, eng, sent, told, recvs, opens>>

adopt_inbound(s) ==
    /\ Idle /\ "peer" \in use /\ ~w.ds[s].live /\ ~w.drv.terminal
    /\ opens < MaxOpens
    /\ w' = [w EXCEPT
               !.ds[s] = [ds_new(FALSE, FALSE) EXCEPT
                            !.cancel = w.drv.shutdown \/ w.drv.rundown],
               !.streams = <<s>> \o @]
    /\ opens' = opens + 1
    /\ UNCHANGED <<use, eng, sent, told, recvs>>

-----------------------------------------------------------------------------
(* The end of the connection.                                              *)

(* The group failed, or its cancel took effect.                            *)
group_ends ==
    /\ Idle
    /\ \/ w.drv.group = "ready" /\ "stop" \in use
       \/ w.drv.group = "cancelling"
    /\ LET failed == w.drv.group = "ready" IN
       w' = Push([w EXCEPT !.drv.group = IF failed THEN "failed"
                                                   ELSE "cancelled",
                           !.drv.terminal = TRUE],
                 <<Frame("sweep", Connect), Frame("feed", Connect),
                   Frame("rundown", Connect)>>)
    /\ UNCHANGED <<use, eng, sent, told, recvs, opens>>
(* The sweep over the streams in group_handle_terminal: cancel, then       *)
(* complete what is owed.                                                  *)
group_sweeps ==
    /\ At("sweep")
    /\ IF This.i = Len(w.streams) THEN w' = CancelDgram(Pop(w))
       ELSE LET s == w.streams[This.i + 1]
                v == IF Cancelable(w.ds[s])
                     THEN [w EXCEPT !.ds[s].cancel = TRUE] ELSE w
            IN w' = Push(Next1(v), <<Synth(s)>>)
    /\ UNCHANGED <<use, eng, sent, told, recvs, opens>>
(* The engine hears of the close, which ends the session.                  *)
group_feeds_closed ==
    /\ At("feed")
    /\ w' = IF w.drv.session /\ ~w.drv.fed
            THEN Push([Pop(w) EXCEPT !.drv.fed = TRUE], <<App(FALSE)>>)
            ELSE Pop(w)
    /\ eng' = "fatal"
    /\ UNCHANGED <<use, sent, told, recvs, opens>>
RundownReaps(v) == FoldSeq(LAMBDA s, u : ds_maybe_free(u, s), v, v.streams)
group_runs_down ==
    /\ At("rundown")
    /\ LET v == RundownReaps([Pop(w) EXCEPT !.drv.session = FALSE])
           u == [v EXCEPT !.drv.done = TRUE]
       IN w' = IF u.drv.group = "failed" THEN op_conn_close(u) ELSE u
    /\ UNCHANGED <<use, eng, sent, told, recvs, opens>>

nw_stop_worker ==
    /\ Idle /\ "stop" \in use /\ ~w.drv.rundown
    /\ w' = op_conn_close([w EXCEPT !.drv.rundown = TRUE])
    /\ UNCHANGED <<use, eng, sent, told, recvs, opens>>

-----------------------------------------------------------------------------
(* The datagram flow.                                                      *)

dgram_reap_eligible(v) ==
    v.dg.conn /\ v.dg.terminal /\ ~v.dg.rpend /\ v.dg.inflight = 0
dgram_maybe_reap(v) ==
    IF v.dg.scheduled \/ ~dgram_reap_eligible(v) THEN v
    ELSE dispatch_async([v EXCEPT !.dg.scheduled = TRUE], "dreap1", Connect)
dgram_reap_phase1(v) ==
    IF dgram_reap_eligible(v)
    THEN dispatch_async([v EXCEPT !.dg.handler = FALSE], "dreap2", Connect)
    ELSE [v EXCEPT !.dg.scheduled = FALSE]
dgram_reap_phase2(v) ==
    IF dgram_reap_eligible(v) /\ ~v.dg.handler
    THEN [v EXCEPT !.dg.conn = FALSE]
    ELSE [v EXCEPT !.dg.scheduled = FALSE]
dgram_arm_receive(v) ==
    IF v.dg.rpend \/ v.dg.terminal \/ ~v.dg.conn THEN v
    ELSE [v EXCEPT !.dg.rpend = TRUE]

op_dgram_send ==
    /\ AppMay /\ eng = "open" /\ w.dg.conn /\ ~w.dg.terminal
    /\ ~w.dg.cancel /\ w.dg.ready /\ w.dg.inflight < MaxDgrams
    /\ w' = [w EXCEPT !.dg.inflight = @ + 1]
    /\ UNCHANGED <<use, eng, sent, told, recvs, opens>>
dgram_sent ==
    /\ Idle /\ w.dg.inflight > 0
    /\ w' = dgram_maybe_reap([w EXCEPT !.dg.inflight = @ - 1])
    /\ UNCHANGED <<use, eng, sent, told, recvs, opens>>
dgram_state(st) ==
    /\ Idle /\ w.dg.conn
    /\ \/ /\ st = "ready" /\ w.dg.nw = "preparing"
          /\ w' = dgram_arm_receive([w EXCEPT !.dg.nw = st,
                                               !.dg.ready = TRUE])
       \/ /\ st = "failed" /\ w.dg.nw \in {"preparing", "ready"}
          /\ w' = [w EXCEPT !.dg.nw = st, !.dg.cancel = TRUE]
       \/ /\ st = "cancelled" /\ w.dg.cancel /\ w.dg.nw /= "cancelled"
          /\ w' = dgram_maybe_reap([w EXCEPT !.dg.nw = st,
                                              !.dg.terminal = TRUE])
    /\ UNCHANGED <<use, eng, sent, told, recvs, opens>>
(* A datagram, or an error that ends the loop; a datagram is fed to the    *)
(* engine, which calls the application.                                    *)
dgram_received(err) ==
    /\ Idle /\ w.dg.rpend /\ (err \/ recvs < MaxRecv)
    /\ LET v == [w EXCEPT !.dg.rpend = FALSE] IN
       w' = IF err THEN dgram_maybe_reap(v)
            ELSE Push(v, (IF v.drv.session THEN <<App(TRUE)>> ELSE <<>>)
                         \o <<Frame("dgram", Connect)>>)
    /\ recvs' = IF err THEN recvs ELSE recvs + 1
    /\ UNCHANGED <<use, eng, sent, told, opens>>
dgram_delivered ==
    /\ At("dgram")
    /\ w' = dgram_maybe_reap(dgram_arm_receive(Pop(w)))
    /\ UNCHANGED <<use, eng, sent, told, recvs, opens>>

-----------------------------------------------------------------------------
(* The queue runs its next block.                                          *)

Block(k) == Idle /\ w.queue /= <<>> /\ Head(w.queue).k = k
Ran == [w EXCEPT !.queue = Tail(@)]
Outcomes == {"kept", "refused", "hidden"}
reap_block ==
    /\ \/ Block("reap1") /\ w' = ds_reap_phase1(Ran, Head(w.queue).s)
       \/ Block("reap2") /\ w' = ds_reap_phase2(Ran, Head(w.queue).s)
       \/ Block("dreap1") /\ w' = dgram_reap_phase1(Ran)
       \/ Block("dreap2") /\ w' = dgram_reap_phase2(Ran)
    /\ UNCHANGED <<use, eng, sent, told, recvs, opens>>
recheck_block ==
    /\ Block("recheck")
    /\ \E ok \in BOOLEAN, outcome \in Outcomes :
          w' = ds_ready_recheck(Ran, Head(w.queue).s, outcome, ok)
    /\ UNCHANGED <<use, eng, sent, told, recvs, opens>>
pump_block ==
    /\ Block("pump")
    /\ \E u \in Pumps(Ran, Head(w.queue).s) : w' = u
    /\ UNCHANGED <<use, eng, sent, told, recvs, opens>>

Blocks == reap_block \/ recheck_block \/ pump_block
Frames ==
    \/ ds_synthesize_completions \/ batch_fans_out \/ reap_armed
    \/ deliver_region \/ delivered \/ app_returns \/ sends_dropped
    \/ failure_converges \/ stream_terminal \/ group_sweeps
    \/ group_feeds_closed \/ group_runs_down \/ dgram_delivered
Network ==
    \/ \E b \in w.batches : batch_on_complete(b) \/ batch_on_retire(b)
    \/ \E s \in Shells :
         \/ receive_flushed(s) \/ stream_cancelled(s) \/ stream_failed(s)
         \/ adopt_inbound(s)
         \/ \E outcome \in Outcomes : stream_ready(s, outcome)
         \/ \E left \in 0..2, fin, err \in BOOLEAN :
              ds_receive_completed(s, left, fin, err)
    \/ \E fatal \in BOOLEAN : connect_receives(fatal)
    \/ group_ends \/ dgram_sent
    \/ \E st \in {"ready", "failed", "cancelled"} : dgram_state(st)
    \/ \E err \in BOOLEAN : dgram_received(err)
Application ==
    \/ \E s \in Shells :
         \/ app_resets(s) \/ op_open(s)
         \/ \E enabled \in BOOLEAN : op_recv_enable(s, enabled)
         \/ \E bytes \in Sizes, fin \in BOOLEAN :
              op_send_gather(s, bytes, fin)
    \/ app_closes \/ op_dgram_send \/ nw_stop_worker

Next == Blocks \/ Frames \/ Network \/ Application
Spec == Init /\ [][Next]_vars
(* The queue runs its blocks, callbacks return, and Network.framework      *)
(* reports on streams it starts, completes and retires what it was given   *)
(* and ends what was cancelled.                                            *)
Progress ==
    \/ Blocks \/ Frames
    \/ \E b \in w.batches : batch_on_complete(b) \/ batch_on_retire(b)
    \/ \E s \in Shells :
         \/ receive_flushed(s) \/ stream_cancelled(s)
         \/ \E outcome \in Outcomes : stream_ready(s, outcome)
    \/ w.drv.group = "cancelling" /\ group_ends
FairSpec == Spec /\ WF_vars(Progress)

-----------------------------------------------------------------------------
(* What the streams promise.                                               *)

(* Every accepted send is completed to the application once at most, and   *)
(* none is still owed when the backend gives up its session                *)
(* (rec_app_complete, group_handle_terminal).                              *)
CompletedExactlyOnce ==
    /\ \A n \in 1..MaxSends : told[n] <= IF n <= sent THEN 1 ELSE 0
    /\ ~w.drv.session => \A n \in 1..sent : told[n] = 1

(* A submission in the hands of Network.framework has its records to       *)
(* itself until it is retired: none of them is free, none is in another    *)
(* submission, and at most one submission of a stream is incomplete.       *)
RecordsStayWhole ==
    \A b \in w.batches :
        /\ ~b.ret => \A r \in Range(b.recs) :
                        w.ds[b.s].recs[r].used /\ ~w.ds[b.s].recs[r].tr
        /\ \A c \in w.batches \ {b} : b.s = c.s =>
               /\ Idle => b.done \/ c.done
               /\ ~b.ret /\ ~c.ret => Range(b.recs) \cap Range(c.recs) = {}

(* The books of the sends: each told once, each record in one place.       *)
SendsAccounted == CompletedExactlyOnce /\ RecordsStayWhole

(* Nothing points at a freed shell: no block on the queue, no frame, no    *)
(* submission, no outstanding receive and not the engine.                  *)
NoDanglingShell ==
    /\ \A i \in DOMAIN w.queue : w.queue[i].k \in {"reap1", "reap2",
                                                    "recheck", "pump"}
                                 => w.ds[w.queue[i].s].live
    /\ \A i \in DOMAIN w.stack : w.stack[i].k \in {"synth", "fan", "free",
            "deliver", "received", "resumed", "drop", "converge", "terminal"}
                                 => w.ds[w.stack[i].s].live
    /\ \A b \in w.batches : w.ds[b.s].live
    /\ \A s \in Shells : w.ds[s].ectx \/ w.ds[s].rpend => w.ds[s].live

(* Between blocks a live, enabled stream has its one receive outstanding,  *)
(* and a held completion waits only for a pause to end: no stream goes     *)
(* deaf (ds_arm_receive, ds_deliver_bytes, op_recv_enable).                *)
NoDeafStream ==
    Idle => \A s \in Shells \ {Connect} :
        LET d == w.ds[s] IN
        /\ d.live /\ d.ectx /\ d.ready /\ d.es.recv /\ ~Dying(d)
           => CASE d.hold.on -> ~d.enabled /\ ~d.rpend
                [] d.ended -> TRUE
                [] OTHER -> d.enabled => d.rpend
        /\ ~d.delivering

(* The application gets data or a FIN only while its receive is enabled.   *)
QuietWhilePaused ==
    [][\A s \in Shells :
         \/ w'.ds[s].hold.on /\ w'.ds[s].hold.left < w.ds[s].hold.left
         \/ w'.ds[s].live /\ w'.ds[s].fin /\ ~w.ds[s].fin
         => w.ds[s].enabled]_vars

(* The receive side is awake exactly when the application wants it.        *)
PauseHonoured == []NoDeafStream /\ QuietWhilePaused

(* A poll for the orderly end of the session never cancels the transport   *)
(* under bytes that were accepted and can still be sent.                   *)
OrderlyEndFlushes ==
    [][At("app") \/ At("fan") =>
         (eng = "done" /\ ~w.drv.shutdown /\ w'.drv.shutdown
            /\ "oom" \notin use => ~drv_sends_owed(w))
       ]_vars

(* The shutdown that was put off for those bytes happens.                  *)
DeferredShutdownHappens == w.drv.flush ~> w.drv.shutdown

(* Whoever was refused for want of room hears of new room, unless the      *)
(* stream goes down (batch_on_complete, batch_on_retire).  A send larger   *)
(* than the whole window that is refused while no other is under way is    *)
(* not heard of again: no completion is left that could tell it.           *)
Starved(s) == w.ds[s].blocked /\ ~w.ds[s].alone /\ ~Dying(w.ds[s])
BlockedSenderWakes ==
    (\E s \in Shells : Starved(s)) ~> (\A s \in Shells : ~Starved(s))

(* Accepted sends are completed in the end, if their stream goes down or   *)
(* not (ds_synthesize_completions).                                        *)
Owed == \E n \in 1..sent : told[n] = 0
AcceptedCompletes == Owed ~> ~Owed

(* The shells of cancelled streams are freed, once the engine let go.      *)
Unreaped(s) == w.ds[s].cancel /\ w.ds[s].live /\ ~EngineMayName(w, s)
CancelledIsReaped ==
    (\E s \in Shells : Unreaped(s)) ~> (\A s \in Shells : ~Unreaped(s))


=============================================================================
