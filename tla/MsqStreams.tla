----------------------------- MODULE MsqStreams -----------------------------
(***************************************************************************)
(* The streams of one MsQuic connection, as client and listener create     *)
(* them: with a bounded pool of stream records                             *)
(* (src/backends/msquic/msq_conn.c, msq_stream.c, msq_internal.h).         *)
(* Sends and their in-flight budget, the accounting behind the local-flush *)
(* probe with its epochs and cancellation decisions, pause and the held    *)
(* FIN, the admission of peer streams, deferred terminals, and the return  *)
(* of records to the pool.                                                 *)
(*                                                                         *)
(* MsQuic delivers the events of a connection one after the other.  `w' is *)
(* the backend's memory with the call stack: a frame per function that     *)
(* still has to run, the application on top while it is called back.  An   *)
(* event may come inside StreamShutdown ("inline" in use).  MsQuic's own   *)
(* view of a stream is the field nat.                                      *)
(***************************************************************************)
EXTENDS Integers, Sequences, FiniteSets, FiniteSetsExt, SequencesExt

CONSTANTS
    Connect,       \* the record of the CONNECT stream
    Critical,      \* the record of a local control stream
    Locals,        \* the records of local WebTransport streams
    Peers,         \* the records of peer streams
    PeerBidi,      \* those of bidirectional ones
    None,          \* no record
    Floor,         \* WTQ_MSQ_SEND_BUDGET_MIN
    Ideals,        \* sizes MsQuic advises
    Sizes,         \* sizes of gather sends
    MaxSends,      \* bound on submissions
    MaxOpens,      \* bound on data streams
    MaxRecv,       \* bound on pieces of data a peer sends on a stream
    MaxDgrams,     \* WTQ_MSQ_DGRAM_INFLIGHT_MAX
    MaxPauses,     \* bound on pauses
    MaxFaults,     \* bound on refusals of MsQuic
    MaxDepth,      \* bound on the stack under a nested application call
    Uses           \* bound: what happens in one behaviour, a set of sets

Slots == {Connect, Critical} \cup Locals \cup Peers

ASSUME SlotAssumption ==
    /\ Connect /= Critical /\ IsFiniteSet(Locals) /\ IsFiniteSet(Peers)
    /\ Cardinality(Slots) = 2 + Cardinality(Locals) + Cardinality(Peers)
    /\ PeerBidi \subseteq Peers /\ None \notin Slots
ASSUME BoundAssumption ==
    /\ {Floor, MaxSends, MaxOpens, MaxRecv, MaxDgrams, MaxDepth,
        MaxPauses, MaxFaults} \subseteq Nat
    /\ Ideals \subseteq Nat /\ Sizes \subseteq Nat
    /\ Uses \subseteq SUBSET {"local", "send", "bidi", "commit", "cancel",
            "split", "stop", "peer", "pause", "abort", "junk", "close", "lost",
            "badid", "refuse", "inline", "ideal", "keep", "crit", "dgram",
            "uni"}

VARIABLES
    use,    \* what the application and the network do in this behaviour
    w       \* the backend's memory

vars == <<use, w>>

-----------------------------------------------------------------------------
(* Records.                                                                *)

NoHalves == [send |-> FALSE, fin |-> FALSE, recv |-> FALSE, drain |-> FALSE]
(* MsQuic's stream: the sends it holds, the two directions, the pieces of  *)
(* data it keeps, and whether it indicates them.                           *)
Native(local, bidi) ==
    [sq |-> <<>>, send |-> IF local \/ bidi THEN "open" ELSE "done",
     recv |-> IF ~local \/ bidi THEN "open" ELSE "done",
     got |-> 0, buf |-> 0, fin |-> FALSE, on |-> TRUE, lag |-> FALSE,
     seen |-> FALSE, shut |-> FALSE]
(* stream_initialize.  `live' says that the engine has a stream for the    *)
(* record, `wt' that it is a WebTransport one, `es' which of its halves    *)
(* are open; ectx is the backend's own link to it.  lib and app are the    *)
(* references to the API handle, which hold the record's credit.           *)
stream_initialize(local, bidi, gen) ==
    [occupied |-> TRUE, gen |-> gen, local |-> local, bidi |-> bidi,
     ectx |-> FALSE, live |-> FALSE, wt |-> FALSE, fwt |-> FALSE,
     commit |-> FALSE, es |-> NoHalves,
     lib |-> FALSE, app |-> FALSE, adm |-> 0, resume |-> FALSE,
     stop |-> FALSE, reset |-> FALSE, stop_first |-> FALSE,
     refs |-> 0, inflight |-> 0, ideal |-> 0, blocked |-> FALSE,
     fsends |-> 0, ffin |-> FALSE, req |-> 0, epoch |-> 0,
     settling |-> FALSE, abort_complete |-> FALSE, shpend |-> FALSE,
     graceful |-> FALSE, canceled |-> FALSE, dec |-> <<>>,
     shut |-> FALSE, term |-> FALSE, fin_delivered |-> FALSE,
     disabled |-> FALSE, held |-> FALSE, fin_pending |-> FALSE,
     nat |-> Native(local, bidi)]
Unoccupied == [stream_initialize(TRUE, FALSE, 0) EXCEPT !.occupied = FALSE,
                 !.nat.send = "done", !.nat.shut = TRUE]
IsCritical(s) == s = Critical
peer_record(s) == s \in Peers
credit_held(d) == d.lib \/ d.app
Data(s) == s \in Locals \cup Peers

NoFlush == [sends |-> 0, fins |-> 0, settlements |-> 0, decisions |-> 0]
Init ==
    /\ use \in Uses
    /\ w = [drv |-> [session |-> TRUE, shutdown |-> FALSE, flushed |-> FALSE,
                     pend |-> 0, fl |-> NoFlush, failed |-> FALSE,
                     gen |-> 0, dgrams |-> 0, running |-> FALSE,
                     refused |-> FALSE, freed |-> FALSE],
            eng |-> "open", conn |-> "up",
            streams |-> <<Connect, Critical>>,
            ds |-> [s \in Slots |->
                     CASE s = Connect ->
                            [stream_initialize(TRUE, TRUE, 0) EXCEPT
                               !.ectx = TRUE, !.live = TRUE]
                       [] s = Critical -> stream_initialize(TRUE, FALSE, 0)
                       [] OTHER -> Unoccupied],
            aq |-> <<>>, reg |-> {}, opens |-> 0, pauses |-> 0,
            faults |-> 0, out |-> <<>>,
            commits |-> {}, stack |-> <<>>]

-----------------------------------------------------------------------------
(* The stack.                                                              *)

Frame(k, s) == [k |-> k, s |-> s]
(* An application callback; `leave' when wtq_msq_conn_leave_and_poll       *)
(* follows.                                                                *)
App(leave) == [k |-> "app", s |-> Connect, leave |-> leave]
Idle == w.stack = <<>>
At(k) == w.stack /= <<>> /\ Head(w.stack).k = k
This == Head(w.stack)
Pop(v) == [v EXCEPT !.stack = Tail(@)]
Push(v, fs) == [v EXCEPT !.stack = fs \o @]
Live == w.drv.session /\ ~w.drv.freed
(* MsQuic refuses a call.                                                  *)
Refuses(v) == "refuse" \in use /\ v.faults < MaxFaults
Fault(v) == [v EXCEPT !.faults = @ + 1]
AppMay == Live /\ (Idle \/ (At("app") /\ Len(w.stack) < MaxDepth))

-----------------------------------------------------------------------------
(* The accounting behind the local-flush probe.                            *)

flush_fail(v) == [v EXCEPT !.drv.failed = TRUE]
flush_pending(v) == v.drv.fl /= NoFlush
flush_begin(v, s, bytes, fin) ==
    LET b == IF bytes THEN 1 ELSE 0
        f == fin /\ ~v.ds[s].ffin
    IN [v EXCEPT !.ds[s].fsends = @ + b, !.ds[s].req = @ + b,
                 !.ds[s].ffin = @ \/ f,
                 !.drv.fl.sends = @ + b,
                 !.drv.fl.fins = @ + IF f THEN 1 ELSE 0]
flush_rollback(v, s, bytes, new_fin) ==
    LET b == IF bytes THEN 1 ELSE 0
    IN [v EXCEPT !.ds[s].fsends = @ - b, !.ds[s].req = @ - b,
                 !.ds[s].ffin = @ /\ ~new_fin,
                 !.drv.fl.sends = @ - b,
                 !.drv.fl.fins = @ - IF new_fin THEN 1 ELSE 0]
ClearFin(v, s) ==
    IF v.ds[s].ffin
    THEN [v EXCEPT !.ds[s].ffin = FALSE, !.drv.fl.fins = @ - 1] ELSE v
flush_discard(v, s) ==
    LET d == v.ds[s]
        owes == d.req > 0 \/ d.ffin \/ d.settling \/ d.dec /= <<>>
    IN ClearFin(IF owes THEN flush_fail(v) ELSE v, s)
flush_is_wt(v, s) ==
    LET d == v.ds[s] IN
    ~IsCritical(s) /\ (d.local \/ d.bidi) /\ (d.fwt \/ (d.ectx /\ d.wt))
flush_settle(v, s) ==
    LET d == v.ds[s] IN
    IF d.settling /\ d.abort_complete /\ d.refs = 0 /\ d.dec = <<>>
    THEN [v EXCEPT !.ds[s].settling = FALSE, !.drv.fl.settlements = @ - 1]
    ELSE v

(* History: what became of the output of a stream, per submission.         *)
Output(v, s, gather, bytes, fin) ==
    [s |-> s, gen |-> v.ds[s].gen, gather |-> gather, told |-> 0,
     bytes |-> IF bytes > 0 THEN "owed" ELSE "none",
     fin |-> IF fin THEN "owed" ELSE "none"]
Mine(v, s, n) == v.out[n].s = s /\ v.out[n].gen = v.ds[s].gen
Became(x, from, to) == IF x \in from THEN to ELSE x
Each(seq, f(_)) == IF seq = <<>> THEN seq ELSE [n \in DOMAIN seq |-> f(n)]
Rewrite(v, s, from, to) ==
    LET became(n) == IF Mine(v, s, n)
                     THEN [v.out[n] EXCEPT !.bytes = Became(@, from, to),
                                           !.fin = Became(@, from, to)]
                     ELSE v.out[n]
    IN [v EXCEPT !.out = Each(@, became)]
Lost(v, s) == IF v.ds[s].dec = <<>> THEN "lost" ELSE "limbo"

(* Output given up on purpose is no longer owed.                           *)
flush_withdraw(v, s) ==
    LET u == ClearFin(v, s)
        new == ~v.ds[s].settling
        x == [u EXCEPT !.ds[s].epoch = @ + 1, !.ds[s].req = 0,
                       !.ds[s].settling = TRUE,
                       !.drv.fl.settlements = @ + IF new THEN 1 ELSE 0]
    IN flush_settle(Rewrite(x, s, {"owed", "limbo"}, "dropped"), s)
(* Mutant: a canceled record is only noted while a cancellation decides.   *)
flush_cancel_loss_forgotten(v, s) ==
    IF v.ds[s].dec /= <<>> THEN [v EXCEPT !.ds[s].dec[1].loss = TRUE] ELSE v
flush_cancel_loss(v, s) ==
    IF v.ds[s].dec /= <<>> THEN [v EXCEPT !.ds[s].dec[1].loss = TRUE]
    ELSE flush_fail(v)
(* A record came back: h is the submission.                                *)
flush_complete(v, s, h, canceled) ==
    LET gone == canceled /\ (h.bytes > 0 \/ h.fin)
        required == h.epoch = v.ds[s].epoch
        u == [v EXCEPT !.ds[s].canceled = @ \/ gone]
        x == IF ~(gone /\ required) THEN u
             ELSE IF h.fin THEN ClearFin(flush_cancel_loss(u, s), s)
                           ELSE flush_cancel_loss(u, s)
    IN IF h.bytes = 0 THEN x
       ELSE [x EXCEPT !.ds[s].fsends = @ - 1, !.drv.fl.sends = @ - 1,
                      !.ds[s].req = @ - IF required THEN 1 ELSE 0]

(* What the application is told of its output.                             *)
local_flush_probe(v) ==
    CASE v.drv.failed -> "backend"
      [] v.eng /= "open" \/ v.drv.shutdown -> "closed"
      [] flush_pending(v) -> "would_block"
      [] OTHER -> "ok"

-----------------------------------------------------------------------------
(* Shutting the connection down.                                           *)

conn_shutdown(v) ==
    IF v.drv.shutdown THEN v
    ELSE [IF flush_pending(v) THEN flush_fail(v) ELSE v EXCEPT
            !.drv.shutdown = TRUE, !.conn = "down"]
op_conn_close(v) == conn_shutdown(v)
(* Mutant: a connection that still flushes is not marked for the shutdown. *)
conn_poll_shutdown_unmarked(v) ==
    IF v.drv.shutdown \/ ~v.drv.session \/ v.eng = "open" THEN v
    ELSE IF v.eng = "closed" \/ v.drv.pend = 0 THEN conn_shutdown(v) ELSE v
conn_poll_shutdown(v) ==
    IF v.drv.shutdown \/ ~v.drv.session \/ v.eng = "open" THEN v
    ELSE IF v.eng = "closed" \/ v.drv.pend = 0 THEN conn_shutdown(v)
    ELSE [v EXCEPT !.drv.flushed = TRUE]
leave_and_poll(v) == IF v.drv.session THEN conn_poll_shutdown(v) ELSE v

-----------------------------------------------------------------------------
(* The engine's side of a stream.                                          *)

Public(es) == es.send \/ es.fin \/ es.recv
(* estream_release, with op_detach.                                        *)
op_detach(v, s) ==
    [v EXCEPT !.ds[s].live = FALSE, !.ds[s].ectx = FALSE,
              !.ds[s].fwt = @ \/ (v.ds[s].ectx /\ v.ds[s].wt),
              !.ds[s].adm = IF peer_record(s) THEN 3 ELSE @]
(* The API drops its reference with the last public half, the engine its   *)
(* slot when nothing drains either.                                        *)
Settle(v, s) ==
    LET d == v.ds[s]
        u == IF Public(d.es) THEN v ELSE [v EXCEPT !.ds[s].lib = FALSE]
    IN IF Data(s) /\ d.live /\ d.es = NoHalves THEN op_detach(u, s) ELSE u

(* MsQuic's side of an accepted StreamShutdown.                            *)
Aborted(nat, send, recv) ==
    [nat EXCEPT !.send = IF ~send THEN @
                         ELSE IF @ = "fin" THEN "finabort"
                         ELSE IF @ = "open" THEN "abort" ELSE @,
                !.recv = IF recv THEN "done" ELSE @,
                !.buf = IF recv THEN 0 ELSE @]
Dropped(v, s, recv) ==
    IF recv THEN [v EXCEPT !.ds[s].held = FALSE, !.ds[s].fin_pending = FALSE]
    ELSE v
(* shutdown_raw: op_shutdown_stream without the application's intent.      *)
shutdown_raw(v, s, send, recv) ==
    IF v.drv.shutdown THEN v
    ELSE LET u == [v EXCEPT !.ds[s].nat = Aborted(@, send, recv)]
             x == IF send THEN flush_discard(u, s) ELSE u
         IN Dropped(flush_settle(x, s), s, recv)
(* session_closed: the streams of the session end, on the wire when the    *)
(* connection is still there.                                              *)
EndStream(v, s) ==
    LET es == v.ds[s].es
        u == IF v.eng /= "closed" /\ Public(es)
             THEN shutdown_raw(v, s, es.send \/ es.fin, es.recv) ELSE v
    IN Settle([u EXCEPT !.ds[s].es =
                [NoHalves EXCEPT !.drain = es.drain \/ es.recv]], s)
SessionEnds(v) ==
    FoldSet(LAMBDA s, u : IF u.ds[s].live /\ u.ds[s].wt THEN EndStream(u, s)
                                                       ELSE u, v,
            Locals \cup Peers)
(* wtq_conn_on_conn_closed, and conn_fatal, which closes the connection.   *)
EngineClosed(v) ==
    IF v.eng = "closed" THEN v
    ELSE LET u == [v EXCEPT !.eng = "closed"]
         IN IF v.eng = "open" THEN Push(SessionEnds(u), <<App(FALSE)>>)
            ELSE u
conn_fatal(v) ==
    IF v.eng = "closed" THEN v ELSE EngineClosed(op_conn_close(v))

(* Mutant: an end that was not graceful is taken for one.                  *)
send_shutdown_v1_any(v, s, graceful) ==
    LET d == v.ds[s]
        u == [v EXCEPT !.ds[s].es.send = FALSE, !.ds[s].es.fin = FALSE,
                       !.commits = IF d.es.fin THEN @ \cup {<<s, d.gen>>}
                                               ELSE @]
    IN IF v.eng /= "open" \/ ~d.ectx \/ ~d.wt \/ ~d.commit THEN v
       ELSE Push(Settle(u, s), <<App(TRUE)>>)
(* wtq_conn_on_stream_send_shutdown_v1: only a stream opted into commit.   *)
send_shutdown_v1(v, s, graceful) ==
    LET d == v.ds[s]
        u == [v EXCEPT !.ds[s].es.send = FALSE, !.ds[s].es.fin = FALSE,
                       !.commits = IF graceful THEN @ \cup {<<s, d.gen>>}
                                               ELSE @]
    IN IF v.eng /= "open" \/ ~d.ectx \/ ~d.wt \/ ~d.commit
          \/ (graceful /\ ~d.es.fin)
       THEN v ELSE Push(Settle(u, s), <<App(TRUE)>>)
Committable(d) == d.epoch = 0 /\ ~d.canceled

(* wtq_conn_on_stream_terminal                                             *)
on_stream_terminal(v, s) ==
    LET d == v.ds[s]
        u == op_detach([v EXCEPT !.ds[s].es = NoHalves,
                                 !.ds[s].lib = FALSE], s)
    IN IF v.eng = "closed" \/ ~Data(s) THEN v
       ELSE IF d.wt /\ Public(d.es) THEN Push(u, <<App(FALSE)>>) ELSE u
(* wtq_conn_on_stream_reset                                                *)
on_stream_reset(v, s) ==
    LET u == Settle([v EXCEPT !.ds[s].es.recv = FALSE,
                              !.ds[s].es.drain = FALSE], s)
    IN IF v.eng = "closed" THEN v
       ELSE IF v.ds[s].es.drain \/ ~v.ds[s].wt THEN u
       ELSE Push(u, <<App(FALSE)>>)
(* wtq_conn_on_stop_sending                                                *)
on_stop_sending(v, s) ==
    LET over == v.ds[s].commit
        u == [v EXCEPT !.ds[s].es.send = @ /\ ~over,
                       !.ds[s].es.fin = @ /\ ~over]
    IN IF v.eng = "closed" \/ ~v.ds[s].wt THEN v
       ELSE Push(IF over THEN Settle(u, s) ELSE u, <<App(FALSE)>>)
Leaves(v) == Push(v, <<Frame("leave", Connect)>>)

-----------------------------------------------------------------------------
(* Collection, at the roots of the callbacks only.                         *)

(* wtq_api_session_admission_root, on an empty stack.                      *)
Rooted(v) == v.drv.session /\ v.eng = "open" /\ ~v.drv.running
(* stream_complete_terminals has something to do for the record.           *)
Due(v, s) ==
    LET d == v.ds[s] IN
    \/ d.shpend /\ d.dec = <<>>
    \/ d.term /\ \/ IsCritical(s)
                 \/ ~d.ectx /\ d.adm /= 1
                 \/ d.ectx /\ ~d.fin_pending /\ ~d.held
Work(v) == Rooted(v) /\ ~v.drv.shutdown
           /\ \E s \in Range(v.streams) : Due(v, s)
Settled(v, s) ==
    LET d == v.ds[s] IN
    IF d.shpend /\ d.dec = <<>>
    THEN send_shutdown_v1([v EXCEPT !.ds[s].shpend = FALSE], s,
                          d.graceful /\ Committable(d))
    ELSE LET u == [v EXCEPT !.ds[s].term = FALSE] IN
         IF IsCritical(s)
         THEN EngineClosed(IF flush_pending(u) THEN flush_fail(u) ELSE u)
         ELSE IF ~d.ectx
         THEN [u EXCEPT !.ds[s].stop = FALSE, !.ds[s].reset = FALSE]
         ELSE on_stream_terminal(u, s)

(* Mutant: the credit of the API handle is not looked at.                  *)
Collectable_no_credit(d) ==
    /\ d.shut /\ ~d.ectx /\ ~d.live /\ d.adm /= 1
    /\ d.refs = 0 /\ ~d.term /\ ~d.fin_pending /\ ~d.held
    /\ ~d.stop /\ ~d.reset /\ d.dec = <<>> /\ ~d.shpend
Collectable(d) ==
    /\ d.shut /\ ~d.ectx /\ ~d.live /\ d.adm /= 1 /\ ~credit_held(d)
    /\ d.refs = 0 /\ ~d.term /\ ~d.fin_pending /\ ~d.held
    /\ ~d.stop /\ ~d.reset /\ d.dec = <<>> /\ ~d.shpend
(* An unoccupied record, with the links to it that others still have.      *)
Gone(d) ==
    [Unoccupied EXCEPT !.ectx = d.ectx, !.live = d.live, !.lib = d.lib,
        !.app = d.app, !.dec = d.dec, !.nat.sq = d.nat.sq,
        !.nat.shut = d.nat.shut]
(* The sweep of stream_collect; `b' is the record of the running callback. *)
stream_collect(v, b) ==
    LET gone == {s \in Range(v.streams) : s /= b /\ Collectable(v.ds[s])}
        owing == {s \in gone : v.ds[s].settling}
        u == IF owing = {} THEN v ELSE flush_fail(v)
        stays(s) == s \notin gone
    IN IF gone = {} THEN v
       ELSE [u EXCEPT !.streams = SelectSeq(@, stays),
                      !.aq = SelectSeq(@, stays),
                      !.reg = @ \ gone,
                      !.drv.fl.settlements = @ - Cardinality(owing),
                      !.ds = [s \in gone |-> Gone(v.ds[s])] @@ @]

(* admission_service takes its snapshot of the queue.                      *)
admission_service(v, b) ==
    IF ~Rooted(v) \/ v.drv.shutdown \/ v.aq = <<>> THEN v
    ELSE Push([v EXCEPT !.drv.running = TRUE],
              <<[k |-> "serve", s |-> None, phase |-> "next", n |-> 0,
                 snap |-> [i \in DOMAIN v.aq |->
                            [s |-> v.aq[i], gen |-> v.ds[v.aq[i]].gen]]]>>)
(* The end of a callback of record b, or of the connection (None).         *)
RootEnds(v, b) ==
    IF ~Rooted(v) \/ (b = None /\ v.drv.shutdown) THEN v
    ELSE IF Work(v)
    THEN Push(v, <<Frame("collect", b),
                   Frame("root", b)>>)
    ELSE admission_service(stream_collect(v, b), b)

(* A callback of record s, from MsQuic's worker or inside StreamShutdown.  *)
(* A root collects first: when a terminal is due then, an event that says  *)
(* nothing brings it about (`advisory').                                   *)
MayCall(s) ==
    /\ ~w.drv.freed
    /\ IF Idle THEN ~Work(w)
       ELSE At("shut") /\ This.s = s /\ "inline" \in use
Entered(s) == IF Idle /\ Rooted(w) THEN stream_collect(w, s) ELSE w
Leave(v, s) ==
    IF ~Idle THEN v
    ELSE IF v.stack = <<>> THEN RootEnds(v, s)
    ELSE [v EXCEPT !.stack = @ \o <<Frame("root", s)>>]
Dispatch(s, v) == (\E u \in {v} : w' = Leave(u, s)) /\ UNCHANGED use

(* An event that tells the backend nothing.                                *)
advisory(s) ==
    /\ Idle /\ ~w.drv.freed /\ Work(w) /\ s \in Range(w.streams)
    /\ w' = RootEnds(w, s) /\ UNCHANGED use

collecting ==
    /\ At("collect")
    /\ LET due == SelectSeq(w.streams, LAMBDA s : Due(w, s))
       IN w' = IF due = <<>> \/ w.drv.shutdown \/ w.eng /= "open"
               THEN stream_collect(leave_and_poll(Pop(w)), This.s)
               ELSE Settled(w, Head(due))
    /\ UNCHANGED use
root_ends ==
    /\ At("root")
    /\ w' = RootEnds(Pop(w), This.s) /\ UNCHANGED use
leaving ==
    /\ At("leave")
    /\ w' = leave_and_poll(Pop(w)) /\ UNCHANGED use

-----------------------------------------------------------------------------
(* Receiving.                                                              *)

(* A FIN reaches the engine: the application hears of it before the half   *)
(* closes (frame "fin").                                                   *)
Fin(v, s) ==
    LET d == v.ds[s] IN
    IF ~d.live \/ v.eng = "closed"
    THEN Push(v, <<Frame("fin", s)>>)
    ELSE IF d.es.recv THEN Push(v, <<App(FALSE), Frame("fin", s)>>)
    ELSE Push(v, <<Frame("fin", s)>>)
fin_applied ==
    /\ At("fin")
    /\ LET s == This.s
           v == Pop(w)
           u == [v EXCEPT !.ds[s].es.recv = FALSE, !.ds[s].es.drain = FALSE,
                          !.ds[s].fin_delivered = TRUE]
       IN w' = leave_and_poll(IF ~v.ds[s].live
                              THEN [v EXCEPT !.ds[s].fin_delivered =
                                                       v.eng /= "closed"]
                              ELSE Settle(u, s))
    /\ UNCHANGED use

(* What a peer stream turns out to be, once its prefix is there            *)
(* (peer_admission_bytes): of this session, another stream type, of no     *)
(* session, or an error of the connection.                                 *)
Kinds == {"wt"} \cup IF "junk" \in use THEN {"ignored", "rejected", "fatal"}
                     ELSE {}
Prefixed(v, s, kind) ==
    CASE kind = "wt" /\ v.eng = "open" ->
            [v EXCEPT !.ds[s].adm = 1, !.aq = Append(@, s)]
      [] kind = "ignored" -> [v EXCEPT !.ds[s].adm = 3]
      [] kind = "fatal" -> conn_fatal(v)
      [] OTHER -> shutdown_raw([v EXCEPT !.ds[s].adm = 3], s,
                               v.ds[s].bidi, TRUE)

(* The frame of a RECEIVE with data: `left' pieces are still to be fed,    *)
(* acc of total were taken.                                                *)
Input(v, s, total, fin) ==
    Push(v, <<[k |-> "input", s |-> s, gen |-> v.ds[s].gen, left |-> total,
               acc |-> 0, total |-> total, fin |-> fin]>>)
(* MsQuic indicates the first n of the pieces it has, and the FIN with the *)
(* last; a receive of nothing is a bare FIN.                               *)
Indicates(s, n) ==
    LET nat == w.ds[s].nat IN
    /\ MayCall(s) /\ Idle /\ w.ds[s].occupied /\ w.conn = "up"
    /\ nat.recv = "open" /\ (nat.on \/ nat.lag)
    /\ n <= nat.buf /\ (n > 0 \/ (nat.buf = 0 /\ nat.fin))
RECEIVE(s, n) ==
    LET d == w.ds[s]
        nat == d.nat
        fin == nat.fin /\ n = nat.buf
        v == [Entered(s) EXCEPT !.ds[s].nat.lag = FALSE,
                                !.ds[s].nat.recv = IF fin /\ n = 0 THEN "eof"
                                                   ELSE @]
    IN /\ Indicates(s, n)
       /\ CASE d.disabled /\ n > 0 ->
                 Dispatch(s, [v EXCEPT !.ds[s].held = TRUE,
                                       !.ds[s].nat.on = FALSE])
            [] d.disabled /\ n = 0 ->
                 Dispatch(s, [v EXCEPT !.ds[s].fin_pending = TRUE])
            [] ~d.disabled /\ ~peer_record(s) /\ ~d.ectx ->
                 Dispatch(s, [v EXCEPT !.ds[s].nat.buf = @ - n,
                                       !.ds[s].nat.recv = IF fin THEN "eof"
                                                          ELSE @])
            [] OTHER -> Dispatch(s, Input(v, s, n, fin))

(* The end of a RECEIVE: what was not taken stays with MsQuic, which then  *)
(* waits to be enabled again.                                              *)
InputEnds(v, f, acc, held) ==
    LET s == f.s
        all == acc = f.total
    IN leave_and_poll([Pop(v) EXCEPT
         !.ds[s].nat.buf = IF @ >= acc THEN @ - acc ELSE 0,
         !.ds[s].nat.on = @ /\ all,
         !.ds[s].nat.recv = IF f.fin /\ all /\ @ = "open" THEN "eof" ELSE @,
         !.ds[s].held = IF held THEN ~all ELSE @,
         !.ds[s].fin_pending = IF held THEN f.fin /\ all ELSE @])
Feeds(f) == [w EXCEPT !.stack[1] = f]
(* One turn of its loop over the buffers.                                  *)
stream_input ==
    /\ At("input")
    /\ LET f == This
           s == f.s
           d == w.ds[s]
           next == [f EXCEPT !.left = @ - 1, !.acc = @ + 1]
           last == f.left = 1
           bare == f.total = 0
           over == \/ ~peer_record(s) /\ ~d.ectx
                   \/ w.drv.shutdown \/ w.eng = "closed"
                   \/ f.left = 0 /\ ~bare /\ d.adm /= 1
       IN \/ /\ over
             /\ w' = InputEnds(w, f, f.total, FALSE)
          \/ /\ ~over
             /\ CASE d.disabled \/ d.adm = 1 ->
                       w' = InputEnds(w, f, f.acc, TRUE)
                  [] ~d.disabled /\ peer_record(s) /\ d.adm = 0 /\ bare ->
                       IF d.bidi THEN w' = conn_fatal(Pop(w))
                       ELSE w' = leave_and_poll([Pop(w) EXCEPT
                                    !.ds[s].adm = 3,
                                    !.ds[s].fin_delivered = TRUE])
                  [] ~d.disabled /\ peer_record(s) /\ d.adm = 0 /\ ~bare ->
                       \E k \in Kinds : w' = Prefixed(Feeds(next), s, k)
                  [] ~d.disabled /\ d.adm \notin {0, 1} /\ ~d.live ->
                       w' = InputEnds([w EXCEPT !.ds[s].fin_delivered =
                                                    @ \/ f.fin],
                                      f, f.total, FALSE)
                  [] OTHER ->
                       IF bare \/ (last /\ f.fin)
                       THEN w' = Fin(IF bare THEN Pop(w) ELSE Feeds(next), s)
                       ELSE w' = IF d.es.recv
                                 THEN Push(Feeds(next), <<App(FALSE)>>)
                                 ELSE Feeds(next)
    /\ UNCHANGED use

(* op_recv_enable, accepted by MsQuic, which disables asynchronously.      *)
Enabled(nat, on) == [nat EXCEPT !.on = on, !.lag = ~on /\ (@ \/ nat.on)]
op_recv_enable(v, s, enabled) ==
    LET d == v.ds[s]
        u == [v EXCEPT !.ds[s].nat = IF d.shut THEN @ ELSE Enabled(@, enabled),
                       !.ds[s].disabled = ~enabled, !.ds[s].resume = FALSE,
                       !.ds[s].held = @ /\ ~enabled]
        x == Push(u, <<Frame("resumed", s)>>)
    IN IF ~enabled THEN u
       ELSE IF d.fin_pending /\ ~d.fin_delivered /\ d.ectx
       THEN Fin([x EXCEPT !.ds[s].fin_pending = FALSE], s)
       ELSE x
(* Its end: a terminal that waited for the FIN.                            *)
resumed ==
    /\ At("resumed")
    /\ LET s == This.s
           d == w.ds[s]
           v == Pop(w)
       IN w' = IF d.shut /\ d.ectx /\ ~d.fin_pending /\ ~d.held
                  /\ ~w.drv.shutdown
               THEN on_stream_terminal(
                      Leaves([v EXCEPT !.ds[s].term = FALSE]), s)
               ELSE v
    /\ UNCHANGED use

EndsReceive(s) ==
    MayCall(s) /\ Idle /\ w.ds[s].occupied /\ w.ds[s].nat.recv = "eof"
    /\ w.conn = "up"
PEER_SEND_SHUTDOWN(s) ==
    LET d == w.ds[s]
        v == [Entered(s) EXCEPT !.ds[s].nat.recv = "done"]
    IN /\ EndsReceive(s)
       /\ IF d.disabled \/ d.adm = 1
          THEN Dispatch(s, [v EXCEPT !.ds[s].fin_pending = @ \/ ~d.held])
          ELSE IF d.fin_delivered \/ (~peer_record(s) /\ ~d.ectx)
          THEN Dispatch(s, v)
          ELSE Dispatch(s, Input(v, s, 0, TRUE))
PEER_SEND_ABORTED(s) ==
    LET d == w.ds[s]
        waiting == peer_record(s) /\ ~d.live /\ d.adm = 1
        v == [Entered(s) EXCEPT
                !.ds[s].nat.recv = "done", !.ds[s].nat.buf = 0,
                !.ds[s].disabled = FALSE, !.ds[s].held = FALSE,
                !.ds[s].fin_pending = FALSE, !.ds[s].resume = FALSE,
                !.ds[s].reset = @ \/ waiting,
                !.ds[s].adm = IF peer_record(s) /\ ~d.live /\ ~waiting
                              THEN 3 ELSE @]
    IN /\ "abort" \in use /\ Data(s)
       /\ MayCall(s) /\ Idle /\ d.occupied /\ d.nat.recv = "open"
       /\ w.conn = "up"
       /\ Dispatch(s, IF d.ectx THEN on_stream_reset(Leaves(v), s) ELSE v)

-----------------------------------------------------------------------------
(* The admission of peer streams: the loop of admission_service.           *)

Serve(phase) == [w EXCEPT !.stack[1].phase = phase, !.stack[1].n = 0]
Dequeue(v, s) == [v EXCEPT !.ds[s].resume = FALSE,
                           !.aq = SelectSeq(@, LAMBDA t : t /= s)]
ServeNext(v) == [v EXCEPT !.stack[1].phase = "next",
                          !.stack[1].snap = Tail(@)]
(* Mutant: the guard of the service is not lifted.                         *)
ServiceEnds_stays(v) == Pop(v)
ServiceEnds(v) == [Pop(v) EXCEPT !.drv.running = FALSE]
(* wtq_api_session_admit_v2 and wtq_conn_peer_admit: the application hears *)
(* of the stream, or it is refused because the session ended meanwhile.    *)
admit(v, s) ==
    LET d == v.ds[s]
        u == [v EXCEPT !.ds[s].adm = 2, !.ds[s].live = TRUE,
                       !.stack[1].phase = "admitted"]
    IN IF v.eng = "open"
       THEN Push([u EXCEPT !.ds[s].wt = TRUE, !.ds[s].lib = TRUE,
                           !.ds[s].es = [NoHalves EXCEPT !.recv = TRUE,
                                                         !.send = d.bidi]],
                 <<App(FALSE)>>)
       ELSE shutdown_raw([u EXCEPT !.ds[s].es.drain = TRUE], s, d.bidi, TRUE)
admit_next ==
    /\ At("serve") /\ This.phase = "next"
    /\ LET e == Head(This.snap)
           s == e.s
           d == w.ds[s]
       IN w' = CASE This.snap = <<>> \/ w.drv.shutdown -> ServiceEnds(w)
                 [] OTHER ->
                    IF ~d.occupied \/ d.gen /= e.gen THEN ServeNext(w)
                    ELSE IF d.adm /= 1 THEN Serve("replay")
                    ELSE IF credit_held(d)
                    THEN ServiceEnds([w EXCEPT !.drv.refused = TRUE])
                    ELSE IF w.eng = "closed" THEN ServiceEnds(w)
                    ELSE admit(w, s)
    /\ UNCHANGED use
(* Only now is the backend's link set.                                     *)
admitted ==
    /\ At("serve") /\ This.phase = "admitted"
    /\ LET s == Head(This.snap).s
           v == [w EXCEPT !.ds[s].ectx = w.ds[s].live]
       IN w' = IF w.eng = "closed" THEN ServiceEnds(v)
               ELSE [v EXCEPT !.ds[s].resume = TRUE,
                              !.stack[1].phase = "replay"]
    /\ UNCHANGED use
(* What the peer did before the stream was published, in its order.        *)
admission_replay ==
    /\ At("serve") /\ This.phase = "replay"
    /\ LET s == Head(This.snap).s
           d == w.ds[s]
           more == This.n < 2 /\ d.ectx /\ ~w.drv.shutdown
           v == [w EXCEPT !.stack[1].n = @ + 1]
       IN w' = CASE This.n = 0 /\ (~d.resume \/ ~d.ectx) ->
                       ServeNext(Dequeue(w, s))
                 [] ~(This.n = 0 /\ (~d.resume \/ ~d.ectx)) ->
                       IF more /\ d.stop /\ (d.stop_first \/ ~d.reset)
                       THEN on_stop_sending([v EXCEPT !.ds[s].stop = FALSE],
                                            s)
                       ELSE IF more /\ d.reset
                       THEN on_stream_reset([v EXCEPT !.ds[s].reset = FALSE,
                                                      !.ds[s].resume = FALSE],
                                            s)
                       ELSE Serve("resume")
    /\ UNCHANGED use
(* The receive side opens; when MsQuic refuses, the record stays queued.   *)
admission_resume ==
    /\ At("serve") /\ This.phase = "resume"
    /\ LET s == Head(This.snap).s
           d == w.ds[s]
           resumes == d.resume /\ ~d.disabled /\ d.ectx /\ ~w.drv.shutdown
       IN \/ /\ resumes /\ Refuses(w) /\ ~d.shut
             /\ w' = ServeNext(Fault(w))
          \/ w' = IF resumes
                  THEN op_recv_enable(Serve("served"), s, TRUE)
                  ELSE ServeNext(Dequeue(w, s))
    /\ UNCHANGED use
admission_served ==
    /\ At("serve") /\ This.phase = "served"
    /\ w' = ServeNext(Dequeue(w, Head(This.snap).s))
    /\ UNCHANGED use

PEER_STREAM_STARTED(s) ==
    LET v == IF Rooted(w) THEN stream_collect(w, None) ELSE w
        gen == v.drv.gen + 1
        d == stream_initialize(FALSE, s \in PeerBidi, gen)
        u == [v EXCEPT !.streams = <<s>> \o @, !.ds[s] = d, !.drv.gen = gen,
                       !.opens = @ + 1, !.reg = @ \cup {s}]
    IN /\ "peer" \in use /\ s \in Peers /\ w.opens < MaxOpens
       /\ s \in PeerBidi \/ "uni" \in use
       /\ Idle /\ ~Work(w) /\ Live /\ w.conn = "up"
       /\ ~v.ds[s].occupied
       /\ w' = Leave(leave_and_poll(IF s \in v.reg \/ w.eng = "closed"
                                    THEN [u EXCEPT !.ds[s].adm = 4,
                                                   !.reg = v.reg] ELSE u),
                     None)
       /\ UNCHANGED use
(* The peer sends a piece of data, or its FIN.                             *)
PeerSends(s) ==
    /\ w.ds[s].occupied /\ w.conn = "up" /\ Data(s)
    /\ w.ds[s].nat.recv = "open" /\ ~w.ds[s].nat.fin /\ Idle
    /\ \/ /\ w.ds[s].nat.got < MaxRecv
          /\ w' = [w EXCEPT !.ds[s].nat.got = @ + 1, !.ds[s].nat.buf = @ + 1]
       \/ w' = [w EXCEPT !.ds[s].nat.fin = TRUE]
    /\ UNCHANGED use

-----------------------------------------------------------------------------
(* Sending.                                                                *)

(* A submission MsQuic took: the record, the accounting and the history.   *)
Submitted(v, s, gather, bytes, fin) ==
    LET n == Len(v.out) + 1
        h == [n |-> n, gather |-> gather, bytes |-> bytes, fin |-> fin,
              epoch |-> v.ds[s].epoch]
        u == flush_begin([v EXCEPT !.ds[s].refs = @ + 1, !.drv.pend = @ + 1],
                         s, bytes > 0, fin)
    IN [u EXCEPT !.ds[s].inflight = @ + IF gather THEN bytes ELSE 0,
                 !.ds[s].nat.sq = Append(@, h),
                 !.ds[s].nat.send = IF fin THEN "fin" ELSE @,
                 !.out = Append(@, Output(v, s, gather, bytes, fin))]
op_send(v, s, fin) == Submitted(v, s, FALSE, 1, fin)

Ceiling(d) == IF d.ideal > Floor THEN d.ideal ELSE Floor
OverBudget(d, bytes) ==
    /\ bytes /= 0 /\ d.inflight /= 0
    /\ d.inflight >= Ceiling(d) \/ bytes > Ceiling(d) - d.inflight
(* wtq_conn_wt_send after its op_send_gather.                              *)
op_send_gather(v, s, bytes, fin) ==
    LET d == v.ds[s]
        u == [Submitted(v, s, TRUE, bytes, fin) EXCEPT !.ds[s].blocked = FALSE]
        x == [u EXCEPT !.ds[s].es.send = FALSE, !.ds[s].es.fin = d.commit]
    IN IF OverBudget(d, bytes) THEN [v EXCEPT !.ds[s].blocked = TRUE]
       ELSE IF d.nat.send /= "open"
       THEN flush_rollback(flush_begin(v, s, bytes > 0, fin), s, bytes > 0,
                           fin /\ ~d.ffin)
       ELSE IF fin THEN Settle(x, s) ELSE u

writable_check(v, s) ==
    LET d == v.ds[s] IN
    IF ~d.blocked \/ ~v.drv.session \/ ~d.ectx THEN v
    ELSE Push([v EXCEPT !.ds[s].blocked = FALSE],
              IF v.eng /= "closed" /\ d.wt THEN <<App(TRUE)>>
                                           ELSE <<Frame("leave", s)>>)
(* The connection may go once nothing is in flight.                        *)
FlushGate(v) ==
    IF v.drv.pend = 0 /\ v.drv.flushed /\ ~v.drv.shutdown
    THEN [v EXCEPT !.drv.shutdown = TRUE, !.conn = "down"] ELSE v

Over(v, s) == v.conn = "down" \/ v.ds[s].nat.send \in {"abort", "finabort"}
(* MsQuic gives a record back, acknowledged or canceled.                   *)
Returned(v, s, canceled) ==
    LET h == Head(v.ds[s].nat.sq)
        became == Became(v.out[h.n].bytes, {"owed"},
                         IF canceled THEN Lost(v, s) ELSE "acked")
        fin == Became(v.out[h.n].fin, IF canceled THEN {"owed"} ELSE {},
                      Lost(v, s))
        u == flush_complete(v, s, h, canceled)
        x == [u EXCEPT !.ds[s].refs = @ - 1, !.drv.pend = @ - 1,
                       !.ds[s].inflight = @ - IF h.gather THEN h.bytes ELSE 0,
                       !.ds[s].nat.sq = Tail(@),
                       !.out[h.n].bytes = became, !.out[h.n].fin = fin]
    IN flush_settle(x, s)
(* Inside StreamShutdown sends end only when it aborts the send half.      *)
GivesBack(s, canceled) ==
    /\ MayCall(s) /\ (~Idle => This.send) /\ w.ds[s].nat.sq /= <<>>
    /\ IF canceled THEN Over(w, s) \/ w.ds[s].nat.send = "done"
       ELSE w.conn = "up" /\ w.ds[s].nat.send /= "done"
SEND_COMPLETE(s, canceled) ==
    LET v == Entered(s)
        h == Head(v.ds[s].nat.sq)
        u == Returned(v, s, canceled)
    IN /\ GivesBack(s, canceled)
       /\ Dispatch(s, IF ~h.gather THEN FlushGate(u)
                      ELSE Push([u EXCEPT !.out[h.n].told = @ + 1],
                                <<App(TRUE), Frame("sent", s),
                                  Frame("gate", s)>>))
(* Mutant: a completion is not taken as room for a refused send.           *)
send_completed_no_check ==
    /\ At("sent")
    /\ w' = Pop(w) /\ UNCHANGED use
(* The application has its buffers back: a refused send may go now.        *)
send_completed ==
    /\ At("sent")
    /\ w' = writable_check(Pop(w), This.s) /\ UNCHANGED use
flush_gate ==
    /\ At("gate")
    /\ w' = FlushGate(Pop(w)) /\ UNCHANGED use

(* Mutant: the end of an aborted send direction is not kept.               *)
Ended_unnoticed(v, s, graceful) ==
    LET d == v.ds[s]
        fin(n) == IF Mine(v, s, n)
                  THEN [v.out[n] EXCEPT !.fin = Became(@, {"owed"}, "acked")]
                  ELSE v.out[n]
    IN IF graceful THEN ClearFin([v EXCEPT !.out = Each(@, fin)], s)
       ELSE IF d.req > 0 \/ d.ffin
       THEN ClearFin(flush_cancel_loss(
              Rewrite(v, s, {"owed"}, Lost(v, s)), s), s)
       ELSE v
(* The send direction ended, with its FIN acknowledged or without.         *)
Ended(v, s, graceful) ==
    LET d == v.ds[s]
        fin(n) == IF Mine(v, s, n)
                  THEN [v.out[n] EXCEPT !.fin = Became(@, {"owed"}, "acked")]
                  ELSE v.out[n]
        acked == [v EXCEPT !.out = Each(@, fin)]
        u == IF graceful THEN ClearFin(acked, s)
             ELSE IF d.req > 0 \/ d.ffin
             THEN ClearFin(flush_cancel_loss(
                    Rewrite(v, s, {"owed"}, Lost(v, s)), s), s)
             ELSE v
        told(i) == [u.ds[s].dec[i] EXCEPT !.shutdown_complete = TRUE]
        x == [u EXCEPT !.ds[s].dec = Each(@, told),
                       !.ds[s].abort_complete = @ \/ d.settling]
    IN flush_settle(x, s)
EndsSend(s, graceful) ==
    /\ MayCall(s) /\ (~Idle => This.send)
    /\ IF graceful
       THEN /\ w.ds[s].nat.send \in {"fin", "finabort"} /\ w.conn = "up"
            /\ w.ds[s].nat.sq = <<>>
       ELSE Over(w, s) /\ w.ds[s].nat.send /= "done"
SEND_SHUTDOWN_COMPLETE(s, graceful) ==
    LET v == [Entered(s) EXCEPT !.ds[s].nat.send = "done"]
        u == Ended(v, s, graceful)
        d == u.ds[s]
    IN /\ EndsSend(s, graceful)
       /\ Dispatch(s, IF d.dec /= <<>>
                      THEN [u EXCEPT !.ds[s].shpend = TRUE,
                                     !.ds[s].graceful = graceful]
                      ELSE IF d.ectx /\ u.drv.session
                      THEN send_shutdown_v1(Leaves(u), s,
                             graceful /\ Committable(d))
                      ELSE u)

PEER_RECEIVE_ABORTED(s) ==
    LET v == [Entered(s) EXCEPT !.ds[s].nat = Aborted(@, TRUE, FALSE)]
        u == IF flush_is_wt(v, s) THEN flush_withdraw(v, s)
             ELSE Rewrite(flush_discard(v, s), s, {"owed"}, "lost")
        d == u.ds[s]
        early == peer_record(s) /\ ~d.ectx /\ ~d.stop
        x == [u EXCEPT !.ds[s].stop = @ \/ early,
                       !.ds[s].stop_first = IF early THEN ~d.reset ELSE @]
    IN /\ "stop" \in use /\ (Data(s) \/ "crit" \in use)
       /\ MayCall(s) /\ Idle /\ w.ds[s].occupied /\ w.conn = "up"
       /\ w.ds[s].nat.send \in {"open", "fin"}
       /\ Dispatch(s, IF IsCritical(s) /\ ~u.drv.shutdown
                      THEN [u EXCEPT !.ds[s].term = TRUE]
                      ELSE IF d.ectx THEN on_stop_sending(Leaves(x), s)
                      ELSE x)

IDEAL_SEND_BUFFER_SIZE(s, ideal) ==
    LET v == [Entered(s) EXCEPT !.ds[s].ideal = ideal]
    IN /\ "ideal" \in use /\ MayCall(s) /\ Idle /\ w.ds[s].occupied
       /\ Data(s) /\ w.conn = "up" /\ ~w.ds[s].shut
       /\ ideal /= w.ds[s].ideal
       /\ Dispatch(s, IF ideal > w.ds[s].ideal THEN writable_check(v, s)
                                               ELSE v)

(* The stream is over, whole, or with its connection: inside a call that   *)
(* aborts the receive side, never inside one that resets the send side,    *)
(* which the peer has to acknowledge first.                                *)
EndsStream(s) ==
    LET d == w.ds[s] IN
    /\ MayCall(s) /\ d.occupied /\ ~d.nat.shut /\ d.nat.sq = <<>>
    /\ \A i \in DOMAIN w.stack : w.stack[i].k = "shut" => ~w.stack[i].send
    /\ d.nat.send = "done" /\ (d.nat.recv = "done" \/ w.conn = "down")
SHUTDOWN_COMPLETE(s) ==
    LET v == flush_discard(Entered(s), s)
        u == [Rewrite(v, s, {"owed"}, Lost(v, s)) EXCEPT
                !.ds[s].shut = TRUE, !.ds[s].nat.shut = TRUE,
                !.ds[s].nat.recv = "done", !.ds[s].nat.buf = 0,
                !.ds[s].term = @ \/ (w.conn = "up" /\ w.drv.session)]
        d == w.ds[s]
    IN /\ EndsStream(s)
       /\ Dispatch(s, IF d.local /\ ~d.bidi /\ d.ectx /\ u.drv.session
                      THEN send_shutdown_v1(Leaves(u), s, FALSE) ELSE u)

(* MsQuic gave the stream another id than the backend computed, or could   *)
(* not start it.                                                           *)
START_COMPLETE(s, started) ==
    LET v == [Entered(s) EXCEPT !.ds[s].nat.seen = TRUE]
        u == IF flush_pending(v) THEN flush_fail(v) ELSE v
    IN /\ "badid" \in use /\ s \in Locals /\ w.ds[s].occupied
       /\ MayCall(s) /\ Idle /\ ~w.ds[s].nat.seen /\ w.conn = "up"
       /\ Dispatch(s, IF started
                      THEN EngineClosed(Leaves([u EXCEPT !.conn = "down"]))
                      ELSE [Rewrite(flush_discard(v, s), s, {"owed"}, "lost")
                              EXCEPT !.conn = "down"])

-----------------------------------------------------------------------------
(* The connection.                                                         *)

ConnEvent(v) ==
    w' = (IF v.stack = <<>> THEN RootEnds(v, None)
          ELSE [v EXCEPT !.stack = @ \o <<Frame("root", None)>>])
    /\ UNCHANGED use
(* SHUTDOWN_INITIATED_BY_TRANSPORT and _BY_PEER.                           *)
SHUTDOWN_INITIATED ==
    LET v == [IF flush_pending(w) THEN flush_fail(w) ELSE w EXCEPT
                !.conn = "down"]
    IN /\ "lost" \in use /\ Idle /\ Live /\ w.conn = "up" /\ ~Work(w)
       /\ ConnEvent(EngineClosed(Leaves(v)))
(* The last event of all: the session is told and released, the driver     *)
(* freed.                                                                  *)
EndsConn ==
    /\ Idle /\ ~w.drv.freed /\ w.conn = "down" /\ w.drv.dgrams = 0
    /\ \A s \in Range(w.streams) : w.ds[s].nat.shut
CONN_SHUTDOWN_COMPLETE ==
    LET v == IF flush_pending(w) THEN flush_fail(w) ELSE w
    IN /\ EndsConn
       /\ w' = EngineClosed(Push(v, <<Frame("final", None)>>))
       /\ UNCHANGED use
driver_freed ==
    /\ At("final")
    /\ w' = [Pop(w) EXCEPT !.drv.session = FALSE, !.drv.freed = TRUE]
    /\ UNCHANGED use
(* The peer ends the CONNECT stream and with it the session.               *)
PeerClosesSession ==
    LET v == SessionEnds(op_detach([w EXCEPT !.eng = "done",
                                             !.ds[Connect].nat.recv = "done"],
                                   Connect))
    IN /\ "close" \in use /\ Idle /\ Live /\ ~Work(w)
       /\ w.eng = "open" /\ w.conn = "up"
       /\ w.ds[Connect].nat.recv = "open"
       /\ w' = Leave(Push(v, <<App(TRUE)>>), Connect) /\ UNCHANGED use

op_dgram_send ==
    /\ "dgram" \in use /\ AppMay /\ w.eng = "open" /\ ~w.drv.shutdown
    /\ w.drv.dgrams < MaxDgrams
    /\ w' = [w EXCEPT !.drv.dgrams = @ + 1] /\ UNCHANGED use
DATAGRAM_SEND_FINAL ==
    /\ Idle /\ w.drv.dgrams > 0 /\ ~w.drv.freed /\ ~Work(w)
    /\ ConnEvent([w EXCEPT !.drv.dgrams = @ - 1])

-----------------------------------------------------------------------------
(* The application.                                                        *)

(* wtq_session_open_uni and _bidi: op_open, then the preamble.             *)
session_open(s, bidi) ==
    LET gen == w.drv.gen + 1
        d == [stream_initialize(TRUE, bidi, gen) EXCEPT
                !.ectx = TRUE, !.live = TRUE, !.wt = TRUE, !.lib = TRUE,
                !.es = [NoHalves EXCEPT !.send = TRUE, !.recv = bidi]]
        v == [w EXCEPT !.streams = <<s>> \o @, !.ds[s] = d, !.drv.gen = gen,
                       !.opens = @ + 1]
    IN /\ "local" \in use /\ AppMay
       /\ s \in Locals /\ (bidi => "bidi" \in use)
       /\ w.opens < MaxOpens /\ Len(w.out) < MaxSends
       /\ w.eng = "open" /\ ~w.drv.shutdown
       /\ ~w.ds[s].occupied /\ ~credit_held(w.ds[s])
       /\ \/ w' = op_send(v, s, FALSE)
          \/ /\ Refuses(w)
             /\ w' = conn_fatal(op_detach(
                       [Fault(v) EXCEPT !.ds[s].lib = FALSE], s))
       /\ UNCHANGED use
wt_enable_send_commit(s) ==
    LET d == w.ds[s] IN
    /\ "commit" \in use /\ AppMay /\ w.eng = "open"
    /\ s \in Locals /\ d.live /\ ~d.bidi /\ d.es.send /\ ~d.commit
    /\ \A n \in DOMAIN w.out : Mine(w, s, n) => ~w.out[n].gather
    /\ w' = [w EXCEPT !.ds[s].commit = TRUE] /\ UNCHANGED use
wt_send(s, bytes, fin) ==
    LET d == w.ds[s] IN
    /\ "send" \in use /\ AppMay /\ w.eng = "open" /\ ~w.drv.shutdown
    /\ d.live /\ d.wt /\ d.es.send /\ Len(w.out) < MaxSends
    /\ w' = op_send_gather(w, s, bytes, fin) /\ UNCHANGED use

(* wt_shutdown: op_shutdown_stream begins; its end is `shutdown_resolved'. *)
wt_shutdown(s, send, recv, rc) ==
    LET d == w.ds[s]
        intent == send /\ flush_is_wt(w, s)
        v == [w EXCEPT !.ds[s].nat =
                CASE rc = "ok" -> Aborted(@, send, recv)
                  [] rc = "partial" -> Aborted(@, TRUE, FALSE)
                  [] rc = "refused" -> @]
        u == [v EXCEPT !.ds[s].dec = <<[loss |-> FALSE,
                                        shutdown_complete |-> FALSE]>> \o @,
                       !.drv.fl.decisions = @ + 1]
    IN /\ "cancel" \in use /\ AppMay /\ w.eng = "open" /\ ~w.drv.shutdown
       /\ d.live /\ d.wt /\ (send \/ recv)
       /\ send => d.es.send \/ d.es.fin
       /\ recv => d.es.recv
       /\ rc = "partial" => send /\ recv /\ "split" \in use
       /\ rc /= "ok" => Refuses(w)
       /\ w' = Push(IF rc = "ok" THEN (IF intent THEN u ELSE v)
                    ELSE Fault(IF intent THEN u ELSE v),
                    <<[k |-> "shut", s |-> s, gen |-> d.gen, send |-> send,
                       recv |-> recv, rc |-> rc, intent |-> intent]>>)
       /\ UNCHANGED use
(* The decision is taken off the stream and acted on.                      *)
Decided(v, f) ==
    LET s == f.s
        dec == v.ds[s].dec[1]
        u == [v EXCEPT !.ds[s].dec = Tail(@), !.drv.fl.decisions = @ - 1,
                       !.ds[s].abort_complete =
                           @ \/ (f.rc = "ok" /\ dec.shutdown_complete)]
    IN CASE f.rc = "ok" -> flush_withdraw(u, s)
         [] f.rc = "partial" ->
              Rewrite(flush_fail(u), s, {"owed", "limbo"}, "lost")
         [] f.rc = "refused" /\ dec.loss ->
              Rewrite(flush_cancel_loss(u, s), s, {"limbo"}, Lost(u, s))
         [] OTHER -> u
(* Inside on_stream_opened the record has no ectx yet: a cancellation is   *)
(* not known for the application's, and what it withdraws ("early") fails  *)
(* the flush.                                                              *)
Resolved(v, f) ==
    LET u == IF f.intent THEN Decided(v, f)
             ELSE IF f.send /\ f.rc /= "refused"
             THEN Rewrite(flush_discard(v, f.s), f.s, {"owed"}, "early")
             ELSE v
    IN Dropped(flush_settle(u, f.s), f.s, f.recv /\ f.rc = "ok")
shutdown_resolved ==
    /\ At("shut")
    /\ LET f == This
           s == f.s
           v == Resolved(Pop(w), f)
           u == [v EXCEPT !.ds[s].es.send = @ /\ ~f.send,
                          !.ds[s].es.fin = @ /\ ~f.send,
                          !.ds[s].es.recv = @ /\ ~f.recv,
                          !.ds[s].es.drain = @ \/ f.recv]
       IN w' = IF f.rc /= "ok" THEN conn_fatal(v)
               ELSE IF ~v.ds[s].live \/ v.ds[s].gen /= f.gen THEN v
               ELSE Settle(u, s)
    /\ UNCHANGED use

(* wtq_stream_pause_receive and _resume_receive.                           *)
wt_recv_enable(s, enabled) ==
    LET d == w.ds[s] IN
    /\ "pause" \in use /\ AppMay /\ w.eng = "open" /\ ~w.drv.shutdown
    /\ d.live /\ d.wt /\ d.es.recv
    /\ IF enabled THEN d.disabled ELSE ~d.disabled /\ w.pauses < MaxPauses
    /\ \/ w' = [op_recv_enable(w, s, enabled) EXCEPT
                  !.pauses = @ + IF enabled THEN 0 ELSE 1]
       \/ /\ Refuses(w) /\ ~d.shut
          /\ w' = Fault(w)
    /\ UNCHANGED use
(* wtq_stream_add_ref and wtq_stream_release.                              *)
stream_add_ref(s) ==
    /\ "keep" \in use /\ AppMay /\ w.ds[s].lib /\ ~w.ds[s].app
    /\ w' = [w EXCEPT !.ds[s].app = TRUE] /\ UNCHANGED use
stream_release(s) ==
    /\ AppMay /\ w.ds[s].app
    /\ w' = [w EXCEPT !.ds[s].app = FALSE] /\ UNCHANGED use
(* wtq_session_service_stream_admission from outside a callback.           *)
service_stream_admission ==
    /\ Idle /\ Live /\ Rooted(w) /\ ~w.drv.shutdown
    /\ w' = RootEnds(w, None) /\ UNCHANGED use
(* wtq_session_close: the capsule and the FIN, then the session is over.   *)
session_close ==
    LET v == op_send(w, Connect, TRUE)
    IN /\ "close" \in use /\ AppMay /\ w.eng = "open" /\ ~w.drv.shutdown
       /\ w.ds[Connect].nat.send = "open" /\ Len(w.out) < MaxSends
       /\ w' = Push(SessionEnds([v EXCEPT !.eng = "done"]), <<App(FALSE)>>)
       /\ UNCHANGED use
app_returns ==
    /\ At("app")
    /\ w' = (IF This.leave THEN leave_and_poll(Pop(w)) ELSE Pop(w))
    /\ UNCHANGED use

-----------------------------------------------------------------------------

(* What the backend and the application still have to do on the stack.     *)
Continue ==
    \/ collecting \/ root_ends \/ leaving \/ fin_applied \/ stream_input
    \/ resumed \/ admit_next \/ admitted \/ admission_replay
    \/ admission_resume \/ admission_served \/ send_completed \/ flush_gate
    \/ driver_freed \/ shutdown_resolved \/ app_returns
Completes(s) ==
    \/ \E canceled \in BOOLEAN : SEND_COMPLETE(s, canceled)
    \/ \E graceful \in BOOLEAN : SEND_SHUTDOWN_COMPLETE(s, graceful)
    \/ SHUTDOWN_COMPLETE(s)
Receives(s) == PEER_SEND_SHUTDOWN(s) \/ \E n \in 0..MaxRecv : RECEIVE(s, n)
Network ==
    \/ \E s \in Slots :
          \/ Completes(s) \/ Receives(s) \/ advisory(s)
          \/ PEER_SEND_ABORTED(s) \/ PEER_RECEIVE_ABORTED(s)
          \/ PEER_STREAM_STARTED(s) \/ PeerSends(s)
          \/ \E ideal \in Ideals : IDEAL_SEND_BUFFER_SIZE(s, ideal)
          \/ \E started \in BOOLEAN : START_COMPLETE(s, started)
    \/ SHUTDOWN_INITIATED \/ CONN_SHUTDOWN_COMPLETE \/ PeerClosesSession
    \/ DATAGRAM_SEND_FINAL
Application ==
    \/ \E s \in Locals \cup Peers :
          \/ \E bidi \in BOOLEAN : session_open(s, bidi)
          \/ wt_enable_send_commit(s) \/ stream_add_ref(s)
          \/ stream_release(s)
          \/ \E bytes \in Sizes, fin \in BOOLEAN : wt_send(s, bytes, fin)
          \/ \E send, recv \in BOOLEAN, rc \in {"ok", "refused", "partial"} :
                wt_shutdown(s, send, recv, rc)
          \/ \E enabled \in BOOLEAN : wt_recv_enable(s, enabled)
    \/ service_stream_admission \/ session_close \/ op_dgram_send
Over_and_out == w.drv.freed /\ UNCHANGED vars
Next == Continue \/ Network \/ Application \/ Over_and_out

(* Callbacks return, MsQuic goes on with what it accepted and finishes a   *)
(* connection that is down, and an application asks for admission service  *)
(* now and then (session.h asks it to after it released a stream).  Owed   *)
(* is when one of these steps is enabled.  The bounds leave every stream   *)
(* finitely many of them, so fairness to all together, stated as WF is     *)
(* defined, is fairness to each; datagrams come and go without a bound.    *)
Works ==
    \/ Continue \/ CONN_SHUTDOWN_COMPLETE \/ service_stream_admission
    \/ \E s \in Slots : Completes(s) \/ Receives(s)
Serviceable ==
    /\ Idle /\ Live /\ Rooted(w) /\ ~w.drv.shutdown
    /\ \/ Work(w) \/ w.aq /= <<>>
       \/ \E s \in Range(w.streams) : Collectable(w.ds[s])
Owed ==
    \/ ~Idle \/ EndsConn \/ Serviceable
    \/ \E s \in Slots :
          \/ EndsStream(s) \/ EndsReceive(s)
          \/ \E b \in BOOLEAN : GivesBack(s, b) \/ EndsSend(s, b)
          \/ \E n \in 0..MaxRecv : Indicates(s, n)
Fairness ==
    /\ ([]<>~Owed) \/ []<><<Works>>_vars
    /\ WF_vars(DATAGRAM_SEND_FINAL)
Spec == Init /\ [][Next]_vars /\ Fairness

-----------------------------------------------------------------------------
(* Properties.                                                             *)

Sum(f(_)) == FoldSet(LAMBDA s, n : n + f(s), 0, Range(w.streams))
One(b) == IF b THEN 1 ELSE 0
(* The local-flush probe tells the truth: when it says that all output was *)
(* acknowledged, none is on the way, lost, or in the balance of a          *)
(* cancellation; and the connection's counters are those of its streams.   *)
FlushTruthful ==
    /\ Live /\ local_flush_probe(w) = "ok" =>
         \A n \in DOMAIN w.out :
            {w.out[n].bytes, w.out[n].fin} \cap {"owed", "lost", "limbo"} = {}
    /\ ~w.drv.freed =>
         /\ w.drv.fl.sends = Sum(LAMBDA s : w.ds[s].fsends)
         /\ w.drv.fl.fins = Sum(LAMBDA s : One(w.ds[s].ffin))
         /\ w.drv.fl.settlements = Sum(LAMBDA s : One(w.ds[s].settling))
         /\ w.drv.fl.decisions = Sum(LAMBDA s : Len(w.ds[s].dec))
(* What the program reads as lost output on a connection that is up.       *)
SaidLost == w.drv.failed /\ w.conn = "up" /\ w.eng = "open"
Fate(fates) == \E n \in DOMAIN w.out :
                  {w.out[n].bytes, w.out[n].fin} \cap fates /= {}
(* Output that was withdrawn on purpose is not reported as lost: while the *)
(* connection is up, a sticky failure means that output was lost, or was   *)
(* withdrawn by a reset from within the stream's own on_stream_opened.     *)
NoFalseLoss == SaidLost => Fate({"lost", "early"})
(* The local-flush report is neither too good nor too bad.                 *)
FlushHonest == FlushTruthful /\ NoFalseLoss
(* Every gather send that was accepted is completed exactly once, at the   *)
(* latest before the session is released.                                  *)
CompletedOnce ==
    \A n \in DOMAIN w.out : w.out[n].gather =>
        w.out[n].told <= 1 /\ (w.drv.freed => w.out[n].told = 1)
(* on_stream_send_committed is only said of a stream whose every byte and  *)
(* FIN the peer acknowledged.                                              *)
CommitMeansAcked ==
    \A n \in DOMAIN w.out : <<w.out[n].s, w.out[n].gen>> \in w.commits =>
        {w.out[n].bytes, w.out[n].fin} \subseteq {"none", "acked"}
(* What the application is told of its sends.                              *)
SendsAccounted == CompletedOnce /\ CommitMeansAcked
(* Between callbacks no peer stream waits for its admission: a record that *)
(* is there has its place in the engine and in the API, and one that is    *)
(* left in the queue was admitted and keeps its record.                    *)
AdmissionServed ==
    /\ ~w.drv.refused
    /\ Idle /\ w.eng = "open" /\ ~w.drv.shutdown /\ w.drv.session =>
         /\ \A s \in Peers : w.ds[s].adm \notin {1, 4}
         /\ \A s \in Range(w.aq) : w.ds[s].occupied /\ w.ds[s].adm > 1
(* A stream that may receive is not deaf: MsQuic indicates what it has, or *)
(* the stream is paused, or waits for its resume to be tried again; and a  *)
(* FIN is not forgotten.                                                   *)
NoDeafStream ==
    Idle /\ w.eng = "open" /\ ~w.drv.shutdown /\ w.conn = "up" =>
        \A s \in Locals \cup Peers :
            LET d == w.ds[s] IN
            d.ectx /\ d.es.recv /\ ~d.disabled /\ s \notin Range(w.aq) =>
                /\ d.nat.recv = "open" /\ (d.nat.buf > 0 \/ d.nat.fin)
                      => d.nat.on
                /\ d.nat.recv /= "done" \/ d.shut
(* A record that went back to the pool is nobody's: not the engine's, not  *)
(* the application's, not MsQuic's, not that of a cancellation under way.  *)
NoRecordInUse ==
    \A s \in Slots : ~w.ds[s].occupied =>
        LET d == w.ds[s] IN
        /\ ~d.ectx /\ ~d.live /\ ~credit_held(d) /\ d.dec = <<>>
        /\ d.nat.shut /\ d.nat.sq = <<>>
        /\ s \notin Range(w.aq)
        /\ \A i \in DOMAIN w.stack : w.stack[i].k \in {"shut", "input", "fin",
              "resumed", "sent"} => w.stack[i].s /= s

(* Receiving goes on, and a record is reused only when it is done with.    *)
StreamsSound == NoDeafStream /\ NoRecordInUse

(* A sender that was refused is told when it may go on, unless its stream  *)
(* ended or it gave up sending.                                            *)
BlockedSenderWakes ==
    \A s \in Locals \cup Peers :
        w.ds[s].blocked ~> ~w.ds[s].blocked \/ ~w.ds[s].ectx
                           \/ ~w.ds[s].es.send \/ w.eng /= "open"
(* The probe does not say "would block" for ever.                          *)
FlushSettles ==
    local_flush_probe(w) = "would_block"
        ~> local_flush_probe(w) /= "would_block"
(* An ended session takes its connection down, and the driver is freed.    *)
SessionEndFreesDriver == w.eng /= "open" ~> w.drv.freed
(* A FIN noted for later that was delivered before: PEER_SEND_SHUTDOWN     *)
(* finds the receive paused by the very callback that delivered the FIN.   *)
Stranded(d) == d.fin_delivered /\ d.fin_pending
(* A record returns to the pool once its stream is over for MsQuic, the    *)
(* engine and the application; only a stranded one does not.               *)
Finished(d) == d.occupied /\ d.shut /\ ~d.live /\ ~credit_held(d)
Ending == w.eng /= "open" \/ w.drv.shutdown \/ w.conn = "down"
RecordsReturn ==
    \A s \in Locals \cup Peers :
        Finished(w.ds[s]) /\ ~Stranded(w.ds[s])
            ~> ~(w.ds[s].occupied /\ w.ds[s].shut) \/ Ending
(* Nothing of an ended stream or session is kept for ever.                 *)
MemoryReturns == SessionEndFreesDriver /\ RecordsReturn

(* What session.h says of the local flush (BACKEND is for unexpected loss, *)
(* an accepted cancellation by the application supersedes the output), and *)
(* msq_stream.c of the records (they retire at a safe dispatch root), held *)
(* against a program that calls from within on_stream_opened and the       *)
(* callback that delivers the FIN: one of the two at least is kept.        *)
CallbacksKeepPromises ==
    \/ [](SaidLost => Fate({"lost"}))
    \/ \A s \in Locals \cup Peers :
          Finished(w.ds[s]) ~> ~(w.ds[s].occupied /\ w.ds[s].shut) \/ Ending
=============================================================================
