-------------------------- MODULE SessionContract --------------------------
(***************************************************************************)
(* What the engine promises its user about the one session of a            *)
(* connection (wtq_conn_cb_t of src/src/engine/wt_driver.h, the comments   *)
(* on session_conn_lost and session_closed in src/src/engine/conn.c): the  *)
(* session opens at most once, it ends exactly once and for good, the      *)
(* callbacks tell that story in order, and a lost connection ends it.      *)
(***************************************************************************)
EXTENDS Sequences

VARIABLES
    down,    \* the connection is gone
    phase,   \* "opening", "open", "ended"
    log      \* the callbacks made so far

vars == <<down, phase, log>>

Told(cb) == \E i \in DOMAIN log : log[i] = cb
Say(cb) == log' = Append(log, cb)

Init == down = FALSE /\ phase = "opening" /\ log = <<>>

Establish ==
    /\ ~down /\ phase = "opening"
    /\ phase' = "open" /\ Say("established")
    /\ UNCHANGED down

(* The session ends before it opened: failed, or rejected by the server.   *)
Refuse(cb) ==
    /\ phase = "opening"
    /\ phase' = "ended" /\ Say(cb)
    /\ UNCHANGED down

Drain ==
    /\ ~down /\ phase = "open" /\ ~Told("draining")
    /\ Say("draining")
    /\ UNCHANGED <<down, phase>>

(* An open session ends; the user hears of it after the teardown.          *)
End == phase = "open" /\ phase' = "ended" /\ UNCHANGED <<down, log>>
SayClosed ==
    /\ phase = "ended" /\ Told("established") /\ ~Told("closed")
    /\ Say("closed")
    /\ UNCHANGED <<down, phase>>

GoDown == ~down /\ down' = TRUE /\ UNCHANGED <<phase, log>>
SayConnError ==
    /\ down /\ ~Told("conn_error")
    /\ Say("conn_error")
    /\ UNCHANGED <<down, phase>>

(* What the engine owes without any further input.                         *)
Owed ==
    \/ SayClosed \/ SayConnError
    \/ down /\ (End \/ Refuse("failed"))

Next ==
    \/ Establish \/ Drain \/ End \/ SayClosed \/ GoDown \/ SayConnError
    \/ \E cb \in {"failed", "rejected"} : Refuse(cb)

Spec == Init /\ [][Next]_vars /\ WF_vars(Owed)
=============================================================================
