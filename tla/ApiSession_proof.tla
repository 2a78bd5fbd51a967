-------------------------- MODULE ApiSession_proof --------------------------
(***************************************************************************)
(* Proofs about ApiSession: the session is destroyed when nobody owns it   *)
(* and no call is left on the stack, and then it is; the application hears *)
(* one outcome, behind every stream's close, and no stream event out of    *)
(* order; no handle is given to another stream while a function of the     *)
(* library works on it; and in admission mode a handle and its engine slot *)
(* belong together until the lease ends.  The invariant and the lemmas     *)
(* about the call stack are ApiSessionCalls_proof's; the leases' own       *)
(* invariant, Leased, is at the end of this module.                        *)
(***************************************************************************)
EXTENDS ApiSessionCalls_proof

(* When the teardown is over and no commit waits, every close was told.    *)
LEMMA NoneGiven ==
    ASSUME IInv, terminal, commitDepth = 0,
           N(agenda, "streams_teardown") = 0, NEW h \in Slots
    PROVE  told[h] /= "given"
<1>1. TornLater(agenda, told, h) /\ N(agenda, "committed") = 0
  BY DEF IInv, Accounts
<1>2. agenda \in Seq(Frame)
  BY Numbers
<1>3. M(agenda, "committed", h) \in Nat /\ M(agenda, "committed", h) <= 0
  BY <1>1, <1>2, CountRange
<1>4. \A g \in Waiting(agenda) : g.op /= "streams_teardown"
  <2>1. N(agenda, "streams_teardown") > 0
          <=> \E g \in Waiting(agenda) : g.op = "streams_teardown"
    BY <1>2, CountRange
  <2> QED
    BY <2>1
<1> QED
  BY <1>1, <1>3, <1>4 DEF TornLater

(* A commit's end: the session's deferred on_closed.                       *)
LEMMA CommitEndTells ==
    ASSUME IInv, CommitEnd, deferred, commitDepth = 0
    PROVE  IInv'
<1>1. agenda /= <<>> /\ Head(agenda).op = "commit_end"
  BY DEF CommitEnd, At
<1>2. /\ Head(agenda) \in Frame /\ Tail(agenda) \in Seq(Frame)
      /\ agenda = Put(Head(agenda), Tail(agenda)) /\ ~freed
  BY <1>1, OnTop
<1>3. PICK f \in Frame, q \in Seq(Frame) :
        f = Head(agenda) /\ q = Tail(agenda)
  BY <1>2, Zenon
<1>4. agenda = Put(f, q) /\ f.op = "commit_end" /\ f.at \in Slots
  BY <1>1, <1>2, <1>3 DEF Frame, HandleOps
<1>5. PICK h, t, s, r :
        /\ h \in Slots /\ h = f.at /\ t = told[h] /\ s = OneLess(hs[h]) /\ r = Uncredited(s)
  BY <1>4
<1>6. /\ hs \in [Slots -> HandleType] /\ es \in [Slots -> StreamType]
      /\ told \in ToldType /\ cbDepth \in Nat
  BY Numbers, Zenon DEF IInv, Types
<1>7. /\ hs' = [hs EXCEPT ![h] = r] /\ es' = CreditRelease(s)
      /\ told' = [told EXCEPT ![h] = t] /\ told' = told
      /\ deferred' = FALSE
      /\ TellOutcome("closed") /\ AppThen(<<Exit>>)
      /\ UNCHANGED <<cbDepth, freed, admission, refs, backend, appRefs,
                     attached, running, terminal, commitDepth, sess, closed,
                     streams, late>>
  <2>1. told' = told
    BY DEF CommitEnd
  <2> QED
    BY <2>1, <1>3, <1>5, SameTold DEF CommitEnd, DropRef, This, engine
<1>8. es' \in [Slots -> StreamType] /\ SameLinks
  <2>1. hs[h] \in HandleType
    BY <1>5, <1>6
  <2>2. s.credit \in Slots \cup {None}
    BY <2>1, <1>5, OneGoes, Zenon
  <2> QED
    BY <2>2, <1>6, <1>7, CreditLinks
<1>9. Dropped(q, cbDepth, hs, told, f, h, r, t)
  <2>1. PICK H, T, c : H = hs /\ T = told /\ c = cbDepth
    OBVIOUS
  <2>2. Accounts(Put(f, q), c, H, T) /\ r = Uncredited(OneLess(H[h]))
        /\ f.op \in {"drop", "commit_end"} /\ f.at = h /\ t = T[h]
    BY <2>1, <1>4, <1>5 DEF IInv
  <2>3. Dropped(q, c, H, T, f, h, r, t)
    BY <1>5, <2>2, DropPop, Zenon
  <2> QED
    BY <2>1, <2>3
<1>10. Linked'
  BY <1>5, <1>7, <1>8, <1>9, DropLinks, Zenon DEF Dropped
<1>11. PICK H, T, d, e :
         /\ H = [hs EXCEPT ![h] = r] /\ T = [told EXCEPT ![h] = t]
         /\ d = cbDepth /\ e = cbDepth - 1
  BY Zenon
<1>12. Ready(q, e, H, T)
  <2>1. Bit(f.op \in BracketOps) = 1
    BY <1>4 DEF Bit, BracketOps
  <2> QED
    BY <2>1, <1>9, <1>11 DEF Dropped
<1>13. PICK b : b = Put(Exit, q)
  OBVIOUS
<1>14. Exit \in Frame /\ Exit.op = "exit"
  BY Calls
<1>15. /\ Ready(b, d, H, T) /\ b \in Seq(Frame) /\ b /= <<>>
  <2>1. Ready(b, e + 1, H, T)
    BY <1>12, <1>13, <1>14, ExitCall
  <2>2. e + 1 = d
    BY <1>6, <1>11
  <2> QED
    BY <2>1, <2>2, <1>13, <1>14, PutWaiting
<1>16. PICK p : p = agenda'
  OBVIOUS
<1>17. p = b \/ p = Put(App, b)
  <2>1. p = ((IF Len(<<Exit>> \o q) + 1 < MaxDepth THEN <<App>> ELSE <<>>)
             \o <<Exit>>) \o q
    BY <1>3, <1>7, <1>16 DEF AppThen, AppFirst
  <2>2. <<Exit>> \in Seq(Frame) /\ <<Exit>> \o q = b
    BY <1>13, <1>14 DEF Put
  <2>3. p = <<Exit>> \o q \/ p = Put(App, <<Exit>> \o q)
    BY <2>1, <2>2, AppCase, Zenon
  <2> QED
    BY <2>2, <2>3, Zenon
<1>18. /\ \A op : op \notin {"commit_end", "exit"} => N(b, op) = N(agenda, op)
       /\ \A op : N(b, op) \in Nat
  <2>1. /\ \A op : N(b, op) = N(q, op) + Bit(Exit.op = op)
        /\ \A op : N(agenda, op) = N(q, op) + Bit(f.op = op)
        /\ \A op : N(q, op) \in Nat
    BY <1>4, <1>13, <1>14, PutFacts
  <2> QED
    BY <2>1, <1>4, <1>14 DEF Bit
<1>19. PICK u \in Nat, v \in Nat, w \in Nat :
         /\ u = N(agenda, "tell_closed") /\ v = N(agenda, "tell_failed")
         /\ w = N(agenda, "streams_teardown")
  <2>1. agenda \in Seq(Frame)
    BY Numbers
  <2> QED
    BY <2>1, CountRange
<1>20. terminal /\ outcome = "none" /\ u = 0 /\ v = 0 /\ w = 0
  <2>1. /\ u + v + Bit(deferred) + Bit(outcome /= "none") = Bit(terminal)
        /\ deferred \/ outcome /= "none" => w = 0
    BY <1>19, Zenon DEF IInv, Accounts, Ending
  <2> QED
    BY <2>1 DEF Bit
<1>21. outcome' = "closed"
  BY <1>7, <1>20 DEF TellOutcome
<1>22. \A k \in Slots : T[k] /= "given"
  BY <1>7, <1>11, <1>19, <1>20, NoneGiven
<1>23. Telling(b, H, T)'
  <2>1. sess = "none" => \A k \in Slots : T[k] = "none" /\ ~H[k].alive
    BY <1>15 DEF Ready, Books, Telling
  <2> QED
    BY <2>1, <1>7, <1>22 DEF Telling
<1>24. \A k \in Slots : TornLater(b, T, k)'
  BY <1>22 DEF TornLater
<1>25. Counted(b, d, H)'
  BY <1>7, <1>15 DEF Ready, Books, Counted, Bit
<1>26. Ending(b)'
  <2>1. Ending(agenda)
    BY DEF IInv, Accounts
  <2>2. /\ N(b, "on_session_closed") = N(agenda, "on_session_closed")
        /\ N(b, "on_conn_error") = N(agenda, "on_conn_error")
        /\ N(b, "session_failed") = N(agenda, "session_failed")
        /\ N(b, "streams_teardown") = 0
        /\ N(b, "tell_closed") = 0
        /\ N(b, "tell_failed") = 0
        /\ N(b, "backend_release") = N(agenda, "backend_release")
        /\ N(b, "open_rest") = N(agenda, "open_rest")
        /\ N(b, "conn_fatal") = N(agenda, "conn_fatal")
    BY <1>18, <1>19, <1>20
  <2> QED
    BY <2>1, <2>2, <1>7, <1>20, <1>21 DEF Ending, Bit, Over
<1>27. Types'
  BY <1>7, <1>8, <1>21, Zenon DEF IInv, Types
<1>28. commitDepth' = N(b, "committed")
  BY <1>7, <1>18 DEF IInv
<1>29. freed' <=> (refs' = 0 /\ d = 0)
  BY <1>7, <1>11 DEF IInv
<1>30. /\ Handles(b, H, T) /\ d \in Int
       /\ N(b, "open_rest") > 0 => admission
  BY <1>15 DEF Ready, Books
<1>31. Over => Over'
  BY <1>7 DEF Over
<1> QED
  BY <1>7, <1>10, <1>11, <1>15, <1>16, <1>17, <1>23, <1>24, <1>25, <1>26,
     <1>27, <1>28, <1>29, <1>30, <1>31, Onto, Zenon

(* The end of adapt_send_committed.                                        *)
LEMMA CommitEndStep ==
    ASSUME IInv, CommitEnd
    PROVE  IInv'
<1>1. agenda /= <<>> /\ Head(agenda).op = "commit_end"
  BY DEF CommitEnd, At
<1>2. Head(agenda) \in Frame /\ ~freed
  BY <1>1, OnTop
<1>3. PICK f, h, t : f = Head(agenda) /\ h = f.at /\ t = told[h]
  OBVIOUS
<1>4. h \in Slots /\ f.op = "commit_end"
  BY <1>1, <1>2, <1>3 DEF Frame, HandleOps
<1>5. CASE ~(deferred /\ commitDepth = 0)
  <2>1. PICK d : d = cbDepth - Bit(f.op \in BracketOps)
    OBVIOUS
  <2>2. d = cbDepth - 1
    BY <2>1, <1>4 DEF Bit, BracketOps
  <2>3. Leave /\ Then(<<>>) /\ UNCHANGED <<deferred, outcome>>
    BY <1>5 DEF CommitEnd
  <2>4. /\ freed' \in BOOLEAN /\ cbDepth' = d
        /\ freed' <=> (refs = 0 /\ d = 0)
    BY <2>2, <2>3, <1>2, Leaves
  <2>5. /\ Quiet /\ UNCHANGED <<commitDepth, streams, late>> /\ told' = told
    BY <2>3 DEF CommitEnd, Quiet, engine
  <2>6. told' = [told EXCEPT ![h] = t]
    BY <2>5, <1>3, <1>4, SameTold
  <2>7. agenda' = Tail(agenda) /\ DropRef(h)
    BY <2>3, <1>1, <1>3, ThenNone DEF CommitEnd, This
  <2>8. f.op = "commit_end" /\ deferred => commitDepth > 0
    BY <1>5, Numbers
  <2> QED
    BY <2>1, <2>4, <2>5, <2>6, <2>7, <2>8, <1>1, <1>3, <1>4, DropEnds, Zenon
<1> QED
  BY <1>5, CommitEndTells

-----------------------------------------------------------------------------
(* The session's end: its calls are counted, its handles stay.             *)

(* The stack behind a call of the session, op, that is on top of it.       *)
Cut(q, op) ==
    /\ q = Tail(agenda) /\ q \in Seq(Frame) /\ q /= <<>> /\ ~freed
    /\ Handles(q, hs, told) /\ Counted(q, cbDepth, hs)
    /\ cbDepth \in Nat /\ cbDepth > 0
    /\ N(q, "open_rest") > 0 => admission
    /\ op \in Tells => N(q, "streams_teardown") = 0
    /\ op = "backend_release" => \A g \in Waiting(q) : g.op = "exit"
    /\ \A k : N(q, k) \in Nat /\ N(agenda, k) = N(q, k) + Bit(op = k)
    /\ N(q, "committed") = commitDepth
    /\ \A h \in Slots : TornLater(q, told, h)

(* What is left when it ends.                                              *)
LEMMA PlainTop ==
    ASSUME IInv, agenda /= <<>>, NEW op \in PlainOps \ BracketOps,
           Head(agenda).op = op
    PROVE  Cut(Tail(agenda), op)
<1>1. /\ Head(agenda) \in Frame /\ Tail(agenda) \in Seq(Frame)
      /\ agenda = Put(Head(agenda), Tail(agenda)) /\ ~freed
  BY OnTop
<1>2. PICK f \in Frame, q \in Seq(Frame) :
        f = Head(agenda) /\ q = Tail(agenda)
  BY <1>1, Zenon
<1>3. agenda = Put(f, q) /\ f.op = op
  BY <1>1, <1>2
<1>4. /\ Plain(f) /\ f.op \notin BracketOps /\ f.op /= "service"
      /\ f.op \notin {"streams_teardown", "committed"}
  BY <1>3 DEF Plain, HandleOps, OpenOps, BracketOps, PlainOps
<1>5. /\ Handles(Put(f, q), hs, told) /\ Counted(Put(f, q), cbDepth, hs)
      /\ \A h \in Slots : TornLater(Put(f, q), told, h)
      /\ commitDepth = N(Put(f, q), "committed") /\ cbDepth \in Nat
  BY <1>3, Numbers, Zenon DEF IInv, Accounts, Books
<1>6. /\ Handles(q, hs, told)
      /\ N(q, "open_rest") > 0 => admission
      /\ q /= <<>>
      /\ f.op \in Tells => N(q, "streams_teardown") = 0
      /\ f.op = "backend_release" => \A g \in Waiting(q) : g.op = "exit"
  BY <1>4, <1>5, PlainCall
<1>7. Counted(q, cbDepth, hs)
  <2>1. cbDepth \in Int
    BY <1>5
  <2> QED
    BY <2>1, <1>4, <1>5, AnyCounted
<1>8. /\ \A k : N(Put(f, q), k) = N(q, k) + Bit(f.op = k)
      /\ \A k : N(q, k) \in Nat
      /\ \A k, h : M(Put(f, q), k, h) = M(q, k, h) + Bit(f.op = k /\ f.at = h)
      /\ \A k, h : M(q, k, h) \in Nat
      /\ Waiting(Put(f, q)) = {f} \cup Waiting(q)
  BY PutFacts, Zenon
<1> HIDE DEF Put
<1>9. ASSUME NEW h \in Slots PROVE TornLater(q, told, h)
  <2>1. M(Put(f, q), "committed", h) = M(q, "committed", h)
    BY <1>4, <1>8 DEF Bit
  <2>2. TornLater(Put(f, q), told, h)
    BY <1>5
  <2> QED
    BY <2>1, <2>2, <1>4, <1>8 DEF TornLater
<1>10. N(q, "committed") = commitDepth
  BY <1>4, <1>5, <1>8 DEF Bit
<1>11. cbDepth > 0
  BY <1>5, Numbers
<1>12. \A k : N(q, k) \in Nat /\ N(agenda, k) = N(q, k) + Bit(op = k)
  BY <1>3, <1>8
<1> QED
  BY <1>1, <1>2, <1>3, <1>5, <1>6, <1>7, <1>9, <1>10, <1>11, <1>12 DEF Cut

(* Another call of the session comes.                                      *)
LEMMA PlainPut ==
    ASSUME NEW q, NEW H, NEW T, Handles(q, H, T), q /= <<>>,
           N(q, "open_rest") > 0 => admission, NEW f \in Frame, Plain(f),
           f.op \notin OpenOps \cup {"backend_release"},
           f.op \in Tells => N(q, "streams_teardown") = 0
    PROVE  /\ Handles(Put(f, q), H, T) /\ Put(f, q) /= <<>>
           /\ N(Put(f, q), "open_rest") > 0 => admission
           /\ \A k : N(Put(f, q), k) = N(q, k) + Bit(f.op = k)
           /\ \A k : N(q, k) \in Nat
           /\ Waiting(Put(f, q)) = {f} \cup Waiting(q)
           /\ \A h : f.op /= "committed" =>
                M(Put(f, q), "committed", h) = M(q, "committed", h)
<1>1. q \in Seq(Frame)
  BY DEF Handles
<1>2. /\ \A k : N(Put(f, q), k) = N(q, k) + Bit(f.op = k)
      /\ \A k : N(q, k) \in Nat
      /\ \A k, h : M(Put(f, q), k, h) = M(q, k, h) + Bit(f.op = k /\ f.at = h)
      /\ \A k, h : M(q, k, h) \in Nat
      /\ Waiting(Put(f, q)) = {f} \cup Waiting(q) /\ Put(f, q) /= <<>>
  BY <1>1, PutFacts
<1>3. Handles(Put(f, q), H, T)
  BY <1>1, PlainCall
<1> HIDE DEF Put
<1>4. N(Put(f, q), "open_rest") = N(q, "open_rest")
  BY <1>2 DEF Bit, OpenOps
<1>5. \A h : f.op /= "committed" =>
         M(Put(f, q), "committed", h) = M(q, "committed", h)
  BY <1>2 DEF Bit
<1> QED
  BY <1>2, <1>3, <1>4, <1>5

(* The step as a whole.                                                    *)
LEMMA Turned ==
    ASSUME IInv, ~freed, NEW r, NEW d \in Int, d > 0, NEW H, NEW T,
           H = hs, T = told, Handles(r, H, T), Counted(r, d, H),
           NEW p, p = r \/ (p = Put(App, r) /\ r /= <<>>),
           N(r, "open_rest") > 0 => admission, agenda' = p, cbDepth' = d,
           UNCHANGED <<admission, refs, freed, backend, appRefs, attached,
                       running, commitDepth, hs, es, streams, told, late>>,
           N(r, "committed") = commitDepth, Over => Over',
           terminal' \in BOOLEAN, deferred' \in BOOLEAN, closed' \in BOOLEAN,
           sess' \in {"none", "active", "ended"},
           outcome' \in {"none", "closed", "failed"},
           Telling(r, H, T)', Ending(r)', \A h \in Slots : TornLater(r, T, h)'
    PROVE  IInv'
<1>1. Counted(r, d, H)'
  BY DEF Counted, Bit
<1>2. Types'
  BY DEF IInv, Types
<1>3. Linked'
  BY DEF IInv, Linked
<1>4. /\ freed' <=> (refs' = 0 /\ d = 0)
      /\ commitDepth' = N(r, "committed")
      /\ hs' = H /\ told' = T
  BY DEF IInv
<1> QED
  BY <1>1, <1>2, <1>3, <1>4, Onto

(* A call of the session that is over, and no other comes.                 *)
LEMMA Outcome ==
    ASSUME IInv, NEW op \in Tells, agenda /= <<>>, Head(agenda).op = op
    PROVE  /\ terminal /\ ~deferred /\ outcome = "none"
           /\ N(Tail(agenda), "tell_closed") = 0
           /\ N(Tail(agenda), "tell_failed") = 0
           /\ N(Tail(agenda), "streams_teardown") = 0
           /\ N(agenda, "streams_teardown") = 0
<1>1. op \in PlainOps \ BracketOps
  BY DEF Tells, PlainOps, BracketOps
<1>2. PICK q : q = Tail(agenda)
  BY Zenon
<1>3. Cut(q, op)
  BY <1>1, <1>2, PlainTop
<1>4. PICK u \in Nat, v \in Nat :
        u = N(q, "tell_closed") /\ v = N(q, "tell_failed")
  BY <1>3 DEF Cut
<1>5. /\ N(agenda, "tell_closed") = u + Bit(op = "tell_closed")
      /\ N(agenda, "tell_failed") = v + Bit(op = "tell_failed")
      /\ N(q, "streams_teardown") = 0
      /\ N(agenda, "streams_teardown") = 0 + Bit(op = "streams_teardown")
  BY <1>3, <1>4 DEF Cut
<1>6. /\ deferred \in BOOLEAN /\ terminal \in BOOLEAN
      /\ N(agenda, "tell_closed") + N(agenda, "tell_failed") + Bit(deferred)
           + Bit(outcome /= "none") = Bit(terminal)
  BY DEF IInv, Types, Accounts, Ending
<1>7. Bit(op = "tell_closed") + Bit(op = "tell_failed") = 1
  BY DEF Tells, Bit
<1>8. PICK i \in 0..1, j \in 0..1, m \in 0..1, n \in 0..1, l \in 0..1 :
        /\ i = Bit(op = "tell_closed") /\ j = Bit(op = "tell_failed")
        /\ m = Bit(deferred) /\ n = Bit(outcome /= "none")
        /\ l = Bit(terminal)
  BY DEF Bit
<1>9. i + j = 1 /\ (u + i) + (v + j) + m + n = l
  BY <1>5, <1>6, <1>7, <1>8
<1>10. u = 0 /\ v = 0 /\ m = 0 /\ n = 0 /\ l = 1
  BY <1>9
<1>11. terminal /\ ~deferred /\ outcome = "none"
  BY <1>8, <1>10 DEF Bit
<1>12. Bit(op = "streams_teardown") = 0
  BY DEF Bit, Tells
<1> QED
  BY <1>2, <1>4, <1>5, <1>10, <1>11, <1>12

(* An application's callback with nothing behind it.                       *)
LEMMA AppNone ==
    ASSUME NEW q \in Seq(Frame), q = Tail(agenda), AppThen(<<>>)
    PROVE  agenda' = q \/ agenda' = Put(App, q)
<1>1. PICK c \in Seq(Frame) : c = <<>>
  BY EmptyStack, Zenon
<1>2. c \o q = q
  BY <1>1, Joined
<1>3. PICK p : p = agenda'
  OBVIOUS
<1>4. p = ((IF Len(c \o q) + 1 < MaxDepth THEN <<App>> ELSE <<>>) \o c) \o q
  BY <1>1, <1>3 DEF AppThen, AppFirst
<1>5. p = c \o q \/ p = Put(App, c \o q)
  BY <1>4, AppCase, ZenonT(60)
<1> QED
  BY <1>2, <1>3, <1>5, Zenon

(* on_closed, or its deferral.                                             *)
LEMMA TellSessionClosedStep ==
    ASSUME IInv, TellSessionClosed
    PROVE  IInv'
<1>1. agenda /= <<>> /\ Head(agenda).op = "tell_closed"
  BY DEF TellSessionClosed, At
<1>2. PICK q, d, H, T : q = Tail(agenda) /\ d = cbDepth /\ H = hs /\ T = told
  BY Zenon
<1>3. /\ terminal /\ ~deferred /\ outcome = "none"
      /\ N(q, "tell_closed") = 0 /\ N(q, "tell_failed") = 0
      /\ N(q, "streams_teardown") = 0 /\ N(agenda, "streams_teardown") = 0
  BY <1>1, <1>2, Outcome DEF Tells
<1>4. /\ q \in Seq(Frame) /\ q /= <<>> /\ ~freed
      /\ Handles(q, H, T) /\ Counted(q, d, H)
      /\ d \in Nat /\ d > 0
      /\ N(q, "open_rest") > 0 => admission
      /\ \A k : N(q, k) \in Nat
      /\ \A k : N(agenda, k) = N(q, k) + Bit("tell_closed" = k)
      /\ N(q, "committed") = commitDepth
      /\ \A h \in Slots : TornLater(q, T, h)
  <2>1. Cut(q, "tell_closed")
    BY <1>1, <1>2, PlainTop DEF PlainOps, BracketOps
  <2> QED
    BY <2>1, <1>2 DEF Cut
<1>5. /\ N(q, "on_session_closed") = N(agenda, "on_session_closed")
      /\ N(q, "on_conn_error") = N(agenda, "on_conn_error")
      /\ N(q, "session_failed") = N(agenda, "session_failed")
      /\ N(q, "committed") = N(agenda, "committed")
      /\ N(q, "commit_end") = N(agenda, "commit_end")
      /\ N(q, "backend_release") = N(agenda, "backend_release")
      /\ N(q, "open_rest") = N(agenda, "open_rest")
      /\ N(q, "conn_fatal") = N(agenda, "conn_fatal")
  BY <1>4 DEF Bit
<1>6. Ending(agenda) /\ Telling(agenda, H, T) /\ Types
  BY <1>2 DEF IInv, Accounts, Books
<1>7. UNCHANGED <<admission, refs, cbDepth, freed, backend, appRefs, attached,
                  running, terminal, commitDepth, sess, closed, hs, es,
                  streams, told, late>>
  BY DEF TellSessionClosed, count, engine
<1>8. \A h \in Slots : TornLater(q, T, h)'
  BY <1>4, <1>7 DEF TornLater
<1>9. Over => Over'
  BY <1>7 DEF Over
<1>12. d \in Int /\ cbDepth' = d
  BY <1>2, <1>4, <1>7
<1>10. CASE commitDepth = 0
  <2>1. outcome' = "closed" /\ AppThen(<<>>) /\ deferred' = deferred
    BY <1>3, <1>10 DEF TellSessionClosed, TellOutcome
  <2>2. \A h \in Slots : T[h] /= "given"
    BY <1>2, <1>3, <1>10, NoneGiven, Zenon
  <2>3. Telling(q, H, T)'
    BY <2>1, <2>2, <1>6, <1>7 DEF Telling
  <2>4. Ending(q)'
    BY <2>1, <1>3, <1>5, <1>6, <1>7 DEF Ending, Bit, Over
  <2>5. agenda' = q \/ agenda' = Put(App, q)
    BY <2>1, <1>2, <1>4, AppNone, Zenon
  <2>6. /\ terminal' \in BOOLEAN /\ deferred' \in BOOLEAN
        /\ closed' \in BOOLEAN /\ sess' \in {"none", "active", "ended"}
        /\ outcome' \in {"none", "closed", "failed"}
    BY <2>1, <1>6, <1>7 DEF Types
  <2>7. PICK p : p = agenda'
    OBVIOUS
  <2>8. p = q \/ (p = Put(App, q) /\ q /= <<>>)
    BY <2>5, <2>7, <1>4
  <2> HIDE DEF Put
  <2> QED
    BY ZenonT(60), <2>3, <2>4, <2>6, <2>7, <2>8, <1>2, <1>4, <1>7, <1>8, <1>9,
       <1>12,
       Turned
<1>11. CASE commitDepth /= 0
  <2>1. deferred' = TRUE /\ Then(<<>>) /\ outcome' = outcome
    BY <1>11 DEF TellSessionClosed
  <2>2. agenda' = q
    BY <2>1, <1>1, <1>2, ThenNone
  <2>3. Telling(q, H, T)'
    BY <2>1, <1>3, <1>6, <1>7 DEF Telling
  <2>4. N(q, "committed") > 0 /\ N(q, "commit_end") \in Nat
    BY <1>4, <1>11
  <2>5. Ending(q)'
    <3>6. PICK a \in Nat, b \in Nat :
            a = N(q, "committed") /\ b = N(q, "commit_end")
      BY <1>4
    <3>7. a + b > 0
      BY <2>4, <3>6
    <3>1. /\ N(q, "tell_closed") + N(q, "tell_failed") = 0
          /\ N(q, "committed") + N(q, "commit_end") > 0
      BY <3>6, <3>7, <1>3
    <3>3. N(q, "tell_closed") + N(q, "tell_failed") + Bit(deferred')
            + Bit(outcome' /= "none") = Bit(terminal')
      <4>1. /\ Bit(deferred') = 1 /\ Bit(outcome' /= "none") = 0
            /\ Bit(terminal') = 1
        BY <2>1, <1>3, <1>7 DEF Bit
      <4> QED
        BY <4>1, <1>3
    <3>4. deferred' => N(q, "committed") + N(q, "commit_end") > 0
      BY <3>1
    <3>5. deferred' \/ outcome' /= "none" => N(q, "streams_teardown") = 0
      BY <1>3
    <3> HIDE <2>1
    <3> QED
      BY <3>3, <3>4, <3>5, <1>3, <1>5, <1>6, <1>7, <1>9, Zenon DEF Ending
  <2>6. /\ terminal' \in BOOLEAN /\ deferred' \in BOOLEAN
        /\ closed' \in BOOLEAN /\ sess' \in {"none", "active", "ended"}
        /\ outcome' \in {"none", "closed", "failed"}
    BY <2>1, <1>6, <1>7 DEF Types
  <2>7. PICK p : p = agenda'
    OBVIOUS
  <2>8. p = q \/ (p = Put(App, q) /\ q /= <<>>)
    BY <2>2, <2>7
  <2> HIDE DEF Put
  <2> QED
    BY ZenonT(60), <2>3, <2>5, <2>6, <2>7, <2>8, <1>2, <1>4, <1>7, <1>8, <1>9,
       <1>12,
       Turned
<1> QED
  BY <1>10, <1>11

(* on_failed or on_refused.                                                *)
LEMMA TellSessionFailedStep ==
    ASSUME IInv, TellSessionFailed
    PROVE  IInv'
<1>1. agenda /= <<>> /\ Head(agenda).op = "tell_failed"
  BY DEF TellSessionFailed, At
<1>2. PICK q, d, H, T : q = Tail(agenda) /\ d = cbDepth /\ H = hs /\ T = told
  BY Zenon
<1>3. /\ terminal /\ ~deferred /\ outcome = "none"
      /\ N(q, "tell_closed") = 0 /\ N(q, "tell_failed") = 0
      /\ N(q, "streams_teardown") = 0 /\ N(agenda, "streams_teardown") = 0
  BY <1>1, <1>2, Outcome DEF Tells
<1>4. /\ q \in Seq(Frame) /\ q /= <<>> /\ ~freed
      /\ Handles(q, H, T) /\ Counted(q, d, H)
      /\ d \in Nat /\ d > 0
      /\ N(q, "open_rest") > 0 => admission
      /\ \A k : N(q, k) \in Nat
      /\ \A k : N(agenda, k) = N(q, k) + Bit("tell_failed" = k)
      /\ N(q, "committed") = commitDepth
      /\ \A h \in Slots : TornLater(q, T, h)
  <2>1. Cut(q, "tell_failed")
    BY <1>1, <1>2, PlainTop DEF PlainOps, BracketOps
  <2> QED
    BY <2>1, <1>2 DEF Cut
<1>5. /\ N(q, "on_session_closed") = N(agenda, "on_session_closed")
      /\ N(q, "on_conn_error") = N(agenda, "on_conn_error")
      /\ N(q, "session_failed") = N(agenda, "session_failed")
      /\ N(q, "committed") = N(agenda, "committed")
      /\ N(q, "commit_end") = N(agenda, "commit_end")
      /\ N(q, "backend_release") = N(agenda, "backend_release")
      /\ N(q, "open_rest") = N(agenda, "open_rest")
      /\ N(q, "conn_fatal") = N(agenda, "conn_fatal")
      /\ N(agenda, "tell_failed") = 1
  BY <1>3, <1>4 DEF Bit
<1>6. Ending(agenda) /\ Telling(agenda, H, T) /\ Types
  BY <1>2 DEF IInv, Accounts, Books
<1>7. UNCHANGED <<admission, refs, cbDepth, freed, backend, appRefs, attached,
                  running, terminal, deferred, commitDepth, sess, closed, hs,
                  es, streams, told, late>>
  BY DEF TellSessionFailed, count, engine, flags
<1>8. \A h \in Slots : TornLater(q, T, h)'
  BY <1>4, <1>7 DEF TornLater
<1>9. Over => Over'
  BY <1>7 DEF Over
<1>10. outcome' = "failed" /\ AppThen(<<>>)
  BY <1>3 DEF TellSessionFailed, TellOutcome
<1>11. Telling(q, H, T)'
  BY <1>5, <1>6, <1>7, <1>10 DEF Telling
<1>12. Ending(q)'
  BY <1>3, <1>5, <1>6, <1>7, <1>10 DEF Ending, Bit, Over
<1>13. PICK p : p = agenda'
  OBVIOUS
<1>14. p = q \/ (p = Put(App, q) /\ q /= <<>>)
  BY <1>2, <1>4, <1>10, <1>13, AppNone, Zenon
<1>15. /\ terminal' \in BOOLEAN /\ deferred' \in BOOLEAN
       /\ closed' \in BOOLEAN /\ sess' \in {"none", "active", "ended"}
       /\ outcome' \in {"none", "closed", "failed"}
  BY <1>6, <1>7, <1>10 DEF Types
<1>16. d \in Int /\ cbDepth' = d
  BY <1>2, <1>4, <1>7
<1> HIDE DEF Put
<1> QED
  BY ZenonT(60), <1>2, <1>4, <1>7, <1>8, <1>9, <1>11, <1>12, <1>13, <1>14,
     <1>15, <1>16,
     Turned

-----------------------------------------------------------------------------
(* The terminal adapters.                                                  *)

(* What comes on top of stack q: a bracket's end, the session's last call  *)
(* and, in most cases, the streams' teardown.                              *)
Lasts(r, q, d, H, T, tell, tear) ==
    /\ Handles(r, H, T) /\ Counted(r, d + 1, H) /\ r /= <<>>
    /\ N(r, "open_rest") > 0 => admission
    /\ \A k : N(r, k) = N(q, k) + Bit(k = "exit") + Bit(k = tell)
                          + Bit(tear /\ k = "streams_teardown")
    /\ \A h : M(r, "committed", h) = M(q, "committed", h)
    /\ Waiting(q) \subseteq Waiting(r)
    /\ tear => \E f \in Waiting(r) : f.op = "streams_teardown" /\ f.x = Slots

(* One call of the session on stack q, which becomes p.                    *)
Puts(p, f, q, H, T) ==
    /\ Handles(p, H, T) /\ p /= <<>>
    /\ N(p, "open_rest") > 0 => admission
    /\ \A k : N(p, k) = N(q, k) + Bit(f.op = k)
    /\ \A k : N(q, k) \in Nat
    /\ Waiting(p) = {f} \cup Waiting(q)
    /\ \A h : f.op /= "committed" =>
         M(p, "committed", h) = M(q, "committed", h)

(* Such a call works on no handle, so no handle's books change.            *)
LEMMA PlainPuts ==
    ASSUME NEW q, NEW H, NEW T, Handles(q, H, T), q /= <<>>,
           N(q, "open_rest") > 0 => admission, NEW f \in Frame, Plain(f),
           f.op \notin OpenOps \cup {"backend_release"},
           f.op \in Tells => N(q, "streams_teardown") = 0,
           NEW p, p = Put(f, q)
    PROVE  Puts(p, f, q, H, T)
BY PlainPut DEF Puts

(* The calls as they are put one by one.                                   *)
LEMMA LastCalls ==
    ASSUME NEW q, NEW d \in Int, NEW H, NEW T, Handles(q, H, T),
           Counted(q, d, H), q /= <<>>, N(q, "open_rest") > 0 => admission,
           N(q, "streams_teardown") = 0, NEW tell \in Tells,
           NEW tear \in BOOLEAN, NEW r,
           r = IF tear THEN Put(Teardown, Put(Call(tell), Put(Exit, q)))
                       ELSE Put(Call(tell), Put(Exit, q))
    PROVE  Lasts(r, q, d, H, T, tell, tear)
<1>1. PICK e \in Frame, g \in Frame, s \in Frame :
        /\ e = Exit /\ g = Call(tell) /\ s = Teardown
        /\ e.op = "exit" /\ g.op = tell /\ s.op = "streams_teardown"
        /\ s.x = Slots
  <2>1. Exit \in Frame /\ Exit.op = "exit"
    BY Calls
  <2>2. Call(tell) \in Frame /\ Call(tell).op = tell
    BY Calls DEF Tells, PlainOps
  <2>3. /\ [Call("streams_teardown") EXCEPT !.x = Slots] \in Frame
        /\ [Call("streams_teardown") EXCEPT !.x = Slots].op = "streams_teardown"
        /\ [Call("streams_teardown") EXCEPT !.x = Slots].x = Slots
    <3>1. "streams_teardown" \in SlotSetOps /\ Slots \in SUBSET Slots
      BY DEF SlotSetOps
    <3> QED
      BY <3>1, Calls, Zenon
  <2>4. Teardown \in Frame /\ Teardown.op = "streams_teardown" /\ Teardown.x = Slots
    BY <2>3 DEF Teardown
  <2> QED
    BY <2>1, <2>2, <2>4
<1>2. PICK a, b, c : a = Put(e, q) /\ b = Put(g, a) /\ c = Put(s, b)
  OBVIOUS
<1>3. /\ Plain(e) /\ Plain(g) /\ Plain(s)
      /\ e.op \notin OpenOps \cup {"backend_release"} \cup Tells
      /\ g.op \notin OpenOps \cup {"backend_release"}
      /\ s.op \notin OpenOps \cup {"backend_release"} \cup Tells
      /\ e.op /= "committed" /\ g.op /= "committed" /\ s.op /= "committed"
      /\ e.op \in BracketOps /\ g.op \notin BracketOps /\ s.op \notin BracketOps
      /\ e.op /= "service" /\ g.op /= "service" /\ s.op /= "service"
  BY <1>1 DEF Plain, HandleOps, OpenOps, Tells, BracketOps
<1>4. /\ Handles(a, H, T) /\ a /= <<>>
      /\ N(a, "open_rest") > 0 => admission
      /\ \A k : N(a, k) = N(q, k) + Bit(e.op = k)
      /\ \A k : N(q, k) \in Nat
      /\ Waiting(a) = {e} \cup Waiting(q)
      /\ \A h : M(a, "committed", h) = M(q, "committed", h)
  <2>1. Puts(a, e, q, H, T)
    BY <1>2, <1>3, PlainPuts
  <2> QED
    BY <2>1, <1>3 DEF Puts
<1>5. N(a, "streams_teardown") = 0
  BY <1>1, <1>4 DEF Bit
<1>6. /\ Handles(b, H, T) /\ b /= <<>>
      /\ N(b, "open_rest") > 0 => admission
      /\ \A k : N(b, k) = N(a, k) + Bit(g.op = k)
      /\ Waiting(b) = {g} \cup Waiting(a)
      /\ \A h : M(b, "committed", h) = M(a, "committed", h)
  <2>1. Puts(b, g, a, H, T)
    BY <1>2, <1>3, <1>4, <1>5, PlainPuts
  <2> QED
    BY <2>1, <1>3 DEF Puts
<1>7. /\ Handles(c, H, T) /\ c /= <<>>
      /\ N(c, "open_rest") > 0 => admission
      /\ \A k : N(c, k) = N(b, k) + Bit(s.op = k)
      /\ Waiting(c) = {s} \cup Waiting(b)
      /\ \A h : M(c, "committed", h) = M(b, "committed", h)
  <2>1. Puts(c, s, b, H, T)
    BY <1>2, <1>3, <1>6, PlainPuts
  <2> QED
    BY <2>1, <1>3 DEF Puts
<1>8. q \in Seq(Frame) /\ a \in Seq(Frame) /\ b \in Seq(Frame)
  BY <1>4, <1>6 DEF Handles
<1>9. /\ Counted(a, d + 1, H) <=> Counted(q, d, H)
      /\ Counted(b, d + 1, H) <=> Counted(a, d + 1, H)
      /\ Counted(c, d + 1, H) <=> Counted(b, d + 1, H)
  <2>1. d + 1 \in Int
    OBVIOUS
  <2>2. Counted(a, d + 1, H) <=> Counted(q, d, H)
    BY <1>2, <1>3, <1>8, AnyCounted
  <2>3. Counted(b, d + 1, H) <=> Counted(a, d + 1, H)
    BY <2>1, <1>2, <1>3, <1>8, AnyCounted
  <2>4. Counted(c, d + 1, H) <=> Counted(b, d + 1, H)
    BY <2>1, <1>2, <1>3, <1>8, AnyCounted
  <2> QED
    BY <2>2, <2>3, <2>4
<1> HIDE DEF Put
<1>10. CASE tear
  <2>1. r = c
    BY <1>10, <1>1, <1>2
  <2>2. \A k : N(c, k) = N(q, k) + Bit(k = "exit") + Bit(k = tell)
                          + Bit(tear /\ k = "streams_teardown")
    BY <1>10, <1>1, <1>4, <1>6, <1>7 DEF Bit
  <2>3. Waiting(q) \subseteq Waiting(c) /\ s \in Waiting(c)
    BY <1>4, <1>6, <1>7
  <2>4. \A h : M(c, "committed", h) = M(q, "committed", h)
    BY <1>4, <1>6, <1>7
  <2> QED
    BY <2>1, <2>2, <2>3, <2>4, <1>1, <1>7, <1>9 DEF Lasts
<1>11. CASE ~tear
  <2>1. r = b
    BY <1>11, <1>1, <1>2
  <2>2. \A k : N(b, k) = N(q, k) + Bit(k = "exit") + Bit(k = tell)
                          + Bit(tear /\ k = "streams_teardown")
    BY <1>11, <1>1, <1>4, <1>6 DEF Bit
  <2>3. Waiting(q) \subseteq Waiting(b)
    BY <1>4, <1>6
  <2>4. \A h : M(b, "committed", h) = M(q, "committed", h)
    BY <1>4, <1>6
  <2> QED
    BY <2>1, <2>2, <2>3, <2>4, <1>11, <1>6, <1>9 DEF Lasts
<1> QED
  BY <1>10, <1>11

(* Calls on top of a call.                                                 *)
LEMMA PutsOn ==
    ASSUME NEW f \in Frame, NEW g \in Frame, NEW e \in Frame,
           NEW q \in Seq(Frame)
    PROVE  /\ (<<f, g>> \o <<e>>) \o q = Put(f, Put(g, Put(e, q)))
           /\ (<<f>> \o <<e>>) \o q = Put(f, Put(e, q))
<1>1. /\ <<f, g>> \in Seq(Frame) /\ <<f>> \in Seq(Frame)
      /\ <<e>> \in Seq(Frame)
  OBVIOUS
<1>2. PICK p \in Seq(Frame) : p = Put(e, q) /\ p = <<e>> \o q
  BY <1>1, PutPlaces, Zenon DEF Put
<1>3. (<<f, g>> \o <<e>>) \o q = <<f, g>> \o p
  BY <1>1, <1>2, ConcatAssociative
<1>4. (<<f>> \o <<e>>) \o q = <<f>> \o p
  BY <1>1, <1>2, ConcatAssociative
<1>5. <<f, g>> \o p = Put(f, Put(g, p))
  BY PutTwo
<1> QED
  BY <1>2, <1>3, <1>4, <1>5, Zenon DEF Put

(* A terminal adapter's step: the first of them tells the application how  *)
(* the session ends, the others only leave their bracket.                  *)
LEMMA LastStep ==
    ASSUME IInv, NEW op \in {"on_session_closed", "on_conn_error",
                             "session_failed"},
           NEW tell \in Tells, NEW tear \in BOOLEAN, NEW calls,
           calls = IF tear THEN <<Teardown, Call(tell)>> ELSE <<Call(tell)>>,
           OnceTerminal(op, calls), sess' = sess \/ sess' = "ended",
           UNCHANGED <<admission, refs, freed, backend, appRefs, attached,
                       running, commitDepth, deferred, closed, hs, es,
                       streams, history>>,
           ~terminal => Over',
           ~tear /\ ~terminal => \A h \in Slots : told[h] /= "given",
           tell = "tell_failed" /\ ~terminal =>
             closed \/ \A h \in Slots : told[h] /= "given"
    PROVE  IInv'
<1>1. agenda /= <<>> /\ Head(agenda).op = op
  BY DEF OnceTerminal, At
<1>2. PICK q, d, H, T : q = Tail(agenda) /\ d = cbDepth /\ H = hs /\ T = told
  BY Zenon
<1>3. /\ q \in Seq(Frame) /\ q /= <<>> /\ ~freed
      /\ Handles(q, H, T) /\ Counted(q, d, H)
      /\ d \in Nat /\ d > 0
      /\ N(q, "open_rest") > 0 => admission
      /\ \A k : N(q, k) \in Nat
      /\ \A k : N(agenda, k) = N(q, k) + Bit(op = k)
      /\ N(q, "committed") = commitDepth
      /\ \A h \in Slots : TornLater(q, T, h)
  <2>1. Cut(q, op)
    <3>1. op \in PlainOps \ BracketOps
      BY DEF PlainOps, BracketOps
    <3> QED
      BY <3>1, <1>1, <1>2, PlainTop
  <2> QED
    BY <2>1, <1>2 DEF Cut
<1>4. /\ N(q, "streams_teardown") = N(agenda, "streams_teardown")
      /\ N(q, "tell_closed") = N(agenda, "tell_closed")
      /\ N(q, "tell_failed") = N(agenda, "tell_failed")
      /\ N(q, "committed") = N(agenda, "committed")
      /\ N(q, "commit_end") = N(agenda, "commit_end")
      /\ N(q, "backend_release") = N(agenda, "backend_release")
      /\ N(q, "open_rest") = N(agenda, "open_rest")
      /\ N(q, "conn_fatal") = N(agenda, "conn_fatal")
  <2>1. \A k : k /= op => N(agenda, k) = N(q, k)
    BY <1>3 DEF Bit
  <2> QED
    BY <2>1
<1>5. /\ N(q, "on_session_closed") > 0 => N(agenda, "on_session_closed") > 0
      /\ N(q, "on_conn_error") > 0 => N(agenda, "on_conn_error") > 0
  <2>1. \A b : Bit(b) \in Nat
    BY DEF Bit
  <2> QED
    BY <2>1, <1>3
<1>6. Ending(agenda) /\ Telling(agenda, H, T) /\ Types
  BY <1>2 DEF IInv, Accounts, Books
<1>7. /\ cbDepth' = d + 1 /\ terminal' = TRUE
      /\ agenda' = ((IF terminal THEN <<>> ELSE calls) \o <<Exit>>) \o q
  BY <1>2 DEF OnceTerminal, Then
<1>8. /\ admission' = admission /\ backend' = backend /\ attached' = attached
      /\ deferred' = deferred /\ closed' = closed /\ outcome' = outcome
  BY DEF history
<1>9. /\ terminal' \in BOOLEAN /\ deferred' \in BOOLEAN
      /\ closed' \in BOOLEAN /\ sess' \in {"none", "active", "ended"}
      /\ outcome' \in {"none", "closed", "failed"}
  BY <1>6, <1>7, <1>8 DEF Types
<1>10. Over => Over'
  BY <1>8 DEF Over
<1>11. d + 1 \in Int /\ d + 1 > 0
  BY <1>3
<1>12. UNCHANGED <<admission, refs, freed, backend, appRefs, attached,
                   running, commitDepth, hs, es, streams, told, late>>
  BY DEF history
<1>13. /\ Exit \in Frame /\ Exit.op = "exit" /\ Call(tell) \in Frame
       /\ Call(tell).op = tell /\ Teardown \in Frame
  <2>1. Exit \in Frame /\ Exit.op = "exit"
    BY Calls
  <2>2. Call(tell) \in Frame /\ Call(tell).op = tell
    BY Calls DEF Tells, PlainOps
  <2>3. Teardown \in Frame
    <3>1. "streams_teardown" \in SlotSetOps /\ Slots \in SUBSET Slots
      BY DEF SlotSetOps
    <3> QED
      BY <3>1, Calls, Zenon DEF Teardown
  <2> QED
    BY <2>1, <2>2, <2>3
<1>14. CASE terminal
  <2>1. PICK e, r : e \in Frame /\ e = Exit /\ r = Put(e, q) /\ e.op = "exit"
    BY <1>13
  <2>2. agenda' = r
    <3>1. <<>> \o <<Exit>> = <<Exit>>
      BY <1>13
    <3> QED
      BY <3>1, <2>1, <1>7, <1>14 DEF Put
  <2>3. Puts(r, e, q, H, T)
    <3>1. Plain(e) /\ e.op \notin OpenOps \cup {"backend_release"} \cup Tells
      BY <2>1 DEF Plain, HandleOps, OpenOps, Tells
    <3> QED
      BY <3>1, <2>1, <1>3, PlainPuts
  <2>4. /\ Handles(r, H, T) /\ r /= <<>>
        /\ N(r, "open_rest") > 0 => admission
        /\ \A k : k /= "exit" => N(r, k) = N(q, k)
        /\ \A h : M(r, "committed", h) = M(q, "committed", h)
        /\ Waiting(q) \subseteq Waiting(r)
    BY <2>1, <2>3 DEF Puts, Bit
  <2>5. Counted(r, d + 1, H)
    <3>1. e.op \in BracketOps /\ e.op /= "service" /\ d \in Int
      BY <2>1, <1>3 DEF BracketOps
    <3> QED
      BY <3>1, <2>1, <1>3, AnyCounted
  <2>6. ASSUME NEW h \in Slots PROVE TornLater(r, T, h)'
    BY <2>4, <1>3, <1>14 DEF TornLater
  <2>7. Telling(r, H, T)'
    BY <2>4, <1>4, <1>6, <1>8 DEF Telling
  <2>8. Ending(r)'
    <3>1. /\ N(r, "tell_closed") + N(r, "tell_failed") + Bit(deferred')
               + Bit(outcome' /= "none") = Bit(terminal')
          /\ terminal' => Over'
      BY <2>4, <1>4, <1>6, <1>7, <1>8, <1>10, <1>14, Zenon DEF Ending
    <3>2. /\ N(r, "on_session_closed") > 0 => sess' = "ended"
          /\ N(r, "on_conn_error") > 0 => closed'
      BY <2>4, <1>5, <1>6, <1>8 DEF Ending
    <3>3. /\ deferred' => N(r, "committed") + N(r, "commit_end") > 0
          /\ ~backend' => closed'
          /\ N(r, "backend_release") > 0 =>
                backend' /\ (closed' \/ N(r, "conn_fatal") > 0)
          /\ deferred' \/ outcome' /= "none" => N(r, "streams_teardown") = 0
          /\ attached' => admission'
      BY <2>4, <1>4, <1>6, <1>8 DEF Ending
    <3>4. N(r, "open_rest") > 0 => admission'
      BY <2>4, <1>8
    <3> QED
      BY <3>1, <3>2, <3>3, <3>4, <1>7, Zenon DEF Ending
  <2>9. N(r, "committed") = commitDepth
    BY <2>4, <1>3
  <2>10. PICK p : p = agenda' /\ p = r
    BY <2>2
  <2> HIDE DEF Put
  <2> QED
    BY <2>4, <2>5, <2>6, <2>7, <2>8, <2>9, <2>10, <1>2, <1>3, <1>7, <1>9,
       <1>10, <1>11, <1>12, Turned
<1>15. CASE ~terminal
  <2>1. /\ N(q, "tell_closed") = 0 /\ N(q, "tell_failed") = 0
        /\ ~deferred /\ outcome = "none" /\ N(q, "streams_teardown") = 0
    <3>1. PICK u \in Nat, v \in Nat, w \in Nat :
            /\ u = N(q, "tell_closed") /\ v = N(q, "tell_failed")
            /\ w = N(q, "streams_teardown")
      BY <1>3
    <3>2. PICK i \in 0..1, j \in 0..1 :
            i = Bit(deferred) /\ j = Bit(outcome /= "none")
      BY DEF Bit
    <3>3. u + v + i + j = 0
      BY <3>1, <3>2, <1>4, <1>6, <1>15 DEF Ending, Bit
    <3>4. u = 0 /\ v = 0 /\ i = 0 /\ j = 0
      BY <3>3
    <3>5. ~(w > 0)
      BY <3>1, <1>4, <1>6, <1>15 DEF Ending
    <3> QED
      BY <3>1, <3>2, <3>4, <3>5, <1>6 DEF Bit, Types
  <2>2. PICK r : r = IF tear
                     THEN Put(Teardown, Put(Call(tell), Put(Exit, q)))
                     ELSE Put(Call(tell), Put(Exit, q))
    OBVIOUS
  <2>3. agenda' = r
    <3>1. agenda' = (calls \o <<Exit>>) \o q
      BY <1>7, <1>15
    <3>2. PICK e, g, s : e = Exit /\ g = Call(tell) /\ s = Teardown
      OBVIOUS
    <3>3. e \in Frame /\ g \in Frame /\ s \in Frame
      BY <3>2, <1>13
    <3>4. /\ (<<s, g>> \o <<e>>) \o q = Put(s, Put(g, Put(e, q)))
          /\ (<<g>> \o <<e>>) \o q = Put(g, Put(e, q))
      BY <3>3, <1>3, PutsOn, ZenonT(60)
    <3>5. CASE tear
      BY <3>1, <3>2, <3>4, <3>5, <2>2
    <3>6. CASE ~tear
      BY <3>1, <3>2, <3>4, <3>6, <2>2
    <3> QED
      BY <3>5, <3>6
  <2>4. Lasts(r, q, d, H, T, tell, tear)
    <3>1. d \in Int
      BY <1>3
    <3> QED
      BY <3>1, <2>1, <2>2, <1>3, LastCalls
  <2>5. /\ Handles(r, H, T) /\ Counted(r, d + 1, H) /\ r /= <<>>
        /\ N(r, "open_rest") > 0 => admission
        /\ \A h : M(r, "committed", h) = M(q, "committed", h)
        /\ Waiting(q) \subseteq Waiting(r)
        /\ tear => \E f \in Waiting(r) : f.op = "streams_teardown" /\ f.x = Slots
        /\ \A k : N(r, k) = N(q, k) + Bit(k = "exit") + Bit(k = tell)
                              + Bit(tear /\ k = "streams_teardown")
    BY <2>4 DEF Lasts
  <2>6. /\ \A k : k \notin {"exit", "streams_teardown"} \cup Tells
                    => N(r, k) = N(q, k)
        /\ N(r, "tell_closed") + N(r, "tell_failed") = 1
        /\ N(r, "tell_failed") > 0 => tell = "tell_failed"
    BY <2>1, <2>5, <1>3 DEF Tells, Bit
  <2>7. ASSUME NEW h \in Slots PROVE TornLater(r, T, h)'
    <3>1. CASE tear
      BY <3>1, <2>5 DEF TornLater
    <3>2. CASE ~tear
      BY <3>2, <1>2, <1>15 DEF TornLater
    <3> QED
      BY <3>1, <3>2
  <2>8. Telling(r, H, T)'
    BY <2>1, <2>6, <1>2, <1>6, <1>8, <1>15 DEF Telling
  <2>9. Ending(r)'
    <3>1. /\ N(r, "tell_closed") + N(r, "tell_failed") + Bit(deferred')
               + Bit(outcome' /= "none") = Bit(terminal')
      BY <2>1, <2>6, <1>7, <1>8 DEF Bit
    <3>2. /\ N(r, "on_session_closed") > 0 => sess' = "ended"
          /\ N(r, "on_conn_error") > 0 => closed'
      BY <2>6, <1>5, <1>6, <1>8 DEF Ending, Tells
    <3>3. /\ ~backend' => closed'
          /\ N(r, "backend_release") > 0 =>
                backend' /\ (closed' \/ N(r, "conn_fatal") > 0)
          /\ attached' => admission'
      BY <2>6, <1>4, <1>6, <1>8 DEF Ending, Tells
    <3>4. N(r, "open_rest") > 0 => admission'
      BY <2>5, <1>8
    <3>5. ~deferred' /\ outcome' = "none" /\ Over' /\ terminal'
      BY <2>1, <1>7, <1>8, <1>15
    <3> QED
      BY <3>1, <3>2, <3>3, <3>4, <3>5, Zenon DEF Ending
  <2>10. N(r, "committed") = commitDepth
    BY <2>6, <1>3 DEF Tells
  <2>11. PICK p : p = agenda' /\ p = r
    BY <2>3
  <2> HIDE DEF Put
  <2> QED
    BY <2>5, <2>7, <2>8, <2>9, <2>10, <2>11, <1>2, <1>3, <1>7, <1>9,
       <1>10, <1>11, <1>12, Turned
<1> QED
  BY <1>14, <1>15

(* adapt_session_closed, the connection error's adapter, and adapt_failed. *)
LEMMA AdaptSessionClosedStep ==
    ASSUME IInv, AdaptSessionClosed
    PROVE  IInv'
<1>1. "tell_closed" \in Tells /\ TRUE \in BOOLEAN
  BY DEF Tells
<1>2. sess = "ended"
  <2>1. agenda /= <<>> /\ Head(agenda).op = "on_session_closed"
    BY DEF AdaptSessionClosed, OnceTerminal, At
  <2>2. Cut(Tail(agenda), "on_session_closed")
    BY <2>1, PlainTop DEF PlainOps, BracketOps
  <2>3. N(agenda, "on_session_closed") > 0
    BY <2>2 DEF Cut, Bit
  <2> QED
    BY <2>3 DEF IInv, Accounts, Ending
<1>3. PICK calls : calls = <<Teardown, Call("tell_closed")>>
  BY Zenon
<1>4. /\ OnceTerminal("on_session_closed", calls)
      /\ UNCHANGED <<admission, refs, freed, backend, appRefs, attached,
                     running, commitDepth, deferred, closed, hs, es,
                     streams, history>>
      /\ sess' = sess
  BY <1>3 DEF AdaptSessionClosed, engine
<1>5. Over'
  BY <1>2, <1>4 DEF Over
<1> QED
  BY <1>1, <1>3, <1>4, <1>5, LastStep, Zenon

(* adapt_conn_error.                                                       *)
LEMMA AdaptConnErrorStep ==
    ASSUME IInv, AdaptConnError
    PROVE  IInv'
<1>1. "tell_failed" \in Tells /\ TRUE \in BOOLEAN
  BY DEF Tells
<1>2. closed
  <2>1. agenda /= <<>> /\ Head(agenda).op = "on_conn_error"
    BY DEF AdaptConnError, OnceTerminal, At
  <2>2. Cut(Tail(agenda), "on_conn_error")
    BY <2>1, PlainTop DEF PlainOps, BracketOps
  <2>3. N(agenda, "on_conn_error") > 0
    BY <2>2 DEF Cut, Bit
  <2> QED
    BY <2>3 DEF IInv, Accounts, Ending
<1>3. PICK calls : calls = <<Teardown, Call("tell_failed")>>
  BY Zenon
<1>4. /\ OnceTerminal("on_conn_error", calls)
      /\ UNCHANGED <<admission, refs, freed, backend, appRefs, attached,
                     running, commitDepth, deferred, closed, hs, es,
                     streams, history>>
      /\ sess' = sess
  BY <1>3 DEF AdaptConnError, engine
<1>5. Over'
  BY <1>2, <1>4 DEF Over
<1> QED
  BY <1>1, <1>2, <1>3, <1>4, <1>5, LastStep, Zenon

(* adapt_failed and adapt_rejected.                                        *)
LEMMA AdaptFailedStep ==
    ASSUME IInv, AdaptFailed
    PROVE  IInv'
<1>1. "tell_failed" \in Tells /\ FALSE \in BOOLEAN
  BY DEF Tells
<1>2. ~terminal => \A h \in Slots : told[h] /= "given"
  <2>1. agenda /= <<>> /\ Head(agenda).op = "session_failed"
    BY DEF AdaptFailed, OnceTerminal, At
  <2>2. Cut(Tail(agenda), "session_failed")
    BY <2>1, PlainTop DEF PlainOps, BracketOps
  <2>3. N(agenda, "session_failed") > 0
    BY <2>2 DEF Cut, Bit
  <2>4. sess = "none" \/ terminal
    BY <2>3 DEF IInv, Accounts, Ending
  <2> QED
    BY <2>4, Zenon DEF IInv, Accounts, Books, Telling
<1>3. PICK calls : calls = <<Call("tell_failed")>>
  BY Zenon
<1>4. /\ OnceTerminal("session_failed", calls)
      /\ UNCHANGED <<admission, refs, freed, backend, appRefs, attached,
                     running, commitDepth, deferred, closed, hs, es,
                     streams, history>>
      /\ sess' = "ended"
  BY <1>3 DEF AdaptFailed
<1>5. Over'
  BY <1>4 DEF Over
<1> QED
  BY <1>1, <1>2, <1>3, <1>4, <1>5, LastStep, Zenon

-----------------------------------------------------------------------------
(* A connection error, and the engine's end of a session.                  *)

(* Calls of kinds S come on top of stack q, one of each kind.              *)
Piled(r, q, d, H, T, S) ==
    /\ Handles(r, H, T) /\ Counted(r, d, H) /\ r /= <<>>
    /\ N(r, "open_rest") > 0 => admission
    /\ \A k : k \notin S => N(r, k) = N(q, k)
    /\ \A k \in S : N(r, k) = N(q, k) + 1
    /\ \A k : N(q, k) \in Nat
    /\ \A h : M(r, "committed", h) = M(q, "committed", h)
    /\ Waiting(q) \subseteq Waiting(r)

(* One call of the kinds.                                                  *)
LEMMA OnePiled ==
    ASSUME NEW q, NEW d \in Int, NEW H, NEW T, Handles(q, H, T),
           Counted(q, d, H), q /= <<>>, N(q, "open_rest") > 0 => admission,
           NEW f \in Frame,
           f.op \in (PlainOps \cup SlotSetOps) \ (BracketOps \cup Tells
                       \cup {"backend_release", "open_failed"}),
           NEW r, r = Put(f, q)
    PROVE  Piled(r, q, d, H, T, {f.op})
<1>1. /\ Plain(f) /\ f.op \notin OpenOps \cup {"backend_release"} \cup Tells
      /\ f.op \notin BracketOps /\ f.op /= "service" /\ f.op /= "committed"
  BY DEF Plain, HandleOps, OpenOps, Tells, BracketOps, PlainOps, SlotSetOps
<1>2. Puts(r, f, q, H, T)
  BY <1>1, PlainPuts
<1>3. q \in Seq(Frame)
  BY DEF Handles
<1>4. Counted(r, d, H)
  BY <1>1, <1>3, AnyCounted
<1> QED
  BY <1>1, <1>2, <1>4 DEF Puts, Piled, Bit

(* Two of them.                                                            *)
LEMMA TwoPiled ==
    ASSUME NEW q, NEW r, NEW p, NEW d, NEW H, NEW T, NEW a, NEW b, a /= b,
           Piled(r, q, d, H, T, {a}), Piled(p, r, d, H, T, {b})
    PROVE  Piled(p, q, d, H, T, {a, b})
<1>1. /\ Handles(p, H, T) /\ Counted(p, d, H) /\ p /= <<>>
      /\ N(p, "open_rest") > 0 => admission
      /\ Waiting(q) \subseteq Waiting(p)
      /\ \A k : N(q, k) \in Nat
  BY DEF Piled
<1>2. \A h : M(p, "committed", h) = M(q, "committed", h)
  BY DEF Piled
<1>3. \A k : k \notin {a, b} => N(p, k) = N(q, k)
  BY DEF Piled
<1>4. N(p, a) = N(q, a) + 1 /\ N(p, b) = N(q, b) + 1
  BY DEF Piled
<1> QED
  BY <1>1, <1>2, <1>3, <1>4 DEF Piled

(* The step of a call of the session that leaves others behind, with the   *)
(* session or the connection over.                                         *)
LEMMA PiledStep ==
    ASSUME IInv, NEW q, NEW op, Cut(q, op), NEW S, NEW r,
           Piled(r, q, cbDepth, hs, told, S), agenda' = r,
           UNCHANGED <<admission, count, flags, hs, es, streams, history>>,
           closed' \in BOOLEAN, sess' \in {"none", "active", "ended"},
           closed => closed', sess' = sess \/ (sess /= "none" /\ sess' = "ended"),
           op \in {"conn_fatal", "session_closed"},
           op = "conn_fatal" => closed',
           S \cap (Tells \cup {"streams_teardown", "committed", "commit_end",
                               "backend_release", "conn_fatal"}) = {},
           "on_session_closed" \in S => sess' = "ended",
           "on_conn_error" \in S => closed',
           "session_failed" \in S => sess' = "none",
           sess' /= sess => closed' = closed /\ "session_failed" \notin S,
           closed' /\ ~closed => "on_conn_error" \in S /\ sess' = sess
    PROVE  IInv'
<1>1. PICK d, H, T : d = cbDepth /\ H = hs /\ T = told
  OBVIOUS
<1>2. /\ Handles(r, H, T) /\ Counted(r, d, H) /\ r /= <<>>
      /\ N(r, "open_rest") > 0 => admission
      /\ \A k : k \notin S => N(r, k) = N(q, k)
      /\ \A k \in S : N(r, k) > 0
      /\ \A h : M(r, "committed", h) = M(q, "committed", h)
      /\ Waiting(q) \subseteq Waiting(r)
  BY <1>1 DEF Piled
<1>3. /\ d \in Nat /\ d > 0 /\ ~freed
      /\ N(q, "committed") = commitDepth
      /\ \A k : k /= op => N(agenda, k) = N(q, k)
      /\ \A h \in Slots : TornLater(q, T, h)
      /\ \A k : N(q, k) > 0 => N(agenda, k) > 0
  <2>1. /\ d \in Nat /\ d > 0 /\ ~freed
        /\ N(q, "committed") = commitDepth
        /\ \A h \in Slots : TornLater(q, T, h)
        /\ \A k : N(q, k) \in Nat /\ N(agenda, k) = N(q, k) + Bit(op = k)
    BY <1>1 DEF Cut
  <2>2. \A b : Bit(b) \in Nat
    BY DEF Bit
  <2>3. \A k : k /= op => N(agenda, k) = N(q, k)
    BY <2>1 DEF Bit
  <2>4. \A k : N(q, k) > 0 => N(agenda, k) > 0
    BY <2>1, <2>2
  <2> QED
    BY <2>1, <2>3, <2>4
<1>4. Ending(agenda) /\ Telling(agenda, H, T) /\ Types
  BY <1>1 DEF IInv, Accounts, Books
<1>5. UNCHANGED <<admission, refs, cbDepth, freed, backend, appRefs, attached,
                  running, terminal, deferred, commitDepth, hs, es, streams,
                  told, outcome, late>>
  BY DEF count, flags, history
<1>6. Over => Over'
  BY DEF Over
<1>7. ASSUME NEW h \in Slots PROVE TornLater(r, T, h)'
  BY <1>2, <1>3, <1>5 DEF TornLater
<1>8. Telling(r, H, T)'
  BY <1>2, <1>3, <1>4, <1>5 DEF Telling, Tells
<1>9. Ending(r)'
  <2>1. /\ N(r, "on_session_closed") > 0 => sess' = "ended"
        /\ N(r, "on_conn_error") > 0 => closed'
    BY <1>2, <1>3, <1>4 DEF Ending
  <2>2. N(r, "session_failed") > 0 => sess' = "none" \/ terminal'
    BY <1>2, <1>3, <1>4, <1>5 DEF Ending
  <2>3. /\ N(r, "streams_teardown") > 0 => terminal'
        /\ deferred' => N(r, "committed") + N(r, "commit_end") > 0
        /\ deferred' \/ outcome' /= "none" => N(r, "streams_teardown") = 0
    <3>1. N(r, "streams_teardown") = N(q, "streams_teardown")
      BY <1>2
    <3>2. /\ N(q, "streams_teardown") = N(agenda, "streams_teardown")
          /\ N(r, "committed") = N(agenda, "committed")
          /\ N(r, "commit_end") = N(agenda, "commit_end")
      BY <1>2, <1>3
    <3> QED
      BY <3>1, <3>2, <1>4, <1>5 DEF Ending
  <2>4. N(r, "tell_closed") + N(r, "tell_failed") + Bit(deferred')
          + Bit(outcome' /= "none") = Bit(terminal')
    BY <1>2, <1>3, <1>4, <1>5 DEF Ending, Tells
  <2>5. terminal' => Over'
    BY <1>4, <1>5, <1>6 DEF Ending
  <2>6. closed' /\ ~terminal' => N(r, "on_conn_error") > 0
    BY <1>2, <1>3, <1>4, <1>5 DEF Ending
  <2>7. ~backend' => closed'
    BY <1>4, <1>5 DEF Ending
  <2>8. N(r, "backend_release") > 0 =>
          backend' /\ (closed' \/ N(r, "conn_fatal") > 0)
    BY <1>2, <1>3, <1>4, <1>5 DEF Ending
  <2>9. N(r, "open_rest") > 0 => admission'
    BY <1>2, <1>5
  <2>10. attached' => admission'
    BY <1>4, <1>5 DEF Ending
  <2> QED
    BY <2>1, <2>2, <2>3, <2>4, <2>5, <2>6, <2>7, <2>8, <2>9, <2>10 DEF Ending
<1>10. /\ terminal' \in BOOLEAN /\ deferred' \in BOOLEAN
       /\ outcome' \in {"none", "closed", "failed"}
  BY <1>4, <1>5 DEF Types
<1>11. N(r, "committed") = commitDepth
  BY <1>2, <1>3
<1>12. d \in Int /\ cbDepth' = d
  BY <1>1, <1>3, <1>5
<1>13. PICK p : p = agenda' /\ p = r
  OBVIOUS
<1> QED
  BY <1>1, <1>2, <1>3, <1>5, <1>6, <1>7, <1>8, <1>9, <1>10, <1>11, <1>12,
     <1>13, Turned

(* One call of the session goes and nothing else happens.                  *)
LEMMA NothingPiled ==
    ASSUME NEW q, NEW op, Cut(q, op)
    PROVE  Piled(q, q, cbDepth, hs, told, {})
BY DEF Cut, Piled

(* conn_fatal.                                                             *)
LEMMA ConnFatalStep ==
    ASSUME IInv, ConnFatal
    PROVE  IInv'
<1>1. agenda /= <<>> /\ Head(agenda).op = "conn_fatal" /\ closed' = TRUE
  BY DEF ConnFatal, At
<1>2. PICK q, op : q = Tail(agenda) /\ op = "conn_fatal"
  BY Zenon
<1>3. Cut(q, op)
  BY <1>1, <1>2, PlainTop DEF PlainOps, BracketOps
<1>4. PICK d, H, T : d = cbDepth /\ H = hs /\ T = told
  OBVIOUS
<1>5. /\ Handles(q, H, T) /\ Counted(q, d, H) /\ q /= <<>> /\ d \in Int
      /\ N(q, "open_rest") > 0 => admission
      /\ q \in Seq(Frame)
  BY <1>3, <1>4 DEF Cut
<1>6. UNCHANGED <<admission, count, flags, hs, es, streams, history>>
      /\ sess' = sess
  BY DEF ConnFatal
<1>7. Types
  BY DEF IInv
<1>8. CASE closed
  <2>1. agenda' = q
    BY <1>1, <1>2, <1>8, ThenNone DEF ConnFatal
  <2>2. PICK S : S = {}
    BY Zenon
  <2>3. Piled(q, q, cbDepth, hs, told, S)
    BY <1>3, <2>2, NothingPiled
  <2>4. closed' = closed /\ closed' \in BOOLEAN
    BY <1>1, <1>7, <1>8 DEF Types
  <2>5. sess' \in {"none", "active", "ended"}
    BY <1>6, <1>7 DEF Types
  <2> QED
    BY <2>1, <2>2, <2>3, <2>4, <2>5, <1>2, <1>3, <1>6, <1>8, PiledStep, Zenon
       DEF Tells
<1>9. CASE ~closed
  <2>1. PICK e, a : e \in Frame /\ e = Call("on_conn_error")
                             /\ e.op = "on_conn_error" /\ a = Put(e, q)
    BY Calls DEF PlainOps
  <2>2. Piled(a, q, d, H, T, {"on_conn_error"})
    <3>1. e.op \in (PlainOps \cup SlotSetOps) \ (BracketOps \cup Tells
                       \cup {"backend_release", "open_failed"})
      BY <2>1 DEF PlainOps, SlotSetOps, BracketOps, Tells
    <3>2. Piled(a, q, d, H, T, {e.op})
      BY <3>1, <2>1, <1>5, OnePiled
    <3> QED
      BY <3>2, <2>1
  <2>3. ASSUME NEW k \in {"session_closed", "session_failed"},
               NEW g \in Frame, g.op = k
        PROVE  Piled(Put(g, a), q, d, H, T, {"on_conn_error", k})
    <3>1. g.op \in (PlainOps \cup SlotSetOps) \ (BracketOps \cup Tells
                       \cup {"backend_release", "open_failed"})
      BY <2>3 DEF PlainOps, SlotSetOps, BracketOps, Tells
    <3>2. /\ Handles(a, H, T) /\ Counted(a, d, H) /\ a /= <<>>
          /\ N(a, "open_rest") > 0 => admission
      BY <2>2 DEF Piled
    <3>3. PICK p : p = Put(g, a)
      OBVIOUS
    <3>4. Piled(p, a, d, H, T, {g.op})
      BY <3>1, <3>2, <3>3, <1>5, OnePiled
    <3>5. "on_conn_error" /= k
      BY <2>3
    <3>6. Piled(p, a, d, H, T, {k})
      BY <3>4, <2>3
    <3> QED
      BY <3>3, <3>5, <3>6, <2>2, TwoPiled, Zenon
  <2>4. /\ closed' \in BOOLEAN /\ sess' \in {"none", "active", "ended"}
        /\ closed => closed'
    BY <1>1, <1>6, <1>7 DEF Types
  <2>5. agenda' = ((CASE sess = "active" -> <<Call("session_closed")>>
               [] sess = "none" -> <<Call("session_failed")>>
               [] OTHER -> <<>>) \o <<Call("on_conn_error")>>) \o q
    BY <1>2, <1>9, Zenon DEF ConnFatal, Then
  <2>6. CASE sess = "ended"
    <3>1. <<>> \o <<e>> = <<e>>
      OBVIOUS
    <3>2. agenda' = a
      BY <3>1, <2>1, <2>5, <2>6 DEF Put
    <3>3. PICK S : S = {"on_conn_error"}
      BY Zenon
    <3> QED
      BY <3>2, <3>3, <2>2, <2>4, <1>1, <1>2, <1>3, <1>4, <1>6, PiledStep
         DEF Tells
  <2>7. ASSUME NEW k \in {"session_closed", "session_failed"},
               sess = (IF k = "session_closed" THEN "active" ELSE "none")
        PROVE  IInv'
    <3>1. PICK g \in Frame : g = Call(k) /\ g.op = k
      BY Calls DEF PlainOps
    <3>2. agenda' = (<<g>> \o <<e>>) \o q
      BY <3>1, <2>1, <2>5, <2>7
    <3>3. PICK r : r = Put(g, a)
      OBVIOUS
    <3>4. agenda' = r
      <4>1. /\ (<<g, g>> \o <<e>>) \o q = Put(g, Put(g, Put(e, q)))
            /\ (<<g>> \o <<e>>) \o q = Put(g, Put(e, q))
        <5>1. q \in Seq(Frame)
          BY <1>5
        <5> QED
          BY <2>1, <5>1, PutsOn
      <4> QED
        BY <4>1, <3>2, <3>3, <2>1
    <3>5. PICK S : S = {"on_conn_error", k}
      BY Zenon
    <3>6. Piled(r, q, d, H, T, S)
      BY <3>1, <3>3, <3>5, <2>3
    <3>7. k = "session_failed" => sess' = "none"
      BY <2>7, <1>6
    <3> HIDE DEF Put
    <3> QED
      BY <3>4, <3>5, <3>6, <3>7, <2>4, <1>1, <1>2, <1>3, <1>4, <1>6,
         PiledStep DEF Tells
  <2>8. sess \in {"none", "active", "ended"}
    BY <1>7 DEF Types
  <2> QED
    BY <2>6, <2>7, <2>8
<1> QED
  BY <1>8, <1>9

(* session_closed.                                                         *)
LEMMA SessionClosedStep ==
    ASSUME IInv, SessionClosed
    PROVE  IInv'
<1>1. agenda /= <<>> /\ Head(agenda).op = "session_closed"
  BY DEF SessionClosed, At
<1>2. PICK q, op : q = Tail(agenda) /\ op = "session_closed"
  BY Zenon
<1>3. Cut(q, op)
  BY <1>1, <1>2, PlainTop DEF PlainOps, BracketOps
<1>4. PICK d, H, T : d = cbDepth /\ H = hs /\ T = told
  OBVIOUS
<1>5. /\ Handles(q, H, T) /\ Counted(q, d, H) /\ q /= <<>> /\ d \in Int
      /\ N(q, "open_rest") > 0 => admission
      /\ q \in Seq(Frame)
  BY <1>3, <1>4 DEF Cut
<1>6. UNCHANGED <<admission, count, flags, hs, es, streams, history>>
      /\ closed' = closed
  BY DEF SessionClosed
<1>7. closed' \in BOOLEAN /\ sess \in {"none", "active", "ended"}
  BY <1>6 DEF IInv, Types
<1>8. CASE sess /= "active"
  <2>1. sess' = sess /\ agenda' = q
    BY <1>1, <1>2, <1>8, ThenNone DEF SessionClosed
  <2>2. PICK S : S = {}
    BY Zenon
  <2>3. Piled(q, q, cbDepth, hs, told, S)
    BY <1>3, <2>2, NothingPiled
  <2>4. /\ S \cap (Tells \cup {"streams_teardown", "committed", "commit_end",
                                "backend_release", "conn_fatal"}) = {}
        /\ "on_session_closed" \notin S /\ "on_conn_error" \notin S
        /\ "session_failed" \notin S
    BY <2>2
  <2>5. op \in {"conn_fatal", "session_closed"} /\ op /= "conn_fatal"
    BY <1>2
  <2>6. sess' \in {"none", "active", "ended"}
    BY <2>1, <1>7
  <2>7. agenda' = q /\ sess' = sess
    BY <2>1
  <2> HIDE <1>8
  <2> QED
    BY <2>3, <2>4, <2>5, <2>6, <2>7, <1>3, <1>6, <1>7, PiledStep
<1>9. CASE sess = "active"
  <2>1. PICK g \in Frame, f \in Frame :
          /\ g = [Call("engine_teardown") EXCEPT !.x = Slots]
          /\ g.op = "engine_teardown"
          /\ f = Call("on_session_closed") /\ f.op = "on_session_closed"
    <3>1. "engine_teardown" \in SlotSetOps /\ Slots \in SUBSET Slots
      BY DEF SlotSetOps
    <3>2. "on_session_closed" \in PlainOps
      BY DEF PlainOps
    <3>3. /\ [Call("engine_teardown") EXCEPT !.x = Slots] \in Frame
          /\ [Call("engine_teardown") EXCEPT !.x = Slots].op = "engine_teardown"
      BY <3>1, Calls, Zenon
    <3>4. /\ Call("on_session_closed") \in Frame
          /\ Call("on_session_closed").op = "on_session_closed"
      BY <3>2, Calls
    <3> QED
      BY <3>3, <3>4, Zenon
  <2>2. PICK a, r : a = Put(f, q) /\ r = Put(g, a)
    OBVIOUS
  <2>3. sess' = "ended" /\ agenda' = <<g, f>> \o q
    BY <1>2, <1>9, <2>1 DEF SessionClosed, Then
  <2>4. agenda' = r
    <3>1. q \in Seq(Frame)
      BY <1>5
    <3>2. <<g, f>> \o q = Put(g, Put(f, q))
      BY <3>1, PutTwo
    <3> QED
      BY <3>2, <2>2, <2>3
  <2>5. Piled(a, q, d, H, T, {"on_session_closed"})
    <3>1. f.op \in (PlainOps \cup SlotSetOps) \ (BracketOps \cup Tells
                       \cup {"backend_release", "open_failed"})
      BY <2>1 DEF PlainOps, SlotSetOps, BracketOps, Tells
    <3>2. Piled(a, q, d, H, T, {f.op})
      BY <3>1, <2>2, <1>5, OnePiled
    <3> QED
      BY <3>2, <2>1
  <2>6. Piled(r, a, d, H, T, {"engine_teardown"})
    <3>1. g.op \in (PlainOps \cup SlotSetOps) \ (BracketOps \cup Tells
                       \cup {"backend_release", "open_failed"})
      BY <2>1 DEF PlainOps, SlotSetOps, BracketOps, Tells
    <3>2. /\ Handles(a, H, T) /\ a /= <<>> /\ Counted(a, d, H)
          /\ N(a, "open_rest") > 0 => admission
      BY <2>5 DEF Piled
    <3>3. Piled(r, a, d, H, T, {g.op})
      BY <3>1, <3>2, <2>2, <1>5, OnePiled
    <3> QED
      BY <3>3, <2>1
  <2>7. PICK S : S = {"on_session_closed", "engine_teardown"}
    BY Zenon
  <2>8. Piled(r, q, d, H, T, S)
    BY <2>5, <2>6, <2>7, TwoPiled, Zenon
  <2>9. sess' \in {"none", "active", "ended"} /\ sess /= "none"
    BY <2>3, <1>9
  <2> HIDE DEF Put
  <2> QED
    BY <2>3, <2>4, <2>7, <2>8, <2>9, <1>2, <1>3, <1>4, <1>6, <1>7, PiledStep
       DEF Tells
<1> QED
  BY <1>8, <1>9

-----------------------------------------------------------------------------
(* The end of a stream.                                                    *)

(* A live handle's stream is closed: the library's reference goes with its *)
(* last event.                                                             *)
Closes(R, r, t, cm, sr, dr, s) ==
    /\ t \in {"none", "given"} /\ cm = 0 /\ sr = 0
    /\ dr > 0 => R.refs /= 1
    /\ R.refs > 0
    /\ Sound(r.refs, r.app, r.alive, s, cm, sr + 1, dr)

(* The last event of a live handle keeps its count sound.                  *)
LEMMA LiveCloses ==
    ASSUME NEW R \in HandleType, R.alive, NEW r \in HandleType, ~r.alive,
           r.refs = R.refs, r.app = R.app,
           NEW t, t \in {"none", "given", "closed", "unasked"},
           NEW cm \in Nat, NEW sr \in Nat, NEW dr \in Nat,
           NEW s, s \in {"closed", "unasked"},
           Sound(R.refs, R.app, R.alive, t, cm, sr, dr)
    PROVE  Closes(R, r, t, cm, sr, dr, s)
<1>1. Bit(R.alive) = 1 /\ Bit(r.alive) = 0
  BY DEF Bit
<1>2. PICK n \in Nat, a \in Nat : n = R.refs /\ a = R.app
  BY DEF HandleType
<1>3. n >= a + 1 + 2 * cm + sr + dr
  BY <1>1, <1>2, Zenon DEF Sound, Settled, Balanced
<1>4. 1 + cm + sr <= 1
  BY <1>1, Zenon DEF Sound
<1>5. cm = 0 /\ sr = 0
  BY <1>4
<1>6. n >= a + 1 + dr
  BY <1>3, <1>5
<1>7. t \in {"none", "given"}
  BY <1>5 DEF Sound
<1>8. Balanced(r.refs, r.app, r.alive, cm, sr + 1, dr)
  BY <1>1, <1>2, <1>5, <1>6 DEF Balanced
<1>9. Bit(r.alive) + cm + (sr + 1) <= 1
  BY <1>1, <1>5
<1>10. Sound(r.refs, r.app, r.alive, s, cm, sr + 1, dr)
  BY <1>5, <1>8, <1>9 DEF Sound
<1>11. n > 0 /\ (dr > 0 => n /= 1)
  BY <1>6
<1> QED
  BY <1>2, <1>5, <1>7, <1>10, <1>11 DEF Closes

(* Behind its commit callback.                                             *)
LEMMA CommitCloses ==
    ASSUME NEW n \in Nat, NEW a \in Nat, NEW alive \in BOOLEAN, NEW t,
           NEW cm \in Nat, NEW sr \in Nat, NEW dr \in Nat,
           Sound(n, a, alive, t, cm + 1, sr, dr)
    PROVE  /\ t = "given" /\ ~alive
           /\ Sound(n, a, alive, "none", cm, sr, dr)
           /\ Sound(n, a, alive, "none", cm, sr, dr + 1)
           /\ Sound(n, a, alive, "closed", cm, sr + 1, dr + 1)
<1>1. t = "given"
  BY DEF Sound
<1>2. Bit(alive) + (cm + 1) + sr <= 1 /\ Bit(alive) \in {0, 1}
  BY DEF Sound, Bit
<1>3. cm = 0 /\ sr = 0 /\ Bit(alive) = 0
  BY <1>2
<1>4. ~alive
  BY <1>3 DEF Bit
<1>5. n >= a + 2 + dr
  BY <1>1, <1>3 DEF Sound, Balanced, Settled
<1> QED
  BY <1>1, <1>3, <1>4, <1>5 DEF Sound, Balanced

(* Its commit callback begins.                                             *)
LEMMA LiveCommits ==
    ASSUME NEW R \in HandleType, R.alive, NEW r \in HandleType, ~r.alive,
           r.refs = R.refs + 1, r.app = R.app,
           NEW cm \in Nat, NEW sr \in Nat, NEW dr \in Nat,
           Sound(R.refs, R.app, R.alive, "given", cm, sr, dr)
    PROVE  Sound(r.refs, r.app, r.alive, "given", cm + 1, sr, dr)
<1>1. Bit(R.alive) = 1 /\ Bit(r.alive) = 0
  BY DEF Bit
<1>2. PICK n \in Nat, a \in Nat : n = R.refs /\ a = R.app
  BY DEF HandleType
<1>3. n >= a + 1 + 2 * cm + sr + dr
  BY <1>1, <1>2, Zenon DEF Sound, Settled, Balanced
<1>4. 1 + cm + sr <= 1
  BY <1>1, Zenon DEF Sound
<1>5. cm = 0 /\ sr = 0
  BY <1>4
<1>6. n >= a + 1 + dr
  BY <1>3, <1>5
<1>7. Balanced(r.refs, r.app, r.alive, cm + 1, sr, dr)
  BY <1>1, <1>2, <1>5, <1>6 DEF Balanced
<1>8. Bit(r.alive) + (cm + 1) + sr <= 1
  BY <1>1, <1>5
<1> QED
  BY <1>5, <1>7, <1>8 DEF Sound

(* The close's call on top of stack q.                                     *)
ClosedOn(p, q, d, H, T, h, r, t) ==
    /\ Calm(p, d, [H EXCEPT ![h] = r], [T EXCEPT ![h] = t])
    /\ N(p, "committed") = N(q, "committed") /\ p \in Seq(Frame)
    /\ T[h] \in {"none", "given"}

(* on_stream_closed is called.                                             *)
LEMMA ClosePush ==
    ASSUME NEW q, NEW d \in Int, NEW H, NEW T, Calm(q, d, H, T), q /= <<>>,
           NEW h \in Slots, H[h].alive,
           Over \/ ~Reserved(H[h], T[h]),
           NEW r \in HandleType, r.refs = H[h].refs, r.app = H[h].app,
           ~r.alive, r.gen = H[h].gen,
           NEW t \in {"closed", "unasked"},
           NEW f \in Frame, f.op = "slot_release", f.at = h, f.gen = H[h].gen,
           NEW p, p = Put(f, q)
    PROVE  ClosedOn(p, q, d, H, T, h, r, t)
<1>1. /\ Ready(q, d, H, T) /\ Ending(q) /\ q \in Seq(Frame)
      /\ H \in [Slots -> HandleType] /\ T \in ToldType
      /\ HandleSound(q, H, T, h) /\ Telling(q, H, T)
  BY DEF Calm, Ready, Books, Handles
<1>2. PICK cm \in Nat, sr \in Nat, dr \in Nat :
        /\ cm = M(q, "committed", h) /\ sr = M(q, "slot_release", h)
        /\ dr = Holds(q, h)
  BY <1>1, HandleCounts
<1>3. PICK R, u :
        /\ R \in HandleType /\ R = H[h] /\ u = T[h]
        /\ u \in {"none", "given", "closed", "unasked"}
  BY <1>1 DEF HandleType, ToldType
<1>4. Sound(R.refs, R.app, R.alive, u, cm, sr, dr)
  BY <1>1, <1>2, <1>3, Zenon DEF HandleSound
<1>5. /\ u \in {"none", "given"}
      /\ Sound(r.refs, r.app, r.alive, t, cm, sr + 1, dr)
  <2>1. Closes(R, r, u, cm, sr, dr, t)
    <3>1. r.refs = R.refs /\ r.app = R.app /\ R.alive /\ ~r.alive
      BY <1>3
    <3>2. u \in {"none", "given", "closed", "unasked"}
      BY <1>3
    <3>3. t \in {"closed", "unasked"}
      OBVIOUS
    <3>4. R \in HandleType
      BY <1>3
    <3>5. /\ cm \in Nat /\ sr \in Nat /\ dr \in Nat
          /\ r \in HandleType /\ ~r.alive
      BY <1>2
    <3> QED
      BY <3>1, <3>2, <3>3, <3>4, <3>5, <1>4, LiveCloses, Zenon
  <2> QED
    BY <2>1 DEF Closes
<1>6. StillReserved(H, T, h, r, t)
  BY DEF StillReserved, Reserved
<1>7. StillTold(T, h, r, t)
  <2>1. sess /= "none"
    BY <1>1 DEF Telling
  <2> QED
    BY <2>1 DEF StillTold
<1>8. /\ f.op \in HandleOps \cup NeutralOps \cup {"exit"}
      /\ f.op \notin BracketOps /\ f.op /= "committed" /\ f.op /= "settle"
      /\ f.op \notin {"drop", "commit_end"}
  BY DEF HandleOps, BracketOps
<1>9. Sound(r.refs, r.app, r.alive, t,
            M(q, "committed", h) + Bit(f.op = "committed"),
            M(q, "slot_release", h) + Bit(f.op = "slot_release"),
            Holds(q, h) + Bit(f.op \in {"drop", "commit_end"}))
  <2>1. /\ M(q, "committed", h) + Bit(f.op = "committed") = cm
        /\ M(q, "slot_release", h) + Bit(f.op = "slot_release") = sr + 1
        /\ Holds(q, h) + Bit(f.op \in {"drop", "commit_end"}) = dr
    BY <1>2, <1>8 DEF Bit
  <2> QED
    BY <2>1, <1>3, <1>5
<1>10. /\ Ready(Put(f, q), d + Bit(f.op \in BracketOps),
                [H EXCEPT ![h] = r], [T EXCEPT ![h] = t])
       /\ Ending(q) => Ending(Put(f, q))
  BY <1>1, <1>6, <1>7, <1>8, <1>9, Push, Zenon
<1>11. d + Bit(f.op \in BracketOps) = d
  BY <1>8 DEF Bit
<1>12. N(p, "committed") = N(q, "committed") /\ p \in Seq(Frame)
  BY <1>1, <1>8, Committed, PutWaiting
<1> HIDE DEF Put
<1> QED
  BY <1>1, <1>3, <1>5, <1>10, <1>11, <1>12 DEF Calm, ClosedOn

(* stream_unlink: no engine stream points to the handle any more.          *)
LEMMA UnlinkLinks ==
    ASSUME IInv, NEW h \in Slots, NEW r, SameHandle(r, hs[h]), hs[h].alive,
           NEW t, told' = [told EXCEPT ![h] = t], StreamUnlink(h, r)
    PROVE  /\ es' \in [Slots -> StreamType] /\ Linked'
           /\ [r EXCEPT !.alive = FALSE, !.es = None] \in HandleType
<1>1. /\ es \in [Slots -> StreamType] /\ hs \in [Slots -> HandleType] /\ Linked
      /\ told \in ToldType
  BY Numbers, Zenon DEF IInv, Types
<1>2. r \in HandleType /\ r.es = hs[h].es
  BY DEF SameHandle
<1>3. r.es \in Slots \cup {None}
  BY <1>2 DEF HandleType
<1>4. es' = IF r.es = None THEN es ELSE [es EXCEPT ![r.es].user = None]
  BY DEF StreamUnlink
<1>5. es' \in [Slots -> StreamType]
  BY <1>1, <1>3, <1>4 DEF StreamType
<1>6. ASSUME NEW e \in Slots
      PROVE  /\ es'[e].kind = es[e].kind
             /\ es'[e].user /= None => es'[e].user = es[e].user /\ e /= r.es
  BY <1>1, <1>3, <1>4, ApiAssumption DEF StreamType
<1>7. SameLinks
  BY <1>6 DEF SameLinks
<1>8. ASSUME NEW e \in Slots, es'[e].kind = "WT", es'[e].user = h
      PROVE  FALSE
  <2>1. h /= None
    BY ApiAssumption
  <2>2. es[e].kind = "WT" /\ es[e].user = h /\ e /= r.es
    BY <2>1, <1>6, <1>8
  <2>3. hs[es[e].user].es = e
    BY <2>1, <2>2, <1>1 DEF Linked
  <2> QED
    BY <2>2, <2>3, <1>2
<1>9. [r EXCEPT !.alive = FALSE, !.es = None] \in HandleType
  BY <1>2, Zenon DEF HandleType
<1>10. ASSUME NEW g \in Slots
       PROVE  /\ g /= h => hs'[g] = hs[g] /\ told'[g] = told[g]
              /\ ~hs'[h].alive
  BY <1>1, <1>2, <1>9 DEF StreamUnlink, ToldType, HandleType
<1>11. Linked'
  BY <1>7, <1>8, <1>10, Links
<1> QED
  BY <1>5, <1>9, <1>11

(* stream_maybe_terminal's last steps, on top of stack q.                  *)
Shuts(p, q, d, f, h) ==
    /\ Calm(p, d, hs', told') /\ p \in Seq(Frame) /\ f \in Frame
    /\ N(p, "committed") = N(q, "committed")
    /\ told'[h] \in {"closed", "unasked"}
    /\ es' \in [Slots -> StreamType] /\ Linked'

(* The stream is unlinked and its last event is on its way.                *)
LEMMA CloseOn ==
    ASSUME IInv, NEW h \in Slots, NEW n, SameHandle(n, hs[h]), hs[h].alive,
           NEW q, NEW d \in Int, NEW G, G = [hs EXCEPT ![h] = n],
           Calm(q, d, G, told), q /= <<>>,
           Over \/ ~Reserved(n, told[h]),
           StreamUnlink(h, n), TellClosed(h),
           NEW f, f = OnHandle("slot_release", h, {}), NEW p, p = Put(f, q)
    PROVE  Shuts(p, q, d, f, h)
<1>1. /\ hs \in [Slots -> HandleType] /\ told \in ToldType
  BY Numbers
<1>2. PICK t : t = IF told[h] = "given" THEN "closed" ELSE "unasked"
  OBVIOUS
<1>3. t \in {"closed", "unasked"}
  BY <1>2
<1>4. PICK r : r = [n EXCEPT !.alive = FALSE, !.es = None]
  OBVIOUS
<1>5. n \in HandleType /\ n.refs = hs[h].refs /\ n.app = hs[h].app
      /\ n.alive /\ n.gen = hs[h].gen
  BY DEF SameHandle
<1>6. /\ r \in HandleType /\ r.refs = n.refs /\ r.app = n.app /\ ~r.alive
      /\ r.gen = n.gen
  BY <1>4, <1>5, Zenon DEF HandleType
<1>7. PICK T : T = told
  OBVIOUS
<1>8. /\ f \in Frame /\ f.op = "slot_release" /\ f.at = h
      /\ f.gen = hs[h].gen
  <2>1. {} \in SUBSET (Slots \cup Marks) /\ "slot_release" \in HandleOps
    BY DEF HandleOps
  <2> QED
    BY <2>1, <1>1, HandleCall
<1>9. G[h] = n
  BY <1>1
<1>10. /\ Calm(p, d, [G EXCEPT ![h] = r], [T EXCEPT ![h] = t])
       /\ N(p, "committed") = N(q, "committed") /\ p \in Seq(Frame)
       /\ T[h] \in {"none", "given"}
  <2>1. /\ r.refs = G[h].refs /\ r.app = G[h].app /\ r.gen = G[h].gen
        /\ G[h].alive /\ f.gen = G[h].gen
    BY <1>5, <1>6, <1>8, <1>9
  <2>2. Calm(q, d, G, T) /\ (Over \/ ~Reserved(G[h], T[h]))
    BY <1>7, <1>9
  <2>3. ClosedOn(p, q, d, G, T, h, r, t)
    BY <2>1, <2>2, <1>3, <1>6, <1>8, ClosePush, ZenonT(60)
  <2> QED
    BY <2>3 DEF ClosedOn
<1>11. told' = [told EXCEPT ![h] = t]
  BY <1>2, <1>7, <1>10, Zenon DEF TellClosed
<1>12. hs' = [G EXCEPT ![h] = r]
  BY <1>1, <1>4, Zenon DEF StreamUnlink
<1>13. es' \in [Slots -> StreamType] /\ Linked'
  BY <1>11, UnlinkLinks, Zenon
<1>14. told'[h] \in {"closed", "unasked"}
  BY <1>1, <1>3, <1>11 DEF ToldType
<1> HIDE DEF Put
<1> QED
  BY <1>7, <1>8, <1>10, <1>11, <1>12, <1>13, <1>14 DEF Shuts

(* Two calls that differ in nothing that counts.                           *)
LEMMA SettleCases ==
    ASSUME NEW R \in HandleType, NEW x, NEW n,
           n = CASE ~R.alive -> R
                 [] "last" \in x -> [R EXCEPT !.send = FALSE, !.fin = R.commit]
                 [] OTHER -> ShutHandle(R, x)
    PROVE  SameHandle(n, R)
<1>1. SameHandle(R, R)
  BY DEF SameHandle
<1>2. SameHandle([R EXCEPT !.send = FALSE, !.fin = R.commit], R)
  BY Zenon DEF SameHandle, HandleType
<1>3. SameHandle(ShutHandle(R, x), R)
  <2>1. PICK i \in BOOLEAN, j \in BOOLEAN, k \in BOOLEAN :
          /\ i = (R.send /\ "send" \notin x) /\ j = (R.fin /\ "send" \notin x)
          /\ k = (R.recv /\ "recv" \notin x)
    BY Zenon DEF HandleType
  <2>2. ShutHandle(R, x) = [R EXCEPT !.send = i, !.fin = j, !.recv = k]
    BY <2>1 DEF ShutHandle
  <2>3. SameHandle([R EXCEPT !.send = i, !.fin = j, !.recv = k], R)
    BY Zenon DEF SameHandle, HandleType
  <2> QED
    BY <2>2, <2>3
<1> QED
  BY <1>1, <1>2, <1>3

(* The call goes, and its handle's halves with it.                         *)
LEMMA SettlePop ==
    ASSUME IInv, NEW f \in Frame, NEW q \in Seq(Frame), agenda = Put(f, q),
           f.op = "settle", NEW h \in Slots, h = f.at,
           NEW n, SameHandle(n, hs[h])
    PROVE  /\ Calm(q, cbDepth, [hs EXCEPT ![h] = n], told) /\ q /= <<>>
           /\ N(q, "committed") = commitDepth
           /\ n.alive => ~Reserved(n, told[h])
<1>1. PICK d, H, T : d = cbDepth /\ H = hs /\ T = told
  OBVIOUS
<1>2. Accounts(Put(f, q), d, H, T)
  BY <1>1 DEF IInv
<1>3. /\ H \in [Slots -> HandleType] /\ T \in ToldType /\ d \in Int
      /\ Stacked(admission, Put(f, q))
      /\ HandleSound(Put(f, q), H, T, h)
      /\ Telling(Put(f, q), H, T)
  BY <1>2 DEF Accounts, Books, Handles
<1>4. /\ n \in HandleType /\ n.refs = H[h].refs /\ n.app = H[h].app
      /\ n.alive = H[h].alive /\ n.gen = H[h].gen
  BY <1>1 DEF SameHandle
<1>5. T[h] \in {"none", "given", "closed", "unasked"}
  BY <1>3 DEF ToldType
<1>6. PICK cm \in Nat, sr \in Nat, dr \in Nat :
        /\ cm = M(q, "committed", h) /\ sr = M(q, "slot_release", h)
        /\ dr = Holds(q, h)
  BY HandleCounts
<1>7. /\ M(Put(f, q), "committed", h) = cm
      /\ M(Put(f, q), "slot_release", h) = sr
      /\ Holds(Put(f, q), h) = dr
  BY <1>6, HandleCounts DEF Bit
<1>8. Sound(n.refs, n.app, n.alive, T[h], cm, sr, dr)
  BY <1>3, <1>4, <1>7 DEF HandleSound
<1>9. \E g \in Waiting(q) : Holder(f, g)
  BY <1>3, PutStacked, Zenon
<1>10. dr > 0 /\ q /= <<>>
  <2>1. PICK g \in Waiting(q) : g.op = "drop" /\ g.at = h
    BY <1>9 DEF Holder
  <2>2. M(q, "drop", h) > 0 /\ M(q, "drop", h) \in Nat
        /\ M(q, "commit_end", h) \in Nat
    BY <2>1, CountRange, Zenon
  <2>3. q /= <<>>
    BY <2>1, EmptyStack
  <2> QED
    BY <2>2, <2>3, <1>6 DEF Holds
<1>11. n.alive => ~Reserved(n, T[h])
  <2>1. SUFFICES ASSUME n.alive PROVE n.refs /= 1
    BY DEF Reserved
  <2>2. PICK r \in HandleType :
          ~r.alive /\ r.refs = n.refs /\ r.app = n.app
    <3>1. /\ [n EXCEPT !.alive = FALSE] \in HandleType
          /\ ~[n EXCEPT !.alive = FALSE].alive
          /\ [n EXCEPT !.alive = FALSE].refs = n.refs
          /\ [n EXCEPT !.alive = FALSE].app = n.app
      BY <1>4, Zenon DEF HandleType
    <3> QED
      BY <3>1, Zenon
  <2>3. PICK s : s = "closed"
    OBVIOUS
  <2>4. PICK u : u = T[h]
    OBVIOUS
  <2>5. Closes(n, r, u, cm, sr, dr, s)
    <3>1. s \in {"closed", "unasked"}
      BY <2>3
    <3>2. u \in {"none", "given", "closed", "unasked"}
      BY <2>4, <1>5
    <3>3. Sound(n.refs, n.app, n.alive, u, cm, sr, dr)
      BY <2>4, <1>8
    <3>4. n \in HandleType
      BY <1>4
    <3> QED
      BY <3>1, <3>2, <3>3, <3>4, <2>1, <2>2, LiveCloses, Zenon
  <2> QED
    BY <2>5, <1>10 DEF Closes
<1>12. StillReserved(H, T, h, n, T[h])
  BY <1>4 DEF StillReserved, Reserved
<1>13. MayTell(T, h, n, T[h])
  BY <1>3, <1>4, <1>5 DEF MayTell, Telling
<1>14. /\ f.op \in HandleOps \cup OpenOps \cup {"exit"}
       /\ f.op \notin BracketOps /\ f.op /= "committed"
  BY DEF HandleOps, BracketOps
<1>15. StillCommits(q, f)
  BY DEF StillCommits
<1>16. /\ Ready(q, d - Bit(f.op \in BracketOps),
                [H EXCEPT ![h] = n], [T EXCEPT ![h] = T[h]])
       /\ StillCommits(q, f) => Ending(q)
  BY <1>2, <1>4, <1>6, <1>8, <1>12, <1>13, <1>14, Pop
<1>17. [T EXCEPT ![h] = T[h]] = T /\ d - Bit(f.op \in BracketOps) = d
  BY <1>3, <1>14 DEF ToldType, Bit
<1>18. N(q, "committed") = commitDepth
  BY <1>14, Committed DEF IInv
<1> QED
  BY <1>1, <1>10, <1>11, <1>15, <1>16, <1>17, <1>18 DEF Calm

(* stream_maybe_terminal.                                                  *)
LEMMA SettleStep ==
    ASSUME IInv, Settle
    PROVE  IInv'
<1>1. agenda /= <<>> /\ Head(agenda).op = "settle"
  BY DEF Settle, At
<1>2. PICK f \in Frame, q \in Seq(Frame) :
        f = Head(agenda) /\ q = Tail(agenda) /\ agenda = Put(f, q) /\ ~freed
  BY <1>1, OnTop, Zenon
<1>3. PICK h \in Slots : h = f.at
  BY <1>1, <1>2 DEF Frame, HandleOps
<1>4. PICK n : n = CASE ~hs[h].alive -> hs[h]
                 [] "last" \in f.x -> [hs[h] EXCEPT !.send = FALSE,
                                                    !.fin = hs[h].commit]
                 [] OTHER -> ShutHandle(hs[h], f.x)
  OBVIOUS
<1>5. /\ hs \in [Slots -> HandleType] /\ told \in ToldType
      /\ cbDepth \in Nat
  BY Numbers
<1>6. SameHandle(n, hs[h])
  BY <1>4, <1>5, SettleCases, Zenon
<1>7. /\ Calm(q, cbDepth, [hs EXCEPT ![h] = n], told) /\ q /= <<>>
      /\ N(q, "committed") = commitDepth
      /\ n.alive => ~Reserved(n, told[h])
  BY <1>1, <1>2, <1>3, <1>6, SettlePop, Zenon
<1>8. SettleHandle(h, n)
  BY <1>2, <1>3, <1>4, Zenon DEF Settle, This
<1>9. UNCHANGED <<admission, count, flags, engine, streams, outcome, late>>
  BY DEF Settle
<1>10. Quiet /\ cbDepth' = cbDepth /\ freed' = freed /\ late' = late
       /\ commitDepth' = commitDepth /\ streams' = streams
  BY <1>9 DEF Quiet, count, flags, engine
<1>11. /\ freed \in BOOLEAN /\ streams \in Nat
       /\ freed <=> (refs = 0 /\ cbDepth = 0)
  BY DEF IInv, Types
<1>12. CASE HandleOver(n)
  <2>1. StreamUnlink(h, n) /\ TellClosed(h) /\ AppThen(ClosedCalls(h))
    BY <1>8, <1>12 DEF SettleHandle
  <2>2. n.alive /\ hs[h].alive
    BY <1>6, <1>12 DEF HandleOver, SameHandle
  <2>3. PICK g, p, G : /\ g = OnHandle("slot_release", h, {})
                       /\ p = Put(g, q) /\ G = [hs EXCEPT ![h] = n]
    BY Zenon
  <2>4. /\ Calm(p, cbDepth, hs', told') /\ p \in Seq(Frame) /\ g \in Frame
        /\ N(p, "committed") = N(q, "committed")
        /\ es' \in [Slots -> StreamType] /\ Linked'
    <3>1. Calm(q, cbDepth, G, told) /\ ~Reserved(n, told[h]) /\ cbDepth \in Int
      BY <2>2, <2>3, <1>5, <1>7
    <3>2. Shuts(p, q, cbDepth, g, h)
      BY <3>1, <2>1, <2>2, <2>3, <1>6, <1>7, CloseOn, Zenon
    <3> QED
      BY <3>2 DEF Shuts
  <2>5. PICK c \in Seq(Frame) : c = <<g>> /\ c \o q = p
    <3>1. <<g>> \in Seq(Frame)
      BY <2>4
    <3> QED
      BY <3>1, <2>3, Zenon DEF Put
  <2>6. PICK z : z = agenda'
    OBVIOUS
  <2>7. z = ((IF Len(c \o q) + 1 < MaxDepth THEN <<App>> ELSE <<>>) \o c) \o q
    BY <2>1, <2>3, <2>5, <2>6, <1>2 DEF AppThen, AppFirst, ClosedCalls
  <2>8. PICK H, T : H = hs' /\ T = told'
    OBVIOUS
  <2>9. p /= <<>>
    BY <2>3, <2>4, <1>2, PutWaiting, Zenon
  <2>10. Calm(z, cbDepth, H, T) /\ N(z, "committed") = N(c \o q, "committed")
    <3>1. Calm(c \o q, cbDepth, H, T) /\ c \o q /= <<>>
      BY <2>4, <2>5, <2>8, <2>9, Zenon
    <3> QED
      BY <3>1, <2>7, AppOn, ZenonT(60)
  <2>11. commitDepth' = N(z, "committed")
    BY <2>4, <2>5, <2>10, <1>7, <1>10, Zenon
  <2> QED
    BY <2>4, <2>6, <2>8, <2>10, <2>11, <1>10, <1>11, Onward
<1>13. CASE ~HandleOver(n)
  <2>1. hs' = [hs EXCEPT ![h] = n] /\ Then(<<>>) /\ es' = es /\ told' = told
    BY <1>8, <1>13 DEF SettleHandle
  <2>2. agenda' = q
    BY <2>1, <1>1, <1>2, ThenNone
  <2>3. PICK H, T, d : H = hs' /\ T = told' /\ d = cbDepth
    OBVIOUS
  <2>4. Calm(q, d, H, T) /\ commitDepth' = N(q, "committed") /\ cbDepth' = d
    BY <2>1, <2>3, <1>7, <1>10
  <2>5. es' \in [Slots -> StreamType]
    BY <2>1 DEF IInv, Types
  <2>6. Linked'
    <3>1. SameLinks
      BY <2>1 DEF SameLinks
    <3>2. \A g \in Slots : /\ hs'[g].alive = hs[g].alive
                           /\ hs'[g].es = hs[g].es
                           /\ hs'[g].app = hs[g].app /\ told'[g] = told[g]
      BY <2>1, <1>5, <1>6 DEF SameHandle
    <3> QED
      BY <3>1, <3>2, Links
  <2> QED
    BY <2>2, <2>3, <2>4, <2>5, <2>6, <1>10, <1>11, Onward
<1> QED
  BY <1>12, <1>13

-----------------------------------------------------------------------------
(* streams_teardown's loop.                                                *)

(* Its call f is on top of stack q; todo are the slots that still matter,  *)
(* and g is the call with these.                                           *)
Tearing(q, g, todo) ==
    /\ Calm(Put(g, q), cbDepth, hs, told)
    /\ todo = {} => Calm(q, cbDepth, hs, told)
    /\ q /= <<>> /\ q \in Seq(Frame) /\ N(q, "committed") = commitDepth
    /\ g \in Frame /\ g.op = "streams_teardown" /\ g.x = todo
    /\ terminal /\ todo \subseteq Slots

(* What the teardown need not look at is not given out, or its commit      *)
(* reports the end.                                                        *)
LEMMA NotTorn ==
    ASSUME IInv, NEW f \in Frame, NEW q \in Seq(Frame), agenda = Put(f, q),
           f.op = "streams_teardown", NEW h \in Slots, terminal,
           told[h] = "given", ~(hs[h].refs > 0 /\ hs[h].alive)
    PROVE  M(q, "committed", h) > 0
<1>1. PICK d, H, T : d = cbDepth /\ H = hs /\ T = told
  OBVIOUS
<1>2. Accounts(Put(f, q), d, H, T)
  BY <1>1 DEF IInv
<1>3. /\ H \in [Slots -> HandleType]
      /\ HandleSound(Put(f, q), H, T, h)
  BY <1>2 DEF Accounts, Books, Handles
<1>4. PICK cm \in Nat, sr \in Nat, dr \in Nat :
        /\ cm = M(q, "committed", h) /\ sr = M(q, "slot_release", h)
        /\ dr = Holds(q, h)
  BY HandleCounts
<1>5. /\ M(Put(f, q), "committed", h) = cm
      /\ M(Put(f, q), "slot_release", h) = sr
      /\ Holds(Put(f, q), h) = dr
  BY <1>4, HandleCounts DEF Bit
<1>6. PICK R, t : R \in HandleType /\ R = H[h] /\ t = T[h] /\ t = "given"
  BY <1>1, <1>3
<1>7. Sound(R.refs, R.app, R.alive, t, cm, sr, dr)
  BY <1>3, <1>5, <1>6 DEF HandleSound
<1>8. PICK n \in Nat, a \in Nat : n = R.refs /\ a = R.app
  BY <1>6 DEF HandleType
<1>9. CASE R.alive
  <2>1. n >= a + Bit(R.alive) + 2 * cm + sr + dr
    BY <1>6, <1>7, <1>8 DEF Sound, Settled, Balanced
  <2>2. Bit(R.alive) = 1
    BY <1>9 DEF Bit
  <2>3. n > 0
    BY <2>1, <2>2
  <2> QED
    BY <2>3, <1>1, <1>6, <1>8, <1>9
<1>10. CASE ~R.alive
  <2>1. cm > 0
    BY <1>6, <1>7, <1>10 DEF Sound
  <2> QED
    BY <2>1, <1>4
<1> QED
  BY <1>9, <1>10

(* The teardown's call is on top with the slots still to do.               *)
LEMMA TearTop ==
    ASSUME IInv, agenda /= <<>>, NEW f, f = Head(agenda),
           f.op = "streams_teardown", NEW q, q = Tail(agenda), NEW todo,
           todo = {h \in f.x : hs[h].refs > 0 /\ hs[h].alive},
           NEW g, g = [f EXCEPT !.x = todo]
    PROVE  Tearing(q, g, todo)
<1>1. f \in Frame /\ q \in Seq(Frame) /\ agenda = Put(f, q) /\ ~freed
  BY OnTop
<1>2. "streams_teardown" \in SlotSetOps
  BY DEF SlotSetOps
<1>3. /\ g \in Frame /\ g.op = f.op /\ g.x = todo /\ g.at = f.at
      /\ f.x \subseteq Slots /\ todo \subseteq f.x
  <2>1. f \in Frame /\ f.op \in SlotSetOps /\ todo \subseteq f.x
    BY <1>1, <1>2
  <2>2. PICK k, S : k \in Frame /\ k = f /\ S = todo
    BY <2>1, Zenon
  <2>3. k \in Frame /\ k.op \in SlotSetOps /\ S \subseteq k.x
    BY <2>1, <2>2
  <2>4. /\ [k EXCEPT !.x = S] \in Frame
        /\ [k EXCEPT !.x = S].op = k.op
        /\ [k EXCEPT !.x = S].x = S
        /\ k.x \subseteq Slots /\ [k EXCEPT !.x = S].at = k.at
    BY <2>3, NextSlots, Zenon
  <2> QED
    BY <2>1, <2>2, <2>4
<1>4. PICK d, H, T : d = cbDepth /\ H = hs /\ T = told
  OBVIOUS
<1>5. Accounts(Put(f, q), d, H, T) /\ d \in Int
  <2>1. Accounts(agenda, cbDepth, hs, told)
    BY DEF IInv
  <2>2. cbDepth \in Nat
    BY Numbers
  <2>3. d \in Int
    BY <2>2, <1>4
  <2> QED
    BY <2>1, <2>3, <1>1, <1>4
<1>6. /\ Plain(f) /\ Plain(g) /\ f.op \notin BracketOps
      /\ f.op /= "service"
      /\ f.op \notin Tells \cup {"backend_release", "committed"}
      /\ f.op \notin OpenOps
  BY DEF Plain, HandleOps, OpenOps, BracketOps, Tells
<1>7. /\ Handles(Put(f, q), H, T) /\ Counted(Put(f, q), d, H)
      /\ Telling(Put(f, q), H, T) /\ Ending(Put(f, q))
      /\ \A h \in Slots : TornLater(Put(f, q), T, h)
  BY <1>5 DEF Accounts, Books
<1>8. /\ Handles(q, H, T) /\ q /= <<>>
      /\ N(q, "open_rest") > 0 => admission
  BY <1>1, <1>6, <1>7, PlainCall, Zenon
<1>9. Counted(q, d, H)
  BY <1>1, <1>5, <1>6, <1>7, AnyCounted, Zenon
<1>10. Puts(Put(g, q), g, q, H, T)
  BY <1>3, <1>6, <1>8, PlainPuts, Zenon
<1>11. Counted(Put(g, q), d, H)
  BY <1>1, <1>3, <1>5, <1>6, <1>9, AnyCounted, Zenon
<1>12. /\ \A k : N(Put(f, q), k) = N(q, k) + Bit(f.op = k)
       /\ \A k : N(q, k) \in Nat
       /\ Waiting(Put(f, q)) = {f} \cup Waiting(q)
       /\ \A h : M(Put(f, q), "committed", h) = M(q, "committed", h)
  <2>1. /\ \A k : N(Put(f, q), k) = N(q, k) + Bit(f.op = k)
        /\ \A k : N(q, k) \in Nat
        /\ Waiting(Put(f, q)) = {f} \cup Waiting(q)
        /\ \A k, h : M(Put(f, q), k, h)
                        = M(q, k, h) + Bit(f.op = k /\ f.at = h)
        /\ \A k, h : M(q, k, h) \in Nat
    BY <1>1, PutFacts, ZenonT(60)
  <2> HIDE DEF Put
  <2>2. \A h : M(Put(f, q), "committed", h) = M(q, "committed", h)
    BY <2>1, <1>6 DEF Bit
  <2> QED
    BY <2>1, <2>2
<1>13. PICK p, r : p = Put(g, q) /\ r = Put(f, q)
  BY Zenon
<1> HIDE DEF Put
<1>14. /\ \A k : N(p, k) = N(r, k)
       /\ \A k : k /= "streams_teardown" => N(q, k) = N(r, k)
       /\ N(r, "streams_teardown") > 0 /\ N(q, "streams_teardown") \in Nat
       /\ N(q, "streams_teardown") <= N(r, "streams_teardown")
  <2>1. \A k : N(p, k) = N(r, k)
    BY <1>3, <1>10, <1>12, <1>13 DEF Puts
  <2>2. \A k : k /= "streams_teardown" => N(q, k) = N(r, k)
    BY <1>12, <1>13 DEF Bit
  <2>3. N(r, "streams_teardown") = N(q, "streams_teardown") + 1
    BY <1>12, <1>13 DEF Bit
  <2> QED
    BY <2>1, <2>2, <2>3, <1>12
<1>15. terminal
  BY <1>7, <1>13, <1>14 DEF Ending
<1>16. Ending(p) /\ Ending(q)
  <2>1. Ending(r)
    BY <1>7, <1>13
  <2>2. Ending(p)
    BY <2>1, <1>14, Zenon DEF Ending
  <2>3. ~(deferred \/ outcome /= "none")
    BY <2>1, <1>14 DEF Ending
  <2>4. /\ N(q, "on_session_closed") = N(r, "on_session_closed")
        /\ N(q, "on_conn_error") = N(r, "on_conn_error")
        /\ N(q, "session_failed") = N(r, "session_failed")
        /\ N(q, "tell_closed") = N(r, "tell_closed")
        /\ N(q, "tell_failed") = N(r, "tell_failed")
        /\ N(q, "committed") = N(r, "committed")
        /\ N(q, "commit_end") = N(r, "commit_end")
        /\ N(q, "backend_release") = N(r, "backend_release")
        /\ N(q, "conn_fatal") = N(r, "conn_fatal")
        /\ N(q, "open_rest") = N(r, "open_rest")
    BY <1>14
  <2>5. Ending(q)
    BY <2>1, <2>3, <2>4, <1>15, Zenon DEF Ending
  <2> QED
    BY <2>2, <2>5
<1>17. Telling(p, H, T) /\ Telling(q, H, T)
  BY <1>7, <1>13, <1>14 DEF Telling
<1>18. /\ Waiting(p) = {g} \cup Waiting(q)
       /\ \A h : M(p, "committed", h) = M(q, "committed", h)
  BY <1>3, <1>6, <1>10, <1>13 DEF Puts
<1>19. ASSUME NEW h \in Slots
       PROVE  TornLater(p, T, h) /\ (todo = {} => TornLater(q, T, h))
  <2>1. SUFFICES ASSUME T[h] = "given"
                 PROVE  TornLater(p, T, h) /\ (todo = {} => TornLater(q, T, h))
    BY DEF TornLater
  <2>2. CASE M(q, "committed", h) > 0
    BY <2>2, <1>18 DEF TornLater
  <2>3. CASE ~(M(q, "committed", h) > 0)
    <3>1. hs[h].refs > 0 /\ hs[h].alive
      BY <2>1, <2>3, <1>1, <1>4, <1>15, NotTorn, Zenon
    <3>2. \E k \in Waiting(r) : k.op = "streams_teardown" /\ h \in k.x
      BY <2>1, <2>3, <1>7, <1>12, <1>13, <1>15 DEF TornLater
    <3>3. \/ h \in f.x
          \/ \E k \in Waiting(q) : k.op = "streams_teardown" /\ h \in k.x
      BY <3>2, <1>12, <1>13
    <3>4. h \in f.x => h \in todo
      BY <3>1
    <3>5. h \in todo => \E k \in Waiting(p) :
                          k.op = "streams_teardown" /\ h \in k.x
      BY <1>3, <1>18, Zenon
    <3> QED
      BY <3>3, <3>4, <3>5, <1>18 DEF TornLater
  <2> QED
    BY <2>2, <2>3
<1>20. Calm(p, d, H, T)
  <2>1. Handles(p, H, T) /\ (N(p, "open_rest") > 0 => admission)
    BY <1>10, <1>13 DEF Puts
  <2> QED
    BY <2>1, <1>5, <1>11, <1>13, <1>16, <1>17, <1>19 DEF Calm, Ready, Books
<1>21. todo = {} => Calm(q, d, H, T)
  BY <1>5, <1>8, <1>9, <1>16, <1>17, <1>19 DEF Calm, Ready, Books
<1>22. N(q, "committed") = commitDepth
  BY <1>1, <1>13, <1>14 DEF IInv
<1> QED
  BY <1>1, <1>3, <1>4, <1>8, <1>13, <1>15, <1>20, <1>21, <1>22, Zenon DEF
     Tearing

(* A turn of the loop leaves one slot less to its call, below the close of *)
(* that slot's stream.                                                     *)
Swapped(p, r, d, H, T) ==
    Calm(p, d, H, T) /\ N(p, "committed") = N(r, "committed")
    /\ p \in Seq(Frame) /\ p /= <<>>

(* The teardown's call goes on with fewer slots.                           *)
LEMMA SwapCall ==
    ASSUME NEW q \in Seq(Frame), NEW d, NEW H, NEW T,
           NEW c \in Frame, c.op = "slot_release", NEW f \in Frame,
           f.op = "streams_teardown", NEW g \in Frame, g.op = f.op,
           NEW h \in Slots, f.x \subseteq g.x \cup {h}, T[h] /= "given",
           NEW r, r = Put(c, Put(f, q)), Calm(r, d, H, T),
           NEW p, p = Put(c, Put(g, q))
    PROVE  Swapped(p, r, d, H, T)
<1>1. PICK a \in Seq(Frame), b \in Seq(Frame) : a = Put(f, q) /\ b = Put(g, q)
  BY PutWaiting
<1>2. r = Put(c, a) /\ p = Put(c, b)
  BY <1>1
<1>3. /\ \A k : N(a, k) = N(q, k) + Bit(f.op = k)
      /\ \A k : N(q, k) \in Nat
      /\ \A k, i : M(a, k, i) = M(q, k, i) + Bit(f.op = k /\ f.at = i)
      /\ \A k, i : M(q, k, i) \in Nat
      /\ Waiting(a) = {f} \cup Waiting(q) /\ a /= <<>>
  BY <1>1, PutFacts, SMTT(60)
<1>4. /\ \A k : N(b, k) = N(q, k) + Bit(g.op = k)
      /\ \A k, i : M(b, k, i) = M(q, k, i) + Bit(g.op = k /\ g.at = i)
      /\ Waiting(b) = {g} \cup Waiting(q) /\ b /= <<>>
  BY <1>1, PutFacts, SMTT(60)
<1>5. /\ \A k : N(r, k) = N(a, k) + Bit(c.op = k)
      /\ \A k, i : M(r, k, i) = M(a, k, i) + Bit(c.op = k /\ c.at = i)
      /\ Waiting(r) = {c} \cup Waiting(a)
      /\ \A k, i : M(r, k, i) \in Nat
  BY <1>2, PutFacts, PutWaiting, CountRange, SMTT(60)
<1>6. /\ \A k : N(p, k) = N(b, k) + Bit(c.op = k)
      /\ \A k, i : M(p, k, i) = M(b, k, i) + Bit(c.op = k /\ c.at = i)
      /\ Waiting(p) = {c} \cup Waiting(b)
      /\ p \in Seq(Frame) /\ p /= <<>>
  BY <1>2, PutFacts
<1>7. /\ Handles(r, H, T) /\ Counted(r, d, H) /\ Telling(r, H, T)
      /\ Ending(r) /\ d \in Int
      /\ \A i \in Slots : TornLater(r, T, i)
      /\ N(r, "open_rest") > 0 => admission
  BY DEF Calm, Ready, Books
<1>8. Counted(p, d, H)
  <2>1. Brackets(a) = Brackets(q) /\ Brackets(b) = Brackets(q)
    BY <1>1, PutBrackets, Zenon DEF BracketOps
  <2>2. Brackets(r) = Brackets(a) /\ Brackets(p) = Brackets(b)
    BY <1>2, PutBrackets, SMTT(60) DEF BracketOps
  <2>3. N(p, "service") = N(r, "service")
    BY <1>3, <1>4, <1>5, <1>6
  <2> QED
    BY <2>1, <2>2, <2>3, <1>7 DEF Counted
<1>9. \A k : N(p, k) = N(r, k)
  BY <1>3, <1>4, <1>5, <1>6
<1>10. \A k, i : k /= "streams_teardown" => M(p, k, i) = M(r, k, i)
  <2>1. \A k, i : k /= "streams_teardown" =>
           M(a, k, i) = M(q, k, i) /\ M(b, k, i) = M(q, k, i)
    BY <1>3, <1>4 DEF Bit
  <2> QED
    BY <2>1, <1>5, <1>6
<1>11. Stacked(admission, p)
  <2>1. /\ Stacked(admission, a)
        /\ \A k \in Waiting(a) : Above(admission, c, k)
    BY <1>2, <1>7, PutStacked, ZenonT(60) DEF Handles
  <2>2. /\ Stacked(admission, q)
        /\ \A k \in Waiting(q) : Above(admission, f, k)
        /\ q /= <<>>
    BY <1>1, <2>1, PutStacked, Zenon DEF BracketOps
  <2>3. \A k \in Waiting(q) : Above(admission, g, k)
    BY <2>2 DEF Above, OpenOps, Tells
  <2>4. Stacked(admission, b)
    BY <1>1, <2>2, <2>3, PutStacked, Zenon
  <2>5. Above(admission, c, g)
    BY DEF Above, OpenOps, Tells
  <2>6. \A k \in Waiting(b) : Above(admission, c, k)
    BY <2>1, <2>5, <1>3, <1>4
  <2>7. c.op /= "settle" /\ b /= <<>>
    BY <1>4
  <2>8. Stacked(admission, Put(c, b))
    BY <2>4, <2>6, <2>7, PutStacked, Zenon
  <2> QED
    BY <2>8, <1>2
<1>12. \A k \in Waiting(p) : Relies(H, T, k)
  <2>1. Relies(H, T, g)
    BY DEF Relies, HandleOps, OpenOps
  <2>2. \A k \in Waiting(r) : Relies(H, T, k)
    BY <1>7 DEF Handles
  <2> QED
    BY <2>1, <2>2, <1>3, <1>4, <1>5, <1>6
<1>13. \A i \in Slots : HandleSound(p, H, T, i)
  <2>1. \A i \in Slots : HandleSound(r, H, T, i)
    BY <1>7, Zenon DEF Handles
  <2> QED
    BY <2>1, <1>10, ZenonT(60) DEF HandleSound, Holds
<1>14. Handles(p, H, T)
  BY <1>6, <1>7, <1>11, <1>12, <1>13 DEF Handles
<1>15. Telling(p, H, T) /\ Ending(p)
  BY <1>7, <1>9 DEF Telling, Ending
<1>16. ASSUME NEW i \in Slots PROVE TornLater(p, T, i)
  <2>1. SUFFICES ASSUME terminal, T[i] = "given",
                        ~(M(p, "committed", i) > 0)
                 PROVE  \E k \in Waiting(p) :
                          k.op = "streams_teardown" /\ i \in k.x
    BY DEF TornLater
  <2>2. \E k \in Waiting(r) : k.op = "streams_teardown" /\ i \in k.x
    BY <2>1, <1>7, <1>10 DEF TornLater
  <2>3. i /= h
    BY <2>1
  <2> QED
    BY <2>2, <2>3, <1>3, <1>4, <1>5, <1>6
<1> QED
  BY <1>6, <1>7, <1>8, <1>9, <1>14, <1>15, <1>16
     DEF Swapped, Calm, Ready, Books

(* The stream closed in a turn of the loop.                                *)
LEMMA TearStep ==
    ASSUME IInv, NEW q, NEW todo, NEW f, Tearing(q, f, todo),
           NEW h \in todo, hs[h].alive, StreamUnlink(h, ShutHandle(hs[h], Halves)),
           TellClosed(h), NEW g, g = [f EXCEPT !.x = todo \ {h}],
           NEW c, c = OnHandle("slot_release", h, {}), NEW p,
           p = Put(c, Put(g, q))
    PROVE  /\ Calm(p, cbDepth, hs', told') /\ c \in Frame /\ g \in Frame
           /\ N(p, "committed") = commitDepth /\ p /= <<>>
           /\ es' \in [Slots -> StreamType] /\ Linked'
<1>1. /\ Calm(Put(f, q), cbDepth, hs, told) /\ q \in Seq(Frame)
      /\ N(q, "committed") = commitDepth /\ terminal /\ h \in Slots
      /\ f \in Frame /\ f.op = "streams_teardown" /\ f.x = todo
  BY DEF Tearing
<1>2. PICK b : b = Put(f, q)
  OBVIOUS
<1>3. /\ Calm(b, cbDepth, hs, told) /\ b /= <<>> /\ b \in Seq(Frame)
      /\ N(b, "committed") = commitDepth
  BY <1>1, <1>2, PutWaiting, Committed
<1>4. PICK n : n = ShutHandle(hs[h], Halves)
  OBVIOUS
<1>5. SameHandle(n, hs[h])
  <2>1. hs[h] \in HandleType
    BY <1>1, Numbers
  <2>2. PICK m : m = CASE ~hs[h].alive -> hs[h]
                 [] "last" \in Halves -> [hs[h] EXCEPT !.send = FALSE,
                                                    !.fin = hs[h].commit]
                 [] OTHER -> ShutHandle(hs[h], Halves)
    OBVIOUS
  <2>3. m = n
    BY <2>2, <1>4 DEF Halves
  <2> QED
    BY <2>1, <2>2, <2>3, SettleCases, Zenon
<1>6. PICK G, r, d : G = [hs EXCEPT ![h] = n] /\ r = Put(c, b)
                     /\ d = cbDepth
  BY Zenon
<1>7. Over
  <2>1. Ending(agenda)
    BY DEF IInv, Accounts
  <2> QED
    BY <2>1, <1>1 DEF Ending
<1>8. Calm(b, d, G, told) /\ d \in Int
  <2>1. cbDepth \in Nat /\ hs \in [Slots -> HandleType]
    BY Numbers
  <2>2. PICK H, T : H = hs /\ T = told
    OBVIOUS
  <2>3. /\ Ready(b, d, H, T) /\ Ending(b)
    BY <1>3, <1>6, <2>2 DEF Calm
  <2>4. Ready(b, d, [H EXCEPT ![h] = n], T)
    <3>1. PICK t : t = T[h]
      OBVIOUS
    <3>2. /\ Handles(b, H, T) /\ Counted(b, d, H) /\ Telling(b, H, T)
          /\ d \in Int /\ \A i \in Slots : TornLater(b, T, i)
          /\ N(b, "open_rest") > 0 => admission
      BY <2>3 DEF Ready, Books
    <3>3. n \in HandleType /\ n.refs = H[h].refs /\ n.app = H[h].app
          /\ n.alive = H[h].alive /\ n.gen = H[h].gen
      BY <1>5, <2>2, Zenon DEF SameHandle
    <3>4. PICK K : K = [H EXCEPT ![h] = n]
      BY Zenon
    <3>5. /\ K \in [Slots -> HandleType]
          /\ \A i \in Slots : /\ K[i].refs = H[i].refs /\ K[i].app = H[i].app
                              /\ K[i].alive = H[i].alive /\ K[i].gen = H[i].gen
      BY <1>1, <2>1, <2>2, <3>3, <3>4
    <3>6. Handles(b, K, T)
      <4>1. \A i \in Slots : HandleSound(b, K, T, i)
        BY <3>2, <3>5, Zenon DEF Handles, HandleSound
      <4>2. ASSUME NEW k \in Waiting(b) PROVE Relies(K, T, k)
        <5>1. Relies(H, T, k) /\ k \in Frame
          BY <1>3, <3>2, <4>2, PutWaiting DEF Handles, Waiting
        <5>2. k.op \in HandleOps => k.at \in Slots
          BY <5>1 DEF Frame
        <5> QED
          BY <5>1, <5>2, <3>5 DEF Relies, Reserved
      <4> QED
        BY <4>1, <4>2, <3>2, <3>5 DEF Handles
    <3>7. Counted(b, d, K)
      <4>1. Tokens(K) = Tokens(H)
        BY <3>5 DEF Tokens
      <4> QED
        BY <4>1, <3>2 DEF Counted
    <3>8. Telling(b, K, T)
      BY <3>2, <3>5 DEF Telling
    <3>9. Ready(b, d, K, T)
      BY <3>2, <3>6, <3>7, <3>8 DEF Ready, Books
    <3> QED
      BY <3>4, <3>9
  <2> QED
    BY <2>1, <2>2, <2>3, <2>4, <1>6 DEF Calm
<1>9. Shuts(r, b, d, c, h)
  <2>1. StreamUnlink(h, n)
    BY <1>4
  <2> QED
    BY <2>1, <1>1, <1>3, <1>5, <1>6, <1>7, <1>8, CloseOn, Zenon
<1>10. /\ Calm(r, d, hs', told') /\ c \in Frame /\ r \in Seq(Frame)
       /\ N(r, "committed") = commitDepth /\ told'[h] /= "given"
       /\ es' \in [Slots -> StreamType] /\ Linked'
  BY <1>3, <1>9 DEF Shuts
<1>11. PICK H, T : H = hs' /\ T = told'
  OBVIOUS
<1>12. g \in Frame /\ g.op = f.op /\ g.x = todo \ {h}
  <2>1. PICK k, S : k = f /\ S = todo \ {h}
    BY Zenon
  <2>2. k \in Frame /\ k.op \in SlotSetOps /\ S \subseteq k.x
    BY <2>1, <1>1 DEF SlotSetOps
  <2>3. /\ [k EXCEPT !.x = S] \in Frame
        /\ [k EXCEPT !.x = S].op = k.op
        /\ [k EXCEPT !.x = S].x = S
    BY <2>2, NextSlots, Zenon
  <2> QED
    BY <2>1, <2>3
<1>13. c.op = "slot_release"
  BY DEF OnHandle
<1>14. Swapped(p, r, d, H, T)
  <2>1. r = Put(c, Put(f, q)) /\ Calm(r, d, H, T) /\ T[h] /= "given"
    BY <1>2, <1>6, <1>10, <1>11
  <2>2. f.x \subseteq g.x \cup {h}
    BY <1>1, <1>12
  <2> QED
    BY <2>1, <2>2, <1>1, <1>10, <1>12, <1>13, SwapCall, Zenon
<1> QED
  BY <1>6, <1>10, <1>11, <1>12, <1>14 DEF Swapped

(* streams_teardown.                                                       *)
LEMMA StreamsTeardownStep ==
    ASSUME IInv, StreamsTeardown
    PROVE  IInv'
<1>1. agenda /= <<>> /\ Head(agenda).op = "streams_teardown"
  BY DEF StreamsTeardown, At
<1>2. PICK f \in Frame, q \in Seq(Frame) :
        f = Head(agenda) /\ q = Tail(agenda) /\ agenda = Put(f, q) /\ ~freed
  BY <1>1, OnTop, Zenon
<1>3. PICK todo, e : /\ todo = {h \in f.x : hs[h].refs > 0 /\ hs[h].alive}
                     /\ e = [f EXCEPT !.x = todo]
  BY Zenon
<1>4. Tearing(q, e, todo)
  BY <1>1, <1>2, <1>3, TearTop, Zenon
<1>5. UNCHANGED <<admission, count, flags, engine, streams, outcome, late>>
  BY DEF StreamsTeardown
<1>6. Quiet /\ cbDepth' = cbDepth /\ freed' = freed /\ late' = late
       /\ commitDepth' = commitDepth /\ streams' = streams
  BY <1>5 DEF Quiet, count, flags, engine
<1>7. /\ freed \in BOOLEAN /\ streams \in Nat
      /\ freed <=> (refs = 0 /\ cbDepth = 0)
  BY DEF IInv, Types
<1>8. CASE todo = {} /\ Then(<<>>) /\ UNCHANGED <<hs, es, told>>
  <2>1. agenda' = q
    BY <1>8, <1>1, <1>2, ThenNone
  <2>2. PICK H, T, d : H = hs' /\ T = told' /\ d = cbDepth
    OBVIOUS
  <2>3. Calm(q, d, H, T) /\ commitDepth' = N(q, "committed") /\ cbDepth' = d
    BY <2>2, <1>4, <1>6, <1>8 DEF Tearing
  <2>4. es' \in [Slots -> StreamType]
    BY <1>8 DEF IInv, Types
  <2>5. Linked'
    <3>1. SameLinks
      BY <1>8 DEF SameLinks
    <3> QED
      BY <3>1, <1>8, Links
  <2> QED
    BY <2>1, <2>2, <2>3, <2>4, <2>5, <1>6, <1>7, Onward
<1>9. CASE /\ todo /= {}
           /\ LET h == First(todo) IN
             /\ StreamUnlink(h, ShutHandle(hs[h], Halves))
             /\ TellClosed(h)
             /\ AppThen(ClosedCalls(h) \o <<[f EXCEPT !.x = todo \ {h}]>>)
  <2>1. PICK h : h = First(todo)
    OBVIOUS
  <2>2. h \in todo /\ hs[h].alive /\ h \in Slots
    BY <2>1, <1>3, <1>4, <1>9, FirstIn, Zenon DEF Tearing
  <2>3. /\ StreamUnlink(h, ShutHandle(hs[h], Halves)) /\ TellClosed(h)
        /\ AppThen(ClosedCalls(h) \o <<[f EXCEPT !.x = todo \ {h}]>>)
    BY <2>1, <1>9
  <2>4. PICK g, c, p : /\ g = [e EXCEPT !.x = todo \ {h}]
                       /\ c = OnHandle("slot_release", h, {})
                       /\ p = Put(c, Put(g, q))
    BY Zenon
  <2>5. g = [f EXCEPT !.x = todo \ {h}]
    BY <2>4, <1>2, <1>3, Zenon DEF Frame
  <2>6. /\ Calm(p, cbDepth, hs', told') /\ c \in Frame /\ g \in Frame
        /\ N(p, "committed") = commitDepth /\ p /= <<>>
        /\ es' \in [Slots -> StreamType] /\ Linked'
    BY <2>2, <2>3, <2>4, <1>4, TearStep
  <2>7. PICK s : s = <<c>> \o <<g>>
    BY Zenon
  <2>8. s \in Seq(Frame) /\ s \o q = p
    <3>1. <<c>> \in Seq(Frame) /\ <<g>> \in Seq(Frame)
      BY <2>6
    <3>2. s \in Seq(Frame) /\ s \o q = <<c>> \o (<<g>> \o q)
      BY <3>1, <2>7, Joined
    <3> QED
      BY <3>2, <2>4 DEF Put
  <2>9. PICK z, H, T : z = agenda' /\ H = hs' /\ T = told'
    OBVIOUS
  <2>10. z = ((IF Len(s \o q) + 1 < MaxDepth THEN <<App>> ELSE <<>>) \o s) \o q
    BY <2>3, <2>4, <2>5, <2>7, <2>9, <1>2 DEF AppThen, AppFirst, ClosedCalls
  <2>11. Calm(z, cbDepth, H, T) /\ N(z, "committed") = commitDepth
    <3>1. Calm(s \o q, cbDepth, H, T) /\ s \o q /= <<>>
      BY <2>6, <2>8, <2>9
    <3>2. PICK d : d = cbDepth
      OBVIOUS
    <3>3. Calm(s \o q, d, H, T)
      BY <3>1, <3>2
    <3>4. Calm(z, d, H, T) /\ N(z, "committed") = N(s \o q, "committed")
      BY <3>1, <3>3, <2>8, <2>10, AppOn, Zenon
    <3> QED
      BY <3>2, <3>4, <2>6, <2>8
  <2> QED
    BY <2>6, <2>9, <2>11, <1>6, <1>7, Onward
<1> QED
  <2>1. \/ todo = {} /\ Then(<<>>) /\ UNCHANGED <<hs, es, told>>
        \/ /\ todo /= {}
           /\ LET h == First(todo) IN
             /\ StreamUnlink(h, ShutHandle(hs[h], Halves))
             /\ TellClosed(h)
             /\ AppThen(ClosedCalls(h) \o <<[f EXCEPT !.x = todo \ {h}]>>)
    BY <1>2, <1>3, Zenon DEF StreamsTeardown, This
  <2> QED
    BY <2>1, <1>8, <1>9

-----------------------------------------------------------------------------
(* A commit stream.                                                        *)

(* Behind its commit callback a stream's handle is held by commit_end, and *)
(* its last event is on top of that.                                       *)
Commits(p, q, d, H, T, h) ==
    /\ Calm(p, d, H, [T EXCEPT ![h] = "closed"]) /\ p \in Seq(Frame)
    /\ p /= <<>> /\ N(p, "committed") = commitDepth - 1
    /\ T[h] = "given" /\ ~H[h].alive

(* The commit callback has returned.                                       *)
LEMMA CommitPop ==
    ASSUME IInv, NEW f \in Frame, NEW q \in Seq(Frame), NEW d \in Int, NEW H,
           NEW T, d = cbDepth, H = hs, T = told, agenda = Put(f, q),
           f.op = "committed", NEW h \in Slots, h = f.at,
           NEW e \in Frame, e.op = "commit_end", e.at = h, e.gen = H[h].gen,
           NEW c \in Frame, c.op = "slot_release", c.at = h, c.gen = H[h].gen,
           NEW p, p = Put(c, Put(e, q))
    PROVE  Commits(p, q, d, H, T, h)
<1>1. Accounts(Put(f, q), d, H, T) /\ commitDepth = N(Put(f, q), "committed")
  BY DEF IInv
<1>2. /\ H \in [Slots -> HandleType] /\ T \in ToldType
      /\ HandleSound(Put(f, q), H, T, h) /\ Telling(Put(f, q), H, T)
      /\ Ending(Put(f, q))
  BY <1>1 DEF Accounts, Books, Handles
<1>3. PICK cm \in Nat, sr \in Nat, dr \in Nat :
        /\ cm = M(q, "committed", h) /\ sr = M(q, "slot_release", h)
        /\ dr = Holds(q, h)
  BY HandleCounts
<1>4. /\ M(Put(f, q), "committed", h) = cm + 1
      /\ M(Put(f, q), "slot_release", h) = sr
      /\ Holds(Put(f, q), h) = dr
  BY <1>3, HandleCounts DEF Bit
<1>5. PICK R, t : R \in HandleType /\ R = H[h] /\ t = T[h]
  BY <1>2
<1>6. Sound(R.refs, R.app, R.alive, t, cm + 1, sr, dr)
  BY <1>2, <1>4, <1>5 DEF HandleSound
<1>7. /\ t = "given" /\ ~R.alive
      /\ Sound(R.refs, R.app, R.alive, "none", cm, sr, dr)
      /\ Sound(R.refs, R.app, R.alive, "none", cm, sr, dr + 1)
      /\ Sound(R.refs, R.app, R.alive, "closed", cm, sr + 1, dr + 1)
  <2>1. R.refs \in Nat /\ R.app \in Nat /\ R.alive \in BOOLEAN
    BY <1>5 DEF HandleType
  <2> QED
    BY <2>1, <1>6, CommitCloses
<1>8. sess /= "none"
  BY <1>2, <1>5, <1>7, Zenon DEF Telling
<1>9. PICK s, u : s = "none" /\ u = "closed"
  OBVIOUS
<1>10. PICK T1, T2 : /\ T1 = [T EXCEPT ![h] = s] /\ T2 = [T EXCEPT ![h] = u]
  BY Zenon
<1>11. PICK H1 : H1 = [H EXCEPT ![h] = R]
  BY Zenon
<1>12. H1 = H /\ T1[h] = s /\ [T1 EXCEPT ![h] = s] = T1
       /\ [T1 EXCEPT ![h] = u] = T2
  BY <1>2, <1>5, <1>10, <1>11, Zenon DEF ToldType
<1>13. Ready(q, d - 1, H, T1)
  <2>1. StillReserved(H, T, h, R, s)
    BY <1>5, <1>7 DEF StillReserved, Reserved
  <2>2. MayTell(T, h, R, s)
    BY <1>7, <1>9 DEF MayTell
  <2>3. Sound(R.refs, R.app, R.alive, s, M(q, "committed", h),
              M(q, "slot_release", h), Holds(q, h))
    BY <1>3, <1>7, <1>9
  <2>4. f.op \in HandleOps \cup OpenOps \cup {"exit"} /\ s /= "given"
        /\ f.op \in BracketOps
    BY <1>9 DEF HandleOps, BracketOps
  <2>5. Ready(q, d - Bit(f.op \in BracketOps), [H EXCEPT ![h] = R],
              [T EXCEPT ![h] = s])
    BY <2>1, <2>2, <2>3, <2>4, <1>1, <1>5, Pop
  <2>6. d - Bit(f.op \in BracketOps) = d - 1
    BY <2>4 DEF Bit
  <2> QED
    BY <2>5, <2>6, <1>10, <1>11, <1>12
<1>14. Ready(Put(e, q), d, H, T1)
  <2>1. StillReserved(H, T1, h, R, s) /\ StillTold(T1, h, R, s)
    BY <1>5, <1>8, <1>9, <1>12 DEF StillReserved, StillTold
  <2>2. e.op \in HandleOps \cup NeutralOps \cup {"exit"} /\ e.op /= "settle"
        /\ e.op \in BracketOps
    BY DEF HandleOps, BracketOps
  <2>3. Sound(R.refs, R.app, R.alive, s,
              M(q, "committed", h) + Bit(e.op = "committed"),
              M(q, "slot_release", h) + Bit(e.op = "slot_release"),
              Holds(q, h) + Bit(e.op \in {"drop", "commit_end"}))
    <3>1. /\ M(q, "committed", h) + Bit(e.op = "committed") = cm
          /\ M(q, "slot_release", h) + Bit(e.op = "slot_release") = sr
          /\ Holds(q, h) + Bit(e.op \in {"drop", "commit_end"}) = dr + 1
      BY <1>3 DEF Bit
    <3> QED
      BY <3>1, <1>7, <1>9
  <2>4. PICK d1 : d1 = d - 1
    OBVIOUS
  <2>5. Ready(Put(e, q), d1 + Bit(e.op \in BracketOps), [H EXCEPT ![h] = R],
              [T1 EXCEPT ![h] = s])
    <3>1. Ready(q, d1, H, T1)
      BY <2>4, <1>13
    <3> QED
      BY <3>1, <2>1, <2>2, <2>3, <1>5, Push, Zenon
  <2>6. d1 + Bit(e.op \in BracketOps) = d
    BY <2>2, <2>4 DEF Bit
  <2> QED
    BY <2>5, <2>6, <1>11, <1>12, Zenon
<1>15. PICK b \in Seq(Frame) : b = Put(e, q) /\ b /= <<>>
  BY PutWaiting
<1>16. /\ M(b, "committed", h) = cm /\ M(b, "slot_release", h) = sr
       /\ Holds(b, h) = dr + 1
  BY <1>3, <1>15, HandleCounts, SMTT(60) DEF Bit
<1>17. Ready(p, d, H, T2)
  <2>1. StillReserved(H, T1, h, R, u) /\ StillTold(T1, h, R, u)
    BY <1>5, <1>7, <1>8, <1>9, <1>12 DEF StillReserved, StillTold, Reserved
  <2>2. c.op \in HandleOps \cup NeutralOps \cup {"exit"} /\ c.op /= "settle"
        /\ c.op \notin BracketOps
    BY DEF HandleOps, BracketOps
  <2>3. Sound(R.refs, R.app, R.alive, u,
              M(b, "committed", h) + Bit(c.op = "committed"),
              M(b, "slot_release", h) + Bit(c.op = "slot_release"),
              Holds(b, h) + Bit(c.op \in {"drop", "commit_end"}))
    <3>1. /\ M(b, "committed", h) + Bit(c.op = "committed") = cm
          /\ M(b, "slot_release", h) + Bit(c.op = "slot_release") = sr + 1
          /\ Holds(b, h) + Bit(c.op \in {"drop", "commit_end"}) = dr + 1
      BY <1>16 DEF Bit
    <3> QED
      BY <3>1, <1>7, <1>9
  <2>4. Ready(Put(c, b), d + Bit(c.op \in BracketOps), [H EXCEPT ![h] = R],
              [T1 EXCEPT ![h] = u])
    <3>1. Ready(b, d, H, T1)
      BY <1>14, <1>15
    <3> QED
      BY <3>1, <2>1, <2>2, <2>3, <1>5, <1>15, Push, Zenon
  <2>5. d + Bit(c.op \in BracketOps) = d
    BY <2>2 DEF Bit
  <2> QED
    BY <2>4, <2>5, <1>11, <1>12, <1>15, Zenon
<1>18. PICK a \in Seq(Frame) : a = Put(f, q)
  BY PutWaiting
<1>19. /\ \A k : N(a, k) = N(q, k) + Bit(f.op = k)
       /\ \A k : N(q, k) \in Nat
  BY <1>18, PutFacts
<1>20. \A k : N(b, k) = N(q, k) + Bit(e.op = k)
  BY <1>15, PutFacts
<1>21. /\ \A k : N(p, k) = N(b, k) + Bit(c.op = k)
       /\ p \in Seq(Frame) /\ p /= <<>>
  BY <1>15, PutFacts
<1>22. /\ \A k : k \notin {"committed", "commit_end", "slot_release"} =>
            N(p, k) = N(a, k)
       /\ N(p, "committed") = N(a, "committed") - 1
       /\ N(p, "commit_end") = N(a, "commit_end") + 1
       /\ N(a, "committed") \in Nat /\ N(a, "commit_end") \in Nat
  <2>1. \A k : k \notin {"committed", "commit_end", "slot_release"} =>
            N(p, k) = N(a, k)
    BY <1>19, <1>20, <1>21 DEF Bit
  <2>2. /\ N(p, "committed") = N(q, "committed")
        /\ N(a, "committed") = N(q, "committed") + 1
        /\ N(p, "commit_end") = N(q, "commit_end") + 1
        /\ N(a, "commit_end") = N(q, "commit_end")
    <3>1. /\ N(a, "committed") = N(q, "committed") + 1
          /\ N(a, "commit_end") = N(q, "commit_end")
      BY <1>19 DEF Bit
    <3>2. /\ N(b, "committed") = N(q, "committed")
          /\ N(b, "commit_end") = N(q, "commit_end") + 1
      BY <1>19, <1>20 DEF Bit
    <3>3. /\ N(p, "committed") = N(b, "committed")
          /\ N(p, "commit_end") = N(b, "commit_end")
      BY <1>19, <1>21, <3>2 DEF Bit
    <3> QED
      BY <3>1, <3>2, <3>3
  <2> QED
    BY <2>1, <2>2, <1>19
<1>23. Ending(p)
  <2>1. Ending(a)
    BY <1>2, <1>18
  <2>2. N(p, "committed") + N(p, "commit_end") > 0
    BY <1>19, <1>20, <1>21, <1>22 DEF Bit
  <2>3. /\ N(p, "on_session_closed") = N(a, "on_session_closed")
        /\ N(p, "on_conn_error") = N(a, "on_conn_error")
        /\ N(p, "session_failed") = N(a, "session_failed")
        /\ N(p, "tell_closed") = N(a, "tell_closed")
        /\ N(p, "tell_failed") = N(a, "tell_failed")
        /\ N(p, "streams_teardown") = N(a, "streams_teardown")
        /\ N(p, "backend_release") = N(a, "backend_release")
        /\ N(p, "conn_fatal") = N(a, "conn_fatal")
        /\ N(p, "open_rest") = N(a, "open_rest")
    BY <1>22, Zenon
  <2> QED
    BY <2>1, <2>2, <2>3 DEF Ending
<1>24. N(p, "committed") = commitDepth - 1
  BY <1>1, <1>18, <1>22
<1> QED
  BY <1>5, <1>7, <1>9, <1>10, <1>17, <1>21, <1>23, <1>24 DEF Commits, Calm

(* adapt_send_committed behind its callback.                               *)
LEMMA SendCommittedStep ==
    ASSUME IInv, SendCommitted
    PROVE  IInv'
<1>1. agenda /= <<>> /\ Head(agenda).op = "committed"
  BY DEF SendCommitted, At
<1>2. PICK f \in Frame, q \in Seq(Frame) :
        f = Head(agenda) /\ q = Tail(agenda) /\ agenda = Put(f, q) /\ ~freed
  BY <1>1, OnTop, Zenon
<1>3. PICK h \in Slots : h = f.at
  BY <1>1, <1>2 DEF Frame, HandleOps
<1>4. /\ hs \in [Slots -> HandleType] /\ told \in ToldType
      /\ cbDepth \in Nat /\ commitDepth \in Nat
  BY Numbers
<1>5. PICK d, H, T : d \in Int /\ d = cbDepth /\ H = hs /\ T = told
  BY <1>4
<1>6. PICK c, e, p : /\ c = OnHandle("slot_release", h, {})
                     /\ e = OnHandle("commit_end", h, {})
                     /\ p = Put(c, Put(e, q))
  OBVIOUS
<1>7. /\ c \in Frame /\ c.op = "slot_release" /\ c.at = h
      /\ c.gen = H[h].gen
      /\ e \in Frame /\ e.op = "commit_end" /\ e.at = h /\ e.gen = H[h].gen
  <2>1. /\ {} \in SUBSET (Slots \cup Marks) /\ "slot_release" \in HandleOps
        /\ "commit_end" \in HandleOps
    BY DEF HandleOps
  <2> QED
    BY <2>1, <1>4, <1>5, <1>6, HandleCall
<1>8. Commits(p, q, d, H, T, h)
  <2>1. f.op = "committed"
    BY <1>1, <1>2
  <2> QED
    BY <2>1, <1>2, <1>3, <1>5, <1>6, <1>7, CommitPop, Zenon
<1>9. /\ commitDepth' = commitDepth - 1 /\ TellClosed(h)
      /\ AppThen(ClosedCalls(h) \o <<OnHandle("commit_end", h, {})>>)
      /\ UNCHANGED <<admission, count, attached, running, terminal, deferred,
                     engine, hs, es, streams, outcome, late>>
  BY <1>2, <1>3, Zenon DEF SendCommitted, This
<1>10. Quiet /\ cbDepth' = cbDepth /\ freed' = freed /\ late' = late
       /\ streams' = streams /\ hs' = hs /\ es' = es
  BY <1>9 DEF Quiet, count, engine
<1>11. /\ freed \in BOOLEAN /\ streams \in Nat
       /\ freed <=> (refs = 0 /\ cbDepth = 0)
       /\ es \in [Slots -> StreamType]
  BY DEF IInv, Types
<1>12. told' = [T EXCEPT ![h] = "closed"]
  BY <1>5, <1>8, <1>9 DEF TellClosed, Commits
<1>13. Linked'
  <2>1. SameLinks
    BY <1>10 DEF SameLinks
  <2>2. \A g \in Slots : hs[g].alive => told'[g] = told[g]
    BY <1>4, <1>5, <1>8, <1>12 DEF Commits, ToldType
  <2> QED
    BY <2>1, <2>2, <1>10, Links
<1>14. PICK s : s = <<c>> \o <<e>>
  BY Zenon
<1>15. s \in Seq(Frame) /\ s \o q = p
  <2>1. <<c>> \in Seq(Frame) /\ <<e>> \in Seq(Frame)
    BY <1>7
  <2>2. s \in Seq(Frame) /\ s \o q = <<c>> \o (<<e>> \o q)
    BY <2>1, <1>14, Joined
  <2> QED
    BY <2>2, <1>6 DEF Put
<1>16. PICK z, U : z = agenda' /\ U = told'
  OBVIOUS
<1>17. z = ((IF Len(s \o q) + 1 < MaxDepth THEN <<App>> ELSE <<>>) \o s) \o q
  BY <1>2, <1>6, <1>9, <1>14, <1>16 DEF AppThen, AppFirst, ClosedCalls
<1>18. Calm(z, d, H, U) /\ N(z, "committed") = commitDepth - 1
  <2>1. Calm(s \o q, d, H, U) /\ s \o q /= <<>>
    BY <1>8, <1>12, <1>15, <1>16 DEF Commits
  <2>2. Calm(z, d, H, U) /\ N(z, "committed") = N(s \o q, "committed")
    BY <2>1, <1>15, <1>17, AppOn, ZenonT(60)
  <2> QED
    BY <2>2, <1>8, <1>15 DEF Commits
<1> QED
  BY <1>5, <1>9, <1>10, <1>11, <1>13, <1>16, <1>18, Onward

(* The commit callback begins: its handle leaves the live ones, held.      *)
CommitsOn(p, b, d, H, T) ==
    /\ Calm(p, d, H, T) /\ p \in Seq(Frame) /\ p /= <<>>
    /\ N(p, "committed") = N(b, "committed") + 1

(* The commit's call comes, for a handle that leaves its stream.           *)
LEMMA CommitOn ==
    ASSUME NEW b, NEW d \in Int, NEW H, NEW T, Calm(b, d, H, T), b /= <<>>,
           NEW h \in Slots, H[h].alive, T[h] = "given",
           NEW r \in HandleType, r.refs = H[h].refs + 1, r.app = H[h].app,
           ~r.alive, r.gen = H[h].gen,
           NEW c \in Frame, c.op = "committed", c.at = h, c.gen = H[h].gen,
           NEW p, p = Put(c, b), NEW G, G = [H EXCEPT ![h] = r]
    PROVE  CommitsOn(p, b, d + 1, G, T)
<1>1. /\ Ready(b, d, H, T) /\ Ending(b) /\ b \in Seq(Frame)
      /\ H \in [Slots -> HandleType] /\ T \in ToldType
      /\ HandleSound(b, H, T, h) /\ Telling(b, H, T)
  BY DEF Calm, Ready, Books, Handles
<1>2. PICK cm \in Nat, sr \in Nat, dr \in Nat :
        /\ cm = M(b, "committed", h) /\ sr = M(b, "slot_release", h)
        /\ dr = Holds(b, h)
  BY <1>1, HandleCounts
<1>3. PICK R, t : R \in HandleType /\ R = H[h] /\ t = "given" /\ t = T[h]
  BY <1>1
<1>4. Sound(r.refs, r.app, r.alive, t, cm + 1, sr, dr)
  <2>1. Sound(R.refs, R.app, R.alive, "given", cm, sr, dr)
    BY <1>1, <1>2, <1>3, Zenon DEF HandleSound
  <2>2. R.alive /\ r.refs = R.refs + 1 /\ r.app = R.app
    BY <1>3
  <2>3. Sound(r.refs, r.app, r.alive, "given", cm + 1, sr, dr)
    BY <2>1, <2>2, <1>3, LiveCommits, Zenon
  <2> QED
    BY <2>3, <1>3
<1>5. StillReserved(H, T, h, r, t)
  BY <1>3 DEF StillReserved, Reserved
<1>6. StillTold(T, h, r, t)
  BY <1>1, <1>3 DEF StillTold, Telling
<1>7. /\ c.op \in HandleOps \cup NeutralOps \cup {"exit"}
      /\ c.op \in BracketOps /\ c.op /= "settle"
  BY DEF HandleOps, BracketOps
<1>8. Sound(r.refs, r.app, r.alive, t,
            M(b, "committed", h) + Bit(c.op = "committed"),
            M(b, "slot_release", h) + Bit(c.op = "slot_release"),
            Holds(b, h) + Bit(c.op \in {"drop", "commit_end"}))
  <2>1. /\ M(b, "committed", h) + Bit(c.op = "committed") = cm + 1
        /\ M(b, "slot_release", h) + Bit(c.op = "slot_release") = sr
        /\ Holds(b, h) + Bit(c.op \in {"drop", "commit_end"}) = dr
    BY <1>2 DEF Bit
  <2> QED
    BY <2>1, <1>4
<1>9. /\ Ready(Put(c, b), d + Bit(c.op \in BracketOps),
               [H EXCEPT ![h] = r], [T EXCEPT ![h] = t])
      /\ Ending(b) => Ending(Put(c, b))
  BY <1>1, <1>5, <1>6, <1>7, <1>8, Push, Zenon
<1>10. d + Bit(c.op \in BracketOps) = d + 1 /\ [T EXCEPT ![h] = t] = T
  BY <1>1, <1>3, <1>7 DEF Bit, ToldType
<1>11. /\ N(p, "committed") = N(b, "committed") + 1
       /\ p \in Seq(Frame) /\ p /= <<>>
  BY <1>1, PutFacts DEF Bit
<1> HIDE DEF Put
<1> QED
  BY <1>1, <1>9, <1>10, <1>11 DEF Calm, CommitsOn

(* The stream's last acknowledgement arrived.                              *)
LEMMA GracefulStep ==
    ASSUME IInv, NEW e \in Slots, ~freed, Ongoing, ~closed,
           es[e].kind = "WT", OnSendShutdown(e, TRUE)
    PROVE  IInv'
<1>1. PICK h, ne, rest : /\ h = es[e].user
                         /\ ne = [es[e] EXCEPT !.fin = FALSE, !.send = FALSE]
                         /\ rest = <<OnStream("engine", e, {})>>
  BY Zenon
<1>2. PICK c, r : /\ c = OnHandle("committed", h, {})
                  /\ r = [Held(ShutHandle(hs[h], {"send"}))
                           EXCEPT !.alive = FALSE, !.es = None]
  OBVIOUS
<1>3. /\ h /= None /\ hs' = [hs EXCEPT ![h] = r]
      /\ es' = [es EXCEPT ![e] = [ne EXCEPT !.user = None]]
      /\ late' = (late \/ told[h] /= "given" \/ outcome /= "none")
      /\ commitDepth' = commitDepth + 1 /\ cbDepth' = cbDepth + Depth + 1
      /\ AppDeliver(<<c>> \o rest)
      /\ UNCHANGED <<admission, refs, freed, backend, appRefs, attached,
                     running, terminal, deferred, engine, streams, told,
                     outcome>>
  BY <1>1, <1>2 DEF OnSendShutdown
<1>4. /\ h \in Slots /\ told[h] = "given" /\ hs[h].alive /\ hs[h].es = e
      /\ outcome = "none"
  BY <1>1, <1>3, NotLate
<1>5. /\ hs \in [Slots -> HandleType] /\ told \in ToldType
      /\ cbDepth \in Nat /\ refs \in Nat /\ es \in [Slots -> StreamType]
      /\ streams \in Nat /\ freed \in BOOLEAN
      /\ freed <=> (refs = 0 /\ cbDepth = 0)
  BY Numbers, Zenon DEF IInv, Types
<1>6. /\ r \in HandleType /\ r.refs = hs[h].refs + 1 /\ r.app = hs[h].app
      /\ ~r.alive /\ r.gen = hs[h].gen
  <2>1. PICK R \in HandleType : R = hs[h]
    BY <1>4, <1>5
  <2>2. PICK i \in BOOLEAN, j \in BOOLEAN, k \in BOOLEAN :
          /\ i = (R.send /\ "send" \notin {"send"})
          /\ j = (R.fin /\ "send" \notin {"send"})
          /\ k = (R.recv /\ "recv" \notin {"send"})
    BY <2>1, Zenon DEF HandleType
  <2>3. ShutHandle(R, {"send"}) = [R EXCEPT !.send = i, !.fin = j, !.recv = k]
    BY <2>2 DEF ShutHandle
  <2>4. PICK Q : Q = [R EXCEPT !.send = i, !.fin = j, !.recv = k]
    OBVIOUS
  <2>5. /\ Q \in HandleType /\ Q.refs = R.refs /\ Q.app = R.app
        /\ Q.gen = R.gen
    BY <2>4, Zenon DEF HandleType
  <2>6. PICK P : P = [Q EXCEPT !.refs = Q.refs + 1]
    BY Zenon
  <2>7. /\ P \in HandleType /\ P.refs = R.refs + 1 /\ P.app = R.app
        /\ P.gen = R.gen
    BY <2>5, <2>6 DEF HandleType
  <2>8. r = [P EXCEPT !.alive = FALSE, !.es = None]
    BY <2>1, <2>3, <2>4, <2>6, <1>2, Zenon DEF Held
  <2> QED
    BY <2>1, <2>7, <2>8, Zenon DEF HandleType
<1>7. /\ c \in Frame /\ c.op = "committed" /\ c.at = h /\ c.gen = hs[h].gen
  <2>1. {} \in SUBSET (Slots \cup Marks) /\ "committed" \in HandleOps
    BY DEF HandleOps
  <2> QED
    BY <2>1, <1>2, <1>4, <1>5, HandleCall
<1>8. rest \in Runs
  <2>1. {} \in SUBSET Marks
    OBVIOUS
  <2> QED
    BY <2>1, <1>1, InputCalls, Zenon
<1>9. PICK m, n : m = Bracket /\ n = Below
  OBVIOUS
<1>10. PICK d, b : d = cbDepth + Depth /\ b = rest \o (m \o n)
  BY Zenon
<1>11. /\ m \in Seq(Frame) /\ n \in Seq(Frame) /\ d \in Int /\ d >= 0
       /\ m \o n /= <<>> /\ Calm(m \o n, d, hs, told)
       /\ N(m \o n, "committed") = commitDepth /\ m \o n \in Seq(Frame)
  <2>1. /\ m \in Seq(Frame) /\ n \in Seq(Frame)
        /\ Depth \in {0, 1}
        /\ m \o n /= <<>> /\ Calm(m \o n, d, hs, told)
        /\ N(m \o n, "committed") = commitDepth
    BY <1>9, <1>10, Bracketed DEF Ongoing
  <2>2. m \o n \in Seq(Frame)
    BY <2>1, Closed
  <2>3. d \in Int /\ d >= 0
    BY <2>1, <1>5, <1>10
  <2> QED
    BY <2>1, <2>2, <2>3
<1>12. /\ Calm(b, d, hs, told) /\ b /= <<>> /\ rest \in Seq(Frame)
       /\ N(b, "committed") = commitDepth
  BY <1>8, <1>10, <1>11, NeutralRun, CommittedRun, Zenon
<1>13. PICK H, G, T, p : /\ H = hs /\ G = [H EXCEPT ![h] = r] /\ T = told
                         /\ p = Put(c, b)
  BY Zenon
<1>14. CommitsOn(p, b, d + 1, G, T)
  <2>1. Calm(b, d, H, T) /\ H[h].alive /\ T[h] = "given"
    BY <1>4, <1>12, <1>13
  <2>2. r.refs = H[h].refs + 1 /\ r.app = H[h].app /\ r.gen = H[h].gen
        /\ c.gen = H[h].gen
    BY <1>6, <1>7, <1>13
  <2> QED
    BY <2>1, <2>2, <1>4, <1>6, <1>7, <1>11, <1>12, <1>13, CommitOn, Zenon
<1>15. PICK k, calls : k = <<c>> /\ calls = (k \o rest) \o m
  BY Zenon
<1>16. /\ calls \in Seq(Frame) /\ calls \o n = p
  <2>1. k \in Seq(Frame) /\ k \o rest \in Seq(Frame)
    BY <1>7, <1>12, <1>15, Closed
  <2>2. calls \in Seq(Frame)
    BY <2>1, <1>11, <1>15, Closed
  <2>3. calls \o n = (k \o rest) \o (m \o n)
    BY <2>1, <1>11, <1>15, Assoc, SMTT(60)
  <2>4. (k \o rest) \o (m \o n) = k \o (rest \o (m \o n))
    BY <2>1, <1>7, <1>11, <1>12, <1>15, Assoc, SMTT(60)
  <2> QED
    BY <2>2, <2>3, <2>4, <1>10, <1>13, <1>15 DEF Put
<1>17. PICK z, i : z = agenda' /\ i = d + 1
  OBVIOUS
<1>18. z = ((IF Len(calls \o n) + 1 < MaxDepth THEN <<App>> ELSE <<>>)
            \o calls) \o n
  BY <1>3, <1>9, <1>15, <1>17 DEF AppDeliver, AppFirst
<1>19. Calm(z, i, G, T) /\ N(z, "committed") = commitDepth + 1
  <2>1. Calm(calls \o n, i, G, T) /\ calls \o n /= <<>>
    BY <1>14, <1>16, <1>17 DEF CommitsOn
  <2>2. calls \in Seq(Frame) /\ n \in Seq(Frame)
    BY <1>11, <1>16
  <2>3. Calm(z, i, G, T) /\ N(z, "committed") = N(calls \o n, "committed")
    BY <2>1, <2>2, <1>18, AppOn, Zenon
  <2> QED
    BY <2>3, <1>12, <1>14, <1>16 DEF CommitsOn
<1>20. es' \in [Slots -> StreamType]
  <2>1. es[e] \in StreamType
    BY <1>5
  <2>2. ne \in StreamType
    BY <2>1, <1>1, Zenon DEF StreamType
  <2>3. [ne EXCEPT !.user = None] \in StreamType
    BY <2>2 DEF StreamType
  <2> QED
    BY <2>3, <1>3, <1>5
<1>21. Linked'
  <2>1. ASSUME NEW j \in Slots
        PROVE  /\ es'[j].user /= None => es'[j].user = es[j].user /\ j /= e
               /\ es'[j].kind = es[j].kind
    BY <1>1, <1>3, <1>5 DEF StreamType
  <2>2. SameLinks
    BY <2>1 DEF SameLinks
  <2>3. ASSUME NEW j \in Slots, es'[j].kind = "WT" PROVE es'[j].user /= h
    <3>1. SUFFICES ASSUME es'[j].user = h PROVE FALSE
      OBVIOUS
    <3>2. j /= e /\ es[j].user = h /\ es[j].kind = "WT"
      BY <3>1, <2>1, <2>3, <1>3
    <3>3. hs[es[j].user].es = j
      BY <3>2, <1>3 DEF IInv, Linked
    <3> QED
      BY <3>2, <3>3, <1>4
  <2>4. \A g \in Slots : /\ g /= h => hs'[g] = hs[g]
                         /\ ~hs'[h].alive
    BY <1>3, <1>4, <1>5, <1>6
  <2> QED
    BY <2>2, <2>3, <2>4, <1>3, Links
<1>22. Quiet /\ freed' = freed /\ streams' = streams /\ told' = T
       /\ late' = late /\ hs' = G
  <2>1. late' = late
    BY <1>3, <1>4, Zenon DEF IInv
  <2> QED
    BY <2>1, <1>3, <1>13 DEF Quiet, engine
<1>23. freed' <=> (refs = 0 /\ i = 0)
  BY <1>5, <1>11, <1>17, <1>22
<1>24. cbDepth' = i
  BY <1>3, <1>10, <1>17
<1> QED
  BY <1>3, <1>5, <1>17, <1>19, <1>20, <1>21, <1>22, <1>23, <1>24, Onward, Zenon

(* A commit stream's send half is over, all of it acknowledged or not.     *)
LEMMA SendShutdownStep ==
    ASSUME IInv, NEW e \in Slots, NEW graceful \in BOOLEAN,
           OnSendShutdown(e, graceful)
    PROVE  IInv'
<1>1. Ongoing /\ ~freed /\ ~closed /\ es[e].kind = "WT"
  BY MayDeliver DEF OnSendShutdown, Open
<1>2. CASE graceful
  <2>1. graceful = TRUE
    BY <1>2
  <2> QED
    BY <1>1, <2>1, GracefulStep, Zenon
<1>3. CASE ~graceful
  <2>1. PICK ne, rest : /\ ne = [es[e] EXCEPT !.fin = FALSE, !.send = FALSE]
                        /\ rest = <<OnStream("engine", e, {})>>
    BY Zenon
  <2>2. AdaptTerminal(e, ne, rest)
    BY <2>1, <1>3 DEF OnSendShutdown
  <2>3. Follows(ne, es[e]) /\ rest \in Runs
    <3>1. {} \in SUBSET Marks
      OBVIOUS
    <3> QED
      BY <3>1, <2>1, Becomes, InputCalls, Zenon
  <2> QED
    BY <2>2, <2>3, <1>1, AdaptTerminalStep
<1> QED
  BY <1>2, <1>3

-----------------------------------------------------------------------------
(* The session's references.                                               *)

(* What the steps here start from.                                         *)
Standing(q, d, H, T) ==
    /\ Handles(q, H, T) /\ Counted(q, d, H) /\ Telling(q, H, T) /\ Ending(q)
    /\ \A h \in Slots : TornLater(q, T, h)
    /\ d \in Nat /\ q \in Seq(Frame) /\ H \in [Slots -> HandleType]
    /\ T \in ToldType /\ commitDepth = N(q, "committed")
    /\ freed <=> (refs = 0 /\ d = 0)
    /\ refs \in Nat /\ refs >= Bit(backend) + Bit(running) + appRefs
    /\ IsFiniteSet(Tokens(H)) /\ Cardinality(Tokens(H)) \in Nat
    /\ refs = Bit(backend) + Bit(running) + appRefs + Cardinality(Tokens(H))

(* The invariant gives it.                                                 *)
LEMMA Stands ==
    ASSUME IInv, NEW q, NEW d, NEW H, NEW T,
           q = agenda, d = cbDepth, H = hs, T = told
    PROVE  Standing(q, d, H, T)
<1>1. Accounts(q, d, H, T) /\ Types
  BY DEF IInv
<1>2. /\ Handles(q, H, T) /\ Counted(q, d, H) /\ Telling(q, H, T) /\ Ending(q)
      /\ \A h \in Slots : TornLater(q, T, h)
  BY <1>1 DEF Accounts, Books
<1>3. /\ d \in Nat /\ q \in Seq(Frame) /\ H \in [Slots -> HandleType]
      /\ T \in ToldType /\ refs \in Nat
  BY Numbers
<1>4. commitDepth = N(q, "committed") /\ (freed <=> (refs = 0 /\ d = 0))
  BY DEF IInv
<1>5. /\ IsFiniteSet(Tokens(H))
      /\ refs = Bit(backend) + Bit(running) + appRefs + Cardinality(Tokens(H))
  BY <1>2 DEF Counted
<1>6. PICK k \in Nat : k = Cardinality(Tokens(H))
  BY <1>5, FS_CardinalityType
<1>7. refs >= Bit(backend) + Bit(running) + appRefs
  <2>1. PICK a \in Nat, b \in Nat, c \in Nat :
          a = Bit(backend) /\ b = Bit(running) /\ c = appRefs
    BY <1>1 DEF Types, Bit
  <2> QED
    BY <2>1, <1>5, <1>6
<1> QED
  BY <1>2, <1>3, <1>4, <1>5, <1>6, <1>7 DEF Standing

(* What is said of the session's end, and was told, is kept.               *)
Steady == UNCHANGED <<admission, backend, attached, terminal, deferred, sess,
                      closed, outcome>>

(* They stay what they were.                                               *)
LEMMA Keeps ==
    ASSUME NEW q, NEW H, NEW T, Steady
    PROVE  /\ Telling(q, H, T) => Telling(q, H, T)'
           /\ Ending(q) => Ending(q)'
           /\ (\A h \in Slots : TornLater(q, T, h))
                => \A h \in Slots : TornLater(q, T, h)'
           /\ admission' = admission /\ (Over => Over')
<1>1. Telling(q, H, T) => Telling(q, H, T)'
  BY DEF Steady, Telling
<1>2. Ending(q) => Ending(q)'
  <2>1. Over' <=> Over
    BY DEF Steady, Over
  <2>2. /\ terminal' = terminal /\ deferred' = deferred /\ sess' = sess
        /\ closed' = closed /\ outcome' = outcome /\ backend' = backend
        /\ attached' = attached /\ admission' = admission
    BY DEF Steady
  <2> QED
    BY <2>1, <2>2 DEF Ending
<1>3. \A h \in Slots : TornLater(q, T, h) => TornLater(q, T, h)'
  BY DEF Steady, TornLater
<1> QED
  BY <1>1, <1>2, <1>3 DEF Steady, Over

(* wtq_session_add_ref.                                                    *)
LEMMA SessionAddRefStep ==
    ASSUME IInv, SessionAddRef
    PROVE  IInv'
<1>1. ~freed
  BY MayDeliver DEF SessionAddRef
<1>2. PICK q, d, H, T : /\ q = agenda /\ d = cbDepth /\ H = hs /\ T = told
  OBVIOUS
<1>3. Standing(q, d, H, T)
  BY <1>2, Stands
<1>4. /\ appRefs' = appRefs + 1 /\ refs' = refs + 1
      /\ UNCHANGED <<admission, cbDepth, freed, backend, attached, running,
                     terminal, commitDepth, deferred, sess, closed, hs, es,
                     streams, agenda, told, outcome, late>>
  BY DEF SessionAddRef, flags, engine, history
<1>5. Counted(q, d, H)'
  <2>1. PICK a \in Nat, b \in Nat, k \in Nat, c \in Nat :
          /\ a = Bit(backend) /\ b = Bit(running) /\ c = appRefs
          /\ k = Cardinality(Tokens(H))
    BY <1>3, Zenon DEF IInv, Types, Bit, Standing
  <2>2. refs = a + b + c + k
    BY <2>1, <1>3 DEF Standing
  <2>3. refs + 1 = a + b + (c + 1) + k
    BY <2>2
  <2> QED
    BY <2>1, <2>3, <1>3, <1>4 DEF Counted, Standing
<1>6. /\ Telling(q, H, T)' /\ Ending(q)'
      /\ \A h \in Slots : TornLater(q, T, h)'
  <2>1. Steady
    BY <1>4 DEF Steady
  <2>2. /\ Telling(q, H, T) /\ Ending(q)
        /\ \A h \in Slots : TornLater(q, T, h)
    BY <1>3 DEF Standing
  <2> QED
    BY <2>1, <2>2, Keeps
<1>8. Types' /\ Linked'
  BY <1>4 DEF IInv, Types, Linked
<1>9. /\ freed' <=> (refs' = 0 /\ d = 0)
      /\ Handles(q, H, T) /\ d \in Int /\ commitDepth' = N(q, "committed")
  BY <1>1, <1>3, <1>4 DEF Standing
<1>10. Over => Over'
  BY <1>4 DEF Over
<1> QED
  BY <1>2, <1>4, <1>5, <1>6, <1>8, <1>9, <1>10, Onto

(* wtq_session_release.                                                    *)
LEMMA SessionReleaseStep ==
    ASSUME IInv, SessionRelease
    PROVE  IInv'
<1>1. ~freed
  <2>1. appRefs > 0
    BY DEF SessionRelease
  <2>2. freed => appRefs = 0
    BY Gone
  <2> QED
    BY <2>1, <2>2
<1>2. PICK q, d, H, T : /\ q = agenda /\ d = cbDepth /\ H = hs /\ T = told
  OBVIOUS
<1>3. Standing(q, d, H, T)
  BY <1>2, Stands
<1>4. /\ appRefs' = appRefs - 1 /\ refs' = refs - 1 /\ appRefs > 0
      /\ freed' = (freed \/ (refs = 1 /\ cbDepth = 0))
      /\ UNCHANGED <<admission, cbDepth, backend, attached, running,
                     terminal, commitDepth, deferred, sess, closed, hs, es,
                     streams, agenda, told, outcome, late>>
  BY DEF SessionRelease, SessionUnref, flags, engine, history
<1>5. Counted(q, d, H)' /\ refs' \in Int /\ appRefs' \in Nat
  <2>1. PICK a \in Nat, b \in Nat, k \in Nat, c \in Nat :
          /\ a = Bit(backend) /\ b = Bit(running) /\ c = appRefs
          /\ k = Cardinality(Tokens(H))
    BY <1>3, Zenon DEF IInv, Types, Bit, Standing
  <2>2. refs = a + b + c + k /\ c > 0
    BY <2>1, <1>3, <1>4 DEF Standing
  <2>3. refs - 1 = a + b + (c - 1) + k /\ c - 1 \in Nat /\ refs - 1 \in Int
    BY <2>1, <2>2
  <2> QED
    BY <2>1, <2>3, <1>3, <1>4 DEF Counted, Standing
<1>6. /\ Telling(q, H, T)' /\ Ending(q)'
      /\ \A h \in Slots : TornLater(q, T, h)'
  <2>1. Steady
    BY <1>4 DEF Steady
  <2>2. /\ Telling(q, H, T) /\ Ending(q)
        /\ \A h \in Slots : TornLater(q, T, h)
    BY <1>3 DEF Standing
  <2> QED
    BY <2>1, <2>2, Keeps
<1>8. Types' /\ Linked'
  BY <1>4, <1>5 DEF IInv, Types, Linked
<1>9. /\ freed' <=> (refs' = 0 /\ d = 0)
      /\ Handles(q, H, T) /\ d \in Int /\ commitDepth' = N(q, "committed")
  <2>1. /\ Handles(q, H, T) /\ d \in Int /\ commitDepth = N(q, "committed")
        /\ refs \in Nat
    BY <1>3 DEF Standing
  <2>2. freed' <=> (refs' = 0 /\ d = 0)
    <3>1. refs' = 0 <=> refs = 1
      BY <2>1, <1>4
    <3>2. freed' <=> (refs = 1 /\ cbDepth = 0)
      BY <1>1, <1>4, Zenon
    <3> QED
      BY <3>1, <3>2, <1>2
  <2> QED
    BY <2>1, <2>2, <1>4
<1>10. Over => Over'
  BY <1>4 DEF Over
<1> QED
  BY <1>2, <1>4, <1>5, <1>6, <1>8, <1>9, <1>10, Onto

(* adapt_established.                                                      *)
LEMMA EstablishStep ==
    ASSUME IInv, Establish
    PROVE  IInv'
<1>1. agenda = <<>> /\ sess = "none" /\ ~closed /\ backend
  BY DEF Establish, Idle
<1>2. PICK q, d, H, T : /\ q = agenda /\ d = cbDepth /\ H = hs /\ T = told
  OBVIOUS
<1>3. Standing(q, d, H, T)
  BY <1>2, Stands
<1>4. /\ sess' = "active" /\ cbDepth' = cbDepth + 1 /\ AppEnter(<<Exit>>)
      /\ UNCHANGED <<admission, refs, freed, backend, appRefs, attached,
                     running, terminal, commitDepth, deferred, closed, hs,
                     es, streams, told, outcome, late>>
  BY DEF Establish, flags, history
<1>5. ~freed
  <2>1. freed => ~backend
    BY Gone
  <2> QED
    BY <2>1, <1>1
<1>6. PICK r, p : r = Put(Exit, q) /\ p = agenda'
  OBVIOUS
<1>7. /\ Calm(r, d + 1, H, T) /\ r /= <<>> /\ r \in Seq(Frame)
      /\ N(r, "committed") = N(q, "committed")
  <2>1. Calm(q, d, H, T)
    BY <1>1, <1>2, RestCalm
  <2> QED
    BY <2>1, <1>6, ExitOn
<1>8. p = r \/ p = Put(App, r)
  <2>1. p = ((IF Len(<<Exit>> \o q) + 1 < MaxDepth THEN <<App>> ELSE <<>>)
             \o <<Exit>>) \o q
    BY <1>2, <1>4, <1>6 DEF AppEnter, AppFirst
  <2>2. <<Exit>> \in Seq(Frame) /\ <<Exit>> \o q = r
    BY <1>6, Calls DEF Put
  <2>3. q \in Seq(Frame)
    BY <1>3 DEF Standing
  <2>4. p = <<Exit>> \o q \/ p = Put(App, <<Exit>> \o q)
    BY <2>1, <2>2, <2>3, AppCase, Zenon
  <2> QED
    BY <2>2, <2>4, Zenon
<1>9. /\ Handles(r, H, T) /\ Counted(r, d + 1, H) /\ Telling(r, H, T)
      /\ Ending(r) /\ d + 1 \in Int
      /\ N(r, "open_rest") > 0 => admission
  BY <1>7 DEF Calm, Ready, Books
<1>10. Counted(r, d + 1, H)'
  BY <1>4, <1>9 DEF Counted
<1>11. ~Over /\ ~Over' /\ ~terminal /\ ~deferred /\ outcome = "none"
  <2>1. ~Over /\ ~Over'
    BY <1>1, <1>4 DEF Over
  <2>2. ~terminal
    BY <2>1, <1>9 DEF Ending
  <2>3. PICK u \in Nat, v \in Nat :
          u = N(r, "tell_closed") /\ v = N(r, "tell_failed")
    BY <1>7, CountRange
  <2>4. u + v + Bit(deferred) + Bit(outcome /= "none") = Bit(terminal)
    BY <2>3, <1>9 DEF Ending
  <2>5. ~deferred /\ outcome = "none"
    BY <2>2, <2>4 DEF Bit
  <2> QED
    BY <2>1, <2>2, <2>5
<1>12. Telling(r, H, T)'
  BY <1>4, <1>9, <1>11 DEF Telling
<1>13. \A h \in Slots : TornLater(r, T, h)'
  BY <1>4, <1>11 DEF TornLater
<1>14. N(r, "session_failed") = 0 /\ N(r, "on_session_closed") = 0
  <2>1. Exit \in Frame /\ Exit.op = "exit"
    BY Calls
  <2>2. \A k : N(q, k) = 0
    BY <1>1, <1>2, AtRest
  <2>3. \A k : N(r, k) = N(q, k) + Bit(Exit.op = k)
    BY <2>1, <1>3, <1>6, PutFacts DEF Standing
  <2> QED
    BY <2>1, <2>2, <2>3 DEF Bit
<1>15. Ending(r)'
  BY <1>1, <1>4, <1>9, <1>11, <1>14 DEF Ending
<1>16. Types' /\ Linked'
  BY <1>4 DEF IInv, Types, Linked
<1>17. /\ freed' <=> (refs' = 0 /\ d + 1 = 0)
       /\ commitDepth' = N(r, "committed") /\ cbDepth' = d + 1
  BY <1>2, <1>3, <1>4, <1>5, <1>7 DEF Standing
<1>18. PICK i : i = d + 1
  OBVIOUS
<1> QED
  BY <1>2, <1>4, <1>6, <1>7, <1>8, <1>9, <1>10, <1>11, <1>12, <1>13, <1>15,
     <1>16, <1>17, <1>18, Onto

(* wtq_session_service_stream_admission: the service runs.                 *)
LEMMA ServiceStep ==
    ASSUME IInv, Service
    PROVE  IInv'
<1>1. agenda = <<>> /\ ~running /\ (appRefs > 0 \/ backend)
  BY DEF Service, Idle
<1>2. PICK q, d, H, T : /\ q = agenda /\ d = cbDepth /\ H = hs /\ T = told
  OBVIOUS
<1>3. Standing(q, d, H, T)
  BY <1>2, Stands
<1>4. /\ refs' = refs + 1 /\ cbDepth' = cbDepth + 1 /\ running' = TRUE
      /\ Enter(<<Call("service")>>)
      /\ UNCHANGED <<admission, freed, backend, appRefs, attached, terminal,
                     commitDepth, deferred, sess, closed, hs, es, streams,
                     told, outcome, late>>
  BY DEF Service, engine, history
<1>5. ~freed
  <2>1. freed => ~backend /\ appRefs = 0
    BY Gone
  <2> QED
    BY <2>1, <1>1
<1>6. PICK f, p, i : /\ f \in Frame /\ f = Call("service") /\ p = Put(f, q)
                     /\ f.op = "service" /\ i = d + 1
  BY Calls DEF PlainOps
<1>7. agenda' = p /\ cbDepth' = i /\ q \in Seq(Frame) /\ i \in Int /\ i > 0
  BY <1>2, <1>3, <1>4, <1>6 DEF Enter, Put, Standing
<1>8. /\ Plain(f) /\ f.op \in BracketOps
      /\ f.op \notin Tells \cup {"backend_release"}
  BY <1>6 DEF Plain, HandleOps, OpenOps, BracketOps, Tells
<1>9. /\ \A k : N(p, k) = N(q, k) + Bit(f.op = k)
      /\ \A k : N(q, k) \in Nat
      /\ \A k, h : M(p, k, h) = M(q, k, h) + Bit(f.op = k /\ f.at = h)
      /\ \A k, h : M(q, k, h) \in Nat
      /\ Waiting(p) = {f} \cup Waiting(q)
  BY <1>6, <1>7, PutFacts
<1>10. \A k : N(q, k) = 0
  BY <1>1, <1>2, AtRest
<1>11. Handles(p, H, T)
  <2>1. Handles(q, H, T) /\ ~(N(q, "open_rest") > 0)
    BY <1>3, <1>10 DEF Standing
  <2> QED
    BY <2>1, <1>6, <1>7, <1>8, PlainCall
<1>12. Counted(p, i, H)'
  <2>1. Brackets(p) = Brackets(q) + 1
    BY <1>6, <1>7, <1>8, PutBrackets
  <2>2. N(p, "service") = 1
    BY <1>6, <1>9, <1>10 DEF Bit
  <2>3. d = Brackets(q)
    BY <1>3 DEF Standing, Counted
  <2>4. PICK a \in Nat, k \in Nat, c \in Nat :
          /\ a = Bit(backend) /\ c = appRefs /\ k = Cardinality(Tokens(H))
    BY <1>3, Zenon DEF IInv, Types, Bit, Standing
  <2>5. refs = a + 0 + c + k /\ Bit(running) = 0
    BY <2>4, <1>1, <1>3 DEF Standing, Bit
  <2>6. refs' = a + 1 + c + k /\ Bit(running)' = 1
    BY <2>4, <2>5, <1>4 DEF Bit
  <2>7. IsFiniteSet(Tokens(H))
    BY <1>3 DEF Standing
  <2> QED
    BY <2>1, <2>2, <2>3, <2>4, <2>6, <2>7, <1>4, <1>6 DEF Counted, Bit
<1>13. /\ Telling(p, H, T)' /\ Ending(p)'
       /\ \A h \in Slots : TornLater(p, T, h)'
       /\ Over => Over'
  <2>1. Steady
    BY <1>4 DEF Steady
  <2>2. \A k : k /= "service" => N(p, k) = N(q, k)
    BY <1>6, <1>9 DEF Bit
  <2>3. \A h : M(p, "committed", h) = M(q, "committed", h)
    BY <1>6, <1>9 DEF Bit
  <2>4. Telling(p, H, T)
    BY <2>2, <1>3 DEF Standing, Telling
  <2>5. /\ N(p, "on_session_closed") = N(q, "on_session_closed")
        /\ N(p, "on_conn_error") = N(q, "on_conn_error")
        /\ N(p, "session_failed") = N(q, "session_failed")
        /\ N(p, "streams_teardown") = N(q, "streams_teardown")
        /\ N(p, "tell_closed") = N(q, "tell_closed")
        /\ N(p, "tell_failed") = N(q, "tell_failed")
        /\ N(p, "committed") = N(q, "committed")
        /\ N(p, "commit_end") = N(q, "commit_end")
        /\ N(p, "backend_release") = N(q, "backend_release")
        /\ N(p, "open_rest") = N(q, "open_rest")
        /\ N(p, "conn_fatal") = N(q, "conn_fatal")
    BY <2>2
  <2>6. Ending(q)
    BY <1>3 DEF Standing
  <2>7. Ending(p)
    BY <2>5, <2>6 DEF Ending
  <2>8. \A h \in Slots : TornLater(p, T, h)
    BY <2>3, <1>3, <1>9 DEF Standing, TornLater
  <2> QED
    BY <2>1, <2>4, <2>7, <2>8, Keeps
<1>14. Types' /\ Linked'
  BY <1>4 DEF IInv, Types, Linked
<1>15. /\ freed' <=> (refs' = 0 /\ i = 0)
       /\ commitDepth' = N(p, "committed")
  <2>1. N(p, "committed") = N(q, "committed")
    BY <1>6, <1>9 DEF Bit
  <2> QED
    BY <2>1, <1>3, <1>4, <1>5, <1>7 DEF Standing
<1> QED
  BY <1>2, <1>4, <1>7, <1>11, <1>12, <1>13, <1>14, <1>15, Onto

(* The service is over.                                                    *)
LEMMA ServiceDoneStep ==
    ASSUME IInv, ServiceDone
    PROVE  IInv'
<1>1. agenda /= <<>> /\ Head(agenda).op = "service"
  BY DEF ServiceDone, At
<1>2. PICK f \in Frame, q \in Seq(Frame) :
        f = Head(agenda) /\ q = Tail(agenda) /\ agenda = Put(f, q) /\ ~freed
  BY <1>1, OnTop, Zenon
<1>3. PICK d, H, T, p, i : /\ d = cbDepth /\ H = hs /\ T = told
                           /\ p = Put(f, q) /\ i = d - 1
  OBVIOUS
<1>4. Standing(p, d, H, T) /\ f.op = "service"
  BY <1>1, <1>2, <1>3, Stands
<1>5. /\ agenda' = q /\ running' = FALSE /\ refs' = refs - 1
      /\ cbDepth' = cbDepth - 1
      /\ freed' = (freed \/ (refs = 1 /\ cbDepth = 1))
      /\ UNCHANGED <<admission, backend, appRefs, attached, terminal,
                     commitDepth, deferred, sess, closed, hs, es, streams,
                     told, outcome, late>>
  <2>1. agenda' = q
    BY <1>1, <1>2, ThenNone DEF ServiceDone
  <2> QED
    BY <2>1 DEF ServiceDone, engine, history
<1>6. /\ Plain(f) /\ f.op \in BracketOps
  BY <1>4 DEF Plain, HandleOps, OpenOps, BracketOps
<1>7. /\ \A k : N(p, k) = N(q, k) + Bit(f.op = k)
      /\ \A k : N(q, k) \in Nat
      /\ \A k, h : M(p, k, h) = M(q, k, h) + Bit(f.op = k /\ f.at = h)
      /\ \A k, h : M(q, k, h) \in Nat
      /\ Waiting(p) = {f} \cup Waiting(q)
  BY <1>3, PutFacts
<1>8. Handles(q, H, T)
  BY <1>3, <1>4, <1>6, PlainCall DEF Standing
<1>9. running /\ N(q, "service") = 0
  <2>1. N(p, "service") = Bit(running)
    BY <1>4 DEF Standing, Counted
  <2>2. N(p, "service") = N(q, "service") + 1 /\ N(q, "service") \in Nat
    BY <1>4, <1>7 DEF Bit
  <2> QED
    BY <2>1, <2>2 DEF Bit
<1>10. Counted(q, i, H)' /\ refs \in Nat /\ refs > 0 /\ d \in Nat
  <2>1. Brackets(p) = Brackets(q) + 1 /\ Brackets(q) \in Nat
    BY <1>3, <1>6, PutBrackets
  <2>2. d = Brackets(p) /\ d \in Nat /\ IsFiniteSet(Tokens(H)) /\ refs \in Nat
    BY <1>4 DEF Standing, Counted
  <2>3. PICK a \in Nat, k \in Nat, c \in Nat :
          /\ a = Bit(backend) /\ c = appRefs /\ k = Cardinality(Tokens(H))
    BY <1>4, Zenon DEF IInv, Types, Bit, Standing
  <2>4. refs = a + 1 + c + k
    BY <2>3, <1>4, <1>9 DEF Standing, Bit
  <2>5. refs' = a + 0 + c + k /\ Bit(running)' = 0 /\ refs > 0
    BY <2>3, <2>4, <1>5 DEF Bit
  <2>6. i = Brackets(q)
    BY <2>1, <2>2, <1>3
  <2> QED
    BY <2>2, <2>3, <2>5, <2>6, <1>5, <1>9 DEF Counted, Bit
<1>11. /\ Telling(q, H, T)' /\ Ending(q)'
       /\ \A h \in Slots : TornLater(q, T, h)'
       /\ Over => Over'
  <2>1. Steady
    BY <1>5 DEF Steady
  <2>2. \A k : k /= "service" => N(p, k) = N(q, k)
    BY <1>4, <1>7 DEF Bit
  <2>3. \A h : M(p, "committed", h) = M(q, "committed", h)
    BY <1>4, <1>7 DEF Bit
  <2>4. Telling(q, H, T)
    BY <2>2, <1>4 DEF Standing, Telling
  <2>5. /\ N(p, "on_session_closed") = N(q, "on_session_closed")
        /\ N(p, "on_conn_error") = N(q, "on_conn_error")
        /\ N(p, "session_failed") = N(q, "session_failed")
        /\ N(p, "streams_teardown") = N(q, "streams_teardown")
        /\ N(p, "tell_closed") = N(q, "tell_closed")
        /\ N(p, "tell_failed") = N(q, "tell_failed")
        /\ N(p, "committed") = N(q, "committed")
        /\ N(p, "commit_end") = N(q, "commit_end")
        /\ N(p, "backend_release") = N(q, "backend_release")
        /\ N(p, "open_rest") = N(q, "open_rest")
        /\ N(p, "conn_fatal") = N(q, "conn_fatal")
    BY <2>2
  <2>6. Ending(p)
    BY <1>4 DEF Standing
  <2>7. Ending(q)
    BY <2>5, <2>6 DEF Ending
  <2>8. ASSUME NEW h \in Slots PROVE TornLater(q, T, h)
    <3>1. TornLater(p, T, h)
      BY <1>4 DEF Standing
    <3> QED
      BY <2>3, <3>1, <1>4, <1>7 DEF TornLater
  <2> QED
    BY <2>1, <2>4, <2>7, <2>8, Keeps
<1>12. Types' /\ Linked'
  <2>1. refs' \in Int
    BY <1>5, <1>10
  <2> QED
    BY <2>1, <1>5, Zenon DEF IInv, Types, Linked
<1>13. freed' <=> (refs' = 0 /\ i = 0)
  <2>1. (refs' = 0 <=> refs = 1) /\ (i = 0 <=> cbDepth = 1)
    BY <1>3, <1>5, <1>10
  <2>2. freed' <=> (refs = 1 /\ cbDepth = 1)
    BY <1>2, <1>5, Zenon
  <2> QED
    BY <2>1, <2>2
<1>14. commitDepth' = N(q, "committed")
  <2>1. N(p, "committed") = N(q, "committed")
    BY <1>4, <1>7 DEF Bit
  <2> QED
    BY <2>1, <1>4, <1>5 DEF Standing
<1>15. i \in Int /\ cbDepth' = i
  BY <1>3, <1>5, <1>10
<1> QED
  BY <1>3, <1>5, <1>8, <1>10, <1>11, <1>12, <1>13, <1>14, <1>15, Onto

-----------------------------------------------------------------------------
(* The handles change in what is not counted.                              *)

Alike(K, H) ==
    /\ K \in [Slots -> HandleType]
    /\ \A h \in Slots : /\ K[h].refs = H[h].refs /\ K[h].app = H[h].app
                        /\ K[h].alive = H[h].alive /\ K[h].gen = H[h].gen

(* What waits for handles that are alike waits for the same.               *)
LEMMA AlikeHandles ==
    ASSUME NEW q, NEW d, NEW H, NEW T, NEW K, Alike(K, H), Handles(q, H, T)
    PROVE  /\ Handles(q, K, T) /\ Tokens(K) = Tokens(H)
           /\ Counted(q, d, H) => Counted(q, d, K)
           /\ Telling(q, H, T) => Telling(q, K, T)
<1>1. \A i \in Slots : HandleSound(q, K, T, i)
  BY DEF Alike, Handles, HandleSound
<1>2. ASSUME NEW k \in Waiting(q) PROVE Relies(K, T, k)
  <2>1. Relies(H, T, k) /\ k \in Frame
    BY <1>2, PutWaiting DEF Handles, Waiting
  <2>2. k.op \in HandleOps => k.at \in Slots
    BY <2>1 DEF Frame
  <2> QED
    BY <2>1, <2>2 DEF Relies, Reserved, Alike
<1>3. Handles(q, K, T)
  BY <1>1, <1>2 DEF Handles, Alike
<1>4. Tokens(K) = Tokens(H)
  BY DEF Tokens, Alike
<1>5. Counted(q, d, H) => Counted(q, d, K)
  BY <1>4 DEF Counted
<1>6. Telling(q, H, T) => Telling(q, K, T)
  BY DEF Telling, Alike
<1> QED
  BY <1>3, <1>4, <1>5, <1>6

(* wtq_api_session_admission_detach and wtq_session_release.               *)
LEMMA BackendReleaseStep ==
    ASSUME IInv, BackendRelease
    PROVE  IInv'
<1>1. agenda /= <<>> /\ Head(agenda).op = "backend_release"
  BY DEF BackendRelease, At
<1>2. PICK q, d, H, T, K : /\ q = Tail(agenda) /\ d = cbDepth /\ H = hs
                           /\ T = told /\ K = hs'
  BY Zenon
<1>3. Cut(q, "backend_release")
  <2>1. "backend_release" \in PlainOps \ BracketOps
    BY DEF PlainOps, BracketOps
  <2> QED
    BY <2>1, <1>1, <1>2, PlainTop
<1>4. /\ Handles(q, H, T) /\ Counted(q, d, H) /\ d \in Nat /\ d > 0
      /\ \A g \in Waiting(q) : g.op = "exit"
      /\ \A k : N(q, k) \in Nat
      /\ \A k : N(agenda, k) = N(q, k) + Bit("backend_release" = k)
      /\ N(q, "committed") = commitDepth /\ ~freed
      /\ \A h \in Slots : TornLater(q, T, h)
      /\ q \in Seq(Frame)
  BY <1>2, <1>3 DEF Cut
<1>5. /\ agenda' = q /\ attached' = FALSE /\ backend' = FALSE
      /\ hs' = [h \in Slots |-> [hs[h] EXCEPT !.credit = None]]
      /\ refs' = refs - 1 /\ freed' = (freed \/ (refs = 1 /\ cbDepth = 0))
      /\ UNCHANGED <<admission, cbDepth, appRefs, running, terminal,
                     commitDepth, deferred, sess, closed, es, streams,
                     told, outcome, late>>
  <2>1. agenda' = q
    BY <1>1, <1>2, ThenNone DEF BackendRelease
  <2> QED
    BY <2>1 DEF BackendRelease, SessionUnref, engine, history
<1>6. /\ hs \in [Slots -> HandleType] /\ Ending(agenda)
      /\ Telling(agenda, H, T)
  BY <1>2, Numbers, Zenon DEF IInv, Accounts, Books
<1>7. Alike(K, H) /\ \A h \in Slots : K[h].es = H[h].es
  BY <1>2, <1>5, <1>6, ZenonT(60) DEF Alike, HandleType
<1>8. Handles(q, K, T) /\ Counted(q, d, K)
  BY <1>4, <1>7, AlikeHandles
<1>9. /\ N(agenda, "backend_release") > 0
      /\ \A k : k /= "exit" => N(q, k) = 0
      /\ \A k : k /= "backend_release" => N(agenda, k) = N(q, k)
  <2>1. N(agenda, "backend_release") > 0
    BY <1>4 DEF Bit
  <2>2. \A k : N(q, k) > 0 <=> \E g \in Waiting(q) : g.op = k
    BY <1>4, CountRange
  <2>3. \A k : k /= "exit" => N(q, k) = 0
    BY <2>2, <1>4
  <2>4. \A k : k /= "backend_release" => N(agenda, k) = N(q, k)
    BY <1>4 DEF Bit
  <2> QED
    BY <2>1, <2>3, <2>4
<1>10. backend /\ closed
  BY <1>6, <1>9 DEF Ending
<1>11. Telling(q, K, T)'
  <2>1. Telling(q, H, T)
    BY <1>6, <1>9 DEF Telling
  <2>2. Telling(q, K, T)
    BY <2>1, <1>4, <1>7, AlikeHandles
  <2> QED
    BY <2>2, <1>5 DEF Telling
<1>12. Ending(q)'
  <2>1. /\ N(q, "on_session_closed") = 0 /\ N(q, "on_conn_error") = 0
        /\ N(q, "session_failed") = 0 /\ N(q, "streams_teardown") = 0
        /\ N(q, "tell_closed") = 0 /\ N(q, "tell_failed") = 0
        /\ N(q, "committed") = 0 /\ N(q, "commit_end") = 0
        /\ N(q, "backend_release") = 0 /\ N(q, "open_rest") = 0
        /\ N(q, "conn_fatal") = 0
    BY <1>9
  <2>2. /\ N(agenda, "on_conn_error") = 0
        /\ N(agenda, "tell_closed") = 0 /\ N(agenda, "tell_failed") = 0
        /\ N(agenda, "committed") = 0 /\ N(agenda, "commit_end") = 0
    BY <1>9
  <2>3. /\ Bit(deferred) + Bit(outcome /= "none") = Bit(terminal)
        /\ terminal => Over
        /\ deferred => FALSE
        /\ closed /\ ~terminal => FALSE
    <3>1. 0 + 0 + Bit(deferred) + Bit(outcome /= "none") = Bit(terminal)
      BY <2>2, <1>6 DEF Ending
    <3> QED
      BY <3>1, <2>2, <1>6 DEF Ending, Bit
  <2>4. 0 + 0 + Bit(deferred) + Bit(outcome /= "none") = Bit(terminal)
    BY <2>3 DEF Bit
  <2>5. Over => Over'
    BY <1>5 DEF Over
  <2> QED
    BY <2>1, <2>3, <2>4, <2>5, <1>5, <1>10 DEF Ending, Bit
<1>13. Counted(q, d, K)'
  <2>1. PICK a \in Nat, k \in Nat, c \in Nat :
          /\ a = Bit(running) /\ c = appRefs /\ k = Cardinality(Tokens(K))
    <3>1. Cardinality(Tokens(K)) \in Nat
      BY <1>8, FS_CardinalityType DEF Counted
    <3> QED
      BY <3>1 DEF IInv, Types, Bit
  <2>2. refs = 1 + a + c + k
    BY <2>1, <1>8, <1>10 DEF Counted, Bit
  <2>3. refs' = 0 + a + c + k /\ Bit(backend)' = 0
    BY <2>1, <2>2, <1>5 DEF Bit
  <2>4. refs' = Bit(backend)' + Bit(running)' + appRefs' + Cardinality(Tokens(K))
    BY <2>1, <2>3, <1>5 DEF Bit
  <2> QED
    BY <2>4, <1>5, <1>8 DEF Counted, Bit
<1>14. \A h \in Slots : TornLater(q, T, h)'
  BY <1>4, <1>5 DEF TornLater
<1>15. Types'
  <2>1. refs' \in Int
    BY <1>5 DEF IInv, Types
  <2> QED
    BY <2>1, <1>5, Zenon DEF IInv, Types
<1>16. Linked'
  <2>1. SameLinks
    BY <1>5 DEF SameLinks
  <2> QED
    BY <2>1, <1>2, <1>5, <1>7, Links DEF Alike
<1>17. freed' <=> (refs' = 0 /\ d = 0)
  <2>1. d /= 0
    BY <1>4
  <2>2. cbDepth /= 0 /\ ~freed
    BY <1>2, <1>4
  <2>3. freed' <=> (freed \/ (refs = 1 /\ cbDepth = 0))
    BY <1>5, Zenon
  <2> QED
    BY <2>1, <2>2, <2>3
<1>18. Over => Over'
  BY <1>5 DEF Over
<1>19. commitDepth' = N(q, "committed") /\ d \in Int
  BY <1>4, <1>5
<1> QED
  BY <1>2, <1>5, <1>8, <1>11, <1>12, <1>13, <1>14, <1>15, <1>16, <1>17, <1>18,
     <1>19, Onto, Zenon

-----------------------------------------------------------------------------
(* A handle changes under the calls that wait.                             *)
Altered(q, H, T, h, r, t) ==
    Handles(q, [H EXCEPT ![h] = r], [T EXCEPT ![h] = t])

(* It may, when nobody below relies on what changes.                       *)
LEMMA Alter ==
    ASSUME NEW q, NEW H, NEW T, Handles(q, H, T), NEW h \in Slots,
           NEW r \in HandleType, NEW t,
           t \in {"none", "given", "closed", "unasked"},
           Sound(r.refs, r.app, r.alive, t, M(q, "committed", h),
                 M(q, "slot_release", h), Holds(q, h)),
           r.gen = H[h].gen \/ NoneFor(q, h),
           StillReserved(H, T, h, r, t) \/ NoneOpens(q, h)
    PROVE  Altered(q, H, T, h, r, t)
<1>1. /\ q \in Seq(Frame) /\ H \in [Slots -> HandleType] /\ T \in ToldType
      /\ Stacked(admission, q)
      /\ \A k \in Slots : HandleSound(q, H, T, k)
      /\ \A f \in Waiting(q) : Relies(H, T, f)
  BY DEF Handles
<1>2. PICK H2, T2 : H2 = [H EXCEPT ![h] = r] /\ T2 = [T EXCEPT ![h] = t]
  BY Zenon
<1>3. /\ H2 \in [Slots -> HandleType] /\ H2[h] = r
      /\ \A k \in Slots : k /= h => H2[k] = H[k]
  BY <1>1, <1>2
<1>4. /\ T2 \in ToldType /\ T2[h] = t
      /\ \A k \in Slots : k /= h => T2[k] = T[k]
  BY <1>1, <1>2 DEF ToldType
<1>5. ASSUME NEW k \in Slots PROVE HandleSound(q, H2, T2, k)
  <2>1. CASE k /= h
    BY <2>1, <1>1, <1>3, <1>4 DEF HandleSound
  <2>2. CASE k = h
    BY <2>2, <1>3, <1>4 DEF HandleSound
  <2> QED
    BY <2>1, <2>2
<1>6. ASSUME NEW g \in Waiting(q) PROVE Relies(H2, T2, g)
  <2>1. Relies(H, T, g) /\ g \in Frame
    BY <1>1, PutWaiting DEF Waiting
  <2>2. ASSUME g.op \in HandleOps PROVE g.gen = H2[g.at].gen
    <3>1. g.at \in Slots /\ g.gen = H[g.at].gen
      BY <2>1, <2>2 DEF Relies, Frame
    <3> QED
      BY <3>1, <2>2, <1>3 DEF NoneFor
  <2>3. ASSUME g.op \in OpenOps, g.x /= {}
        PROVE  admission /\ \E k \in Slots :
                              g.x = {k} /\ Reserved(H2[k], T2[k])
    <3>1. admission
      BY <2>1, <2>3 DEF Relies
    <3>2. PICK k \in Slots : g.x = {k} /\ Reserved(H[k], T[k])
      BY <2>1, <2>3 DEF Relies
    <3>3. Reserved(H2[k], T2[k])
      BY <3>2, <2>3, <1>3, <1>4 DEF StillReserved, NoneOpens
    <3> QED
      BY <3>1, <3>2, <3>3
  <2> QED
    BY <2>2, <2>3 DEF Relies
<1>7. Handles(q, H2, T2)
  BY <1>1, <1>3, <1>4, <1>5, <1>6 DEF Handles
<1> QED
  BY <1>2, <1>7 DEF Altered

(* One more of the application's references is one more token.             *)
Gains(H, K, h) ==
    /\ K[h].app \in Nat /\ H[h].app \in Nat /\ K[h].app = H[h].app + 1
    /\ \A k \in Slots : k /= h => K[k].app = H[k].app
OneMore(H, K) ==
    /\ IsFiniteSet(Tokens(K)) <=> IsFiniteSet(Tokens(H))
    /\ IsFiniteSet(Tokens(H)) =>
         /\ Cardinality(Tokens(H)) \in Nat
         /\ Cardinality(Tokens(K)) = Cardinality(Tokens(H)) + 1

(* The references are finite in number, and one more is counted.           *)
LEMMA TokenMore ==
    ASSUME NEW H, NEW K, NEW h \in Slots, Gains(H, K, h)
    PROVE  OneMore(H, K)
<1>0. /\ K[h].app \in Nat /\ H[h].app \in Nat /\ K[h].app = H[h].app + 1
      /\ \A k \in Slots : k /= h => K[k].app = H[k].app
  BY DEF Gains
<1>1. PICK n \in Nat : n = H[h].app
  BY <1>0
<1>2. K[h].app = n + 1 /\ 1..(n + 1) = (1..n) \cup {n + 1} /\ n + 1 \notin 1..n
  BY <1>0, <1>1
<1> DEFINE x == <<h, n + 1>>
<1>3. Tokens(K) = Tokens(H) \cup {x}
  <2>1. ASSUME NEW y \in Tokens(K) PROVE y \in Tokens(H) \cup {x}
    <3>1. PICK k \in Slots : y \in {k} \X (1..K[k].app)
      BY <2>1 DEF Tokens
    <3>2. CASE k /= h
      BY <1>0, <3>1, <3>2 DEF Tokens
    <3>3. CASE k = h
      <4>1. y \in {h} \X ((1..n) \cup {n + 1})
        BY <3>1, <3>3, <1>2
      <4>2. y \in {h} \X (1..n) \/ y = x
        BY <4>1
      <4> QED
        BY <4>2, <1>1 DEF Tokens
    <3> QED
      BY <3>2, <3>3
  <2>2. ASSUME NEW y \in Tokens(H) PROVE y \in Tokens(K)
    <3>1. PICK k \in Slots : y \in {k} \X (1..H[k].app)
      BY <2>2 DEF Tokens
    <3>2. CASE k /= h
      BY <1>0, <3>1, <3>2 DEF Tokens
    <3>3. CASE k = h
      <4>1. y \in {h} \X (1..(n + 1))
        BY <3>1, <3>3, <1>1, <1>2
      <4> QED
        BY <4>1, <1>2 DEF Tokens
    <3> QED
      BY <3>2, <3>3
  <2>3. x \in Tokens(K)
    <3>1. x \in {h} \X (1..K[h].app)
      BY <1>2
    <3> QED
      BY <3>1 DEF Tokens
  <2> HIDE DEF x
  <2> QED
    BY <2>1, <2>2, <2>3
<1>4. x \notin Tokens(H)
  <2>1. ASSUME NEW k \in Slots, x \in {k} \X (1..H[k].app) PROVE FALSE
    <3>1. k = h /\ n + 1 \in 1..H[k].app
      BY <2>1
    <3> QED
      BY <3>1, <1>1
  <2> QED
    BY <2>1 DEF Tokens
<1> HIDE DEF x
<1>5. IsFiniteSet(Tokens(K)) <=> IsFiniteSet(Tokens(H))
  <2>1. Tokens(H) \subseteq Tokens(K)
    BY <1>3
  <2> QED
    BY <2>1, <1>3, FS_Subset, FS_AddElement
<1> QED
  BY <1>3, <1>4, <1>5, FS_AddElement, FS_CardinalityType DEF OneMore

(* A reference of the application's to a handle comes or goes: the calls,  *)
(* the session's end and what was told stay.                              *)
LEMMA RefChanges ==
    ASSUME IInv, NEW q, NEW d, NEW H, NEW T, Standing(q, d, H, T),
           NEW h \in Slots, NEW r \in HandleType, NEW K,
           K = [H EXCEPT ![h] = r], Handles(q, K, T),
           r.alive => H[h].alive,
           \/ r.app = H[h].app + 1 /\ refs' = refs + 1
           \/ r.app + 1 = H[h].app /\ refs' = refs - 1,
           UNCHANGED <<admission, backend, appRefs, attached, running,
                       terminal, deferred, sess, closed, outcome>>
    PROVE  /\ Counted(q, d, K)' /\ Telling(q, K, T)' /\ Ending(q)'
           /\ \A k \in Slots : TornLater(q, T, k)'
           /\ refs' \in Int
<1>1. /\ H \in [Slots -> HandleType] /\ K[h] = r
      /\ \A k \in Slots : k /= h => K[k] = H[k]
      /\ IsFiniteSet(Tokens(H)) /\ refs \in Nat
      /\ refs = Bit(backend) + Bit(running) + appRefs + Cardinality(Tokens(H))
      /\ Counted(q, d, H) /\ Telling(q, H, T) /\ Ending(q)
      /\ \A k \in Slots : TornLater(q, T, k)
  BY DEF Standing
<1>2. H[h].app \in Nat /\ r.app \in Nat /\ K[h].app = r.app
  BY <1>1 DEF HandleType
<1>3. \A k \in Slots : k /= h => K[k].app = H[k].app /\ H[k].app = K[k].app
  BY <1>1
<1>4. PICK b \in Int : b = Bit(backend) + Bit(running) + appRefs
  BY DEF IInv, Types, Bit
<1>5. /\ IsFiniteSet(Tokens(K))
      /\ refs' = Bit(backend) + Bit(running) + appRefs + Cardinality(Tokens(K))
  <2>1. CASE r.app = H[h].app + 1 /\ refs' = refs + 1
    <3>1. /\ IsFiniteSet(Tokens(K)) /\ Cardinality(Tokens(H)) \in Nat
          /\ Cardinality(Tokens(K)) = Cardinality(Tokens(H)) + 1
      <4>0. K[h].app = H[h].app + 1 /\ K[h].app \in Nat
        BY <2>1, <1>2
      <4>1. OneMore(H, K)
        <5>1. Gains(H, K, h)
          BY <4>0, <1>2, <1>3 DEF Gains
        <5> QED
          BY <5>1, TokenMore
      <4> QED
        BY <4>1, <1>1 DEF OneMore
    <3> QED
      BY <3>1, <2>1, <1>1, <1>4
  <2>2. CASE r.app + 1 = H[h].app /\ refs' = refs - 1
    <3>0. H[h].app = K[h].app + 1 /\ K[h].app \in Nat
      BY <2>2, <1>2
    <3>1. OneMore(K, H)
      <4>1. Gains(K, H, h)
        BY <3>0, <1>2, <1>3 DEF Gains
      <4> QED
        BY <4>1, TokenMore
    <3>2. /\ Cardinality(Tokens(K)) \in Nat
          /\ Cardinality(Tokens(H)) = Cardinality(Tokens(K)) + 1
      BY <3>1, <1>1 DEF OneMore
    <3> QED
      BY <3>1, <3>2, <2>2, <1>1, <1>4 DEF OneMore
  <2> QED
    BY <2>1, <2>2
<1>6. Counted(q, d, K)'
  <2>1. d = Brackets(q) /\ N(q, "service") = Bit(running)
    BY <1>1 DEF Counted
  <2> QED
    BY <2>1, <1>5 DEF Counted, Bit
<1>7. Telling(q, K, T)
  <2>1. \A k \in Slots : K[k].alive => H[k].alive
    BY <1>1
  <2> QED
    BY <2>1, <1>1 DEF Telling
<1>8. Steady
  BY DEF Steady
<1>9. refs' \in Int
  BY <1>1
<1> QED
  BY <1>1, <1>6, <1>7, <1>8, <1>9, Keeps

(* wtq_stream_add_ref.                                                     *)
LEMMA StreamAddRefStep ==
    ASSUME IInv, NEW h \in Slots, StreamAddRef(h)
    PROVE  IInv'
<1>1. hs[h].app > 0 \/ told[h] /= "none"
  BY DEF StreamAddRef, MayUseStream, Usable
<1>2. PICK q, d, H, T : /\ q = agenda /\ d = cbDepth /\ H = hs /\ T = told
  OBVIOUS
<1>3. Standing(q, d, H, T)
  BY <1>2, Stands
<1>4. /\ hs' = [hs EXCEPT ![h].refs = @ + 1, ![h].app = @ + 1]
      /\ refs' = refs + 1
      /\ UNCHANGED <<admission, cbDepth, freed, backend, appRefs, attached,
                     running, terminal, commitDepth, deferred, sess, closed,
                     es, streams, agenda, told, outcome, late>>
  BY DEF StreamAddRef, flags, engine, history
<1>5. /\ Handles(q, H, T) /\ H \in [Slots -> HandleType] /\ T \in ToldType
      /\ q \in Seq(Frame)
  BY <1>3 DEF Standing
<1>6. PICK R : R = H[h]
  OBVIOUS
<1>7. R \in HandleType /\ R.refs \in Nat /\ R.app \in Nat
  BY <1>5, <1>6 DEF HandleType
<1>8. PICK r : r = [R EXCEPT !.refs = @ + 1, !.app = @ + 1]
  OBVIOUS
<1>9. /\ r \in HandleType /\ r.refs = R.refs + 1 /\ r.app = R.app + 1
      /\ r.alive = R.alive /\ r.es = R.es /\ r.gen = R.gen
  <2>1. PICK n \in Nat, a \in Nat : n = R.refs + 1 /\ a = R.app + 1
    BY <1>7
  <2>2. r = [R EXCEPT !.refs = n, !.app = a]
    BY <2>1, <1>8
  <2>3. r \in HandleType
    BY <2>2, <1>7, Zenon DEF HandleType
  <2>4. /\ r.refs = n /\ r.app = a
        /\ r.alive = R.alive /\ r.es = R.es /\ r.gen = R.gen
    BY <2>2, <1>7 DEF HandleType
  <2> QED
    BY <2>1, <2>3, <2>4
<1>10. hs' = [H EXCEPT ![h] = r]
  BY <1>2, <1>4, <1>5, <1>6, <1>8, Zenon
<1>11. PICK t \in {"none", "given", "closed", "unasked"} : t = T[h]
  BY <1>5 DEF ToldType
<1>12. PICK cm \in Nat, sr \in Nat, dr \in Nat :
         /\ cm = M(q, "committed", h) /\ sr = M(q, "slot_release", h)
         /\ dr = Holds(q, h)
  <2>1. /\ M(q, "committed", h) \in Nat /\ M(q, "slot_release", h) \in Nat
        /\ M(q, "drop", h) \in Nat /\ M(q, "commit_end", h) \in Nat
    BY <1>5, CountRange, Zenon
  <2> QED
    BY <2>1 DEF Holds
<1>13. Sound(R.refs, R.app, R.alive, t, cm, sr, dr)
  BY <1>5, <1>6, <1>11, <1>12 DEF Handles, HandleSound
<1>14. Sound(r.refs, r.app, r.alive, t, cm, sr, dr)
  <2>1. Bit(R.alive) \in Int
    BY DEF Bit
  <2>2. Balanced(R.refs, R.app, R.alive, cm, sr, dr)
          => Balanced(r.refs, r.app, r.alive, cm, sr, dr)
    BY <2>1, <1>7, <1>9 DEF Balanced
  <2>3. r.alive = R.alive
    BY <1>9
  <2> QED
    BY <2>2, <2>3, <1>13 DEF Sound
<1>15. StillReserved(H, T, h, r, t)
  <2>1. ASSUME Reserved(H[h], T[h]) PROVE Reserved(r, t)
    <3>1. ~R.alive
      BY <2>1, <1>1, <1>2, <1>6, <1>7 DEF Reserved
    <3> QED
      BY <2>1, <3>1, <1>6, <1>9, <1>11 DEF Reserved
  <2> QED
    BY <2>1 DEF StillReserved
<1>16. PICK K : K = [H EXCEPT ![h] = r]
  BY Zenon
<1>17. Handles(q, K, T)
  <2>1. Altered(q, H, T, h, r, t)
    <3>1. Sound(r.refs, r.app, r.alive, t, M(q, "committed", h),
                M(q, "slot_release", h), Holds(q, h))
      BY <1>12, <1>14
    <3>2. r.gen = H[h].gen
      BY <1>6, <1>9
    <3> QED
      BY <3>1, <3>2, <1>5, <1>9, <1>15, Alter, Zenon
  <2>2. [T EXCEPT ![h] = t] = T
    BY <1>5, <1>11 DEF ToldType
  <2> QED
    BY <2>1, <2>2, <1>16 DEF Altered
<1>18. /\ Counted(q, d, K)' /\ Telling(q, K, T)' /\ Ending(q)'
       /\ \A k \in Slots : TornLater(q, T, k)'
       /\ refs' \in Int
  <2>1. r.app = H[h].app + 1 /\ refs' = refs + 1 /\ (r.alive => H[h].alive)
    BY <1>4, <1>6, <1>9
  <2>2. UNCHANGED <<admission, backend, appRefs, attached, running,
                    terminal, deferred, sess, closed, outcome>>
    BY <1>4
  <2>3. r \in HandleType
    BY <1>9
  <2> QED
    BY <2>1, <2>2, <2>3, <1>3, <1>16, <1>17, RefChanges, Zenon
<1>19. ~freed
  <2>1. freed => hs[h].app = 0 /\ told[h] = "none"
    BY Gone
  <2>2. hs[h].app = 0 /\ told[h] = "none" => FALSE
    BY <1>1
  <2> QED
    BY <2>1, <2>2
<1>20. Types'
  BY <1>4, <1>18 DEF IInv, Types
<1>21. Linked'
  <2>1. SameLinks
    BY <1>4 DEF SameLinks
  <2>2. hs' = K /\ K[h] = r /\ \A k \in Slots : k /= h => K[k] = hs[k]
    BY <1>2, <1>5, <1>10, <1>16
  <2>3. hs[h].alive => hs[h].es /= None
    <3>1. hs[h].alive /\ hs[h].es = None => told[h] = "none" /\ hs[h].app = 0
      BY DEF IInv, Linked
    <3> QED
      BY <3>1, <1>1
  <2>4. \A k \in Slots : hs'[k].alive =>
            /\ hs[k].alive /\ hs'[k].es = hs[k].es /\ told'[k] = told[k]
            /\ hs'[k].app = hs[k].app \/ hs[k].es /= None
    BY <2>2, <2>3, <1>2, <1>4, <1>6, <1>9, Zenon
  <2>5. \A k \in Slots : hs[k].alive => hs'[k].alive
    BY <2>2, <1>2, <1>6, <1>9
  <2> QED
    BY <2>1, <2>4, <2>5, Links
<1>22. freed' <=> (refs' = 0 /\ d = 0)
  <2>1. refs \in Nat
    BY <1>3 DEF Standing
  <2>2. refs' /= 0 /\ ~freed'
    BY <2>1, <1>4, <1>19
  <2> QED
    BY <2>2
<1>23. Over => Over'
  BY <1>4 DEF Over
<1>24. commitDepth' = N(q, "committed") /\ d \in Int
  BY <1>3, <1>4 DEF Standing
<1>25. agenda' = q /\ cbDepth' = d /\ hs' = K /\ told' = T /\ late' = late
  BY <1>2, <1>4, <1>10, <1>16, Zenon
<1>26. admission' = admission
  BY <1>4
<1> QED
  BY <1>17, <1>18, <1>20, <1>21, <1>22, <1>23, <1>24, <1>25, <1>26, Onto

(* wtq_stream_release: the count of a handle that the application holds.   *)
Given(R, r, s, t, cm, sr, dr) ==
    /\ r \in HandleType /\ R.app \in Nat /\ r.app \in Nat
    /\ r.app + 1 = R.app /\ s.credit \in Slots \cup {None}
    /\ Sound(r.refs, r.app, r.alive, t, cm, sr, dr)
    /\ r.alive => R.alive /\ r.es = R.es
    /\ R.alive => r.alive
    /\ r.gen = R.gen \/ (cm = 0 /\ sr = 0 /\ dr = 0)

(* The count stays sound.                                                  *)
LEMMA GivenOf ==
    ASSUME NEW R \in HandleType, NEW s \in HandleType, NEW t, NEW cm, NEW sr,
           NEW dr, NEW m \in Nat, NEW b \in Nat, NEW n \in Nat, NEW a \in Nat,
           m = R.refs, b = R.app, a = b - 1, s.refs = n, s.app = a,
           s.alive = R.alive, s.es = R.es, s.gen = R.gen,
           b > 0, Sound(n, a, R.alive, t, cm, sr, dr)
    PROVE  Given(R, s, s, t, cm, sr, dr)
<1>1. s.app + 1 = R.app /\ R.app \in Nat /\ s.app \in Nat
  OBVIOUS
<1>2. s.credit \in Slots \cup {None}
  BY DEF HandleType
<1>3. Sound(s.refs, s.app, s.alive, t, cm, sr, dr)
  OBVIOUS
<1> QED
  BY <1>1, <1>2, <1>3 DEF Given

(* A handle that nobody refers to any more.                                *)
LEMMA Emptied ==
    ASSUME NEW a \in Nat
    PROVE  \A r : r = [NoHandle EXCEPT !.app = a] =>
             r \in HandleType /\ r.app = a /\ r.refs = 0 /\ r.alive = FALSE
<1>1. PICK r : r = [refs |-> 0, app |-> a, alive |-> FALSE, send |-> FALSE,
           recv |-> FALSE, fin |-> FALSE, commit |-> FALSE,
           bidi |-> FALSE, local |-> FALSE, es |-> None, credit |-> None,
           gen |-> 0]
  BY Zenon
<1>2. r.app = a /\ r.refs = 0 /\ r.alive = FALSE
  BY <1>1
<1>3. 0 \in Nat /\ None \in Slots \cup {None} /\ FALSE \in BOOLEAN
  OBVIOUS
<1>4. r \in HandleType
  BY <1>1, <1>3 DEF HandleType
<1>5. ASSUME NEW e, e = [NoHandle EXCEPT !.app = a]
      PROVE  e = r
  <2>1. e = [refs |-> 0, app |-> a, alive |-> FALSE, send |-> FALSE,
             recv |-> FALSE, fin |-> FALSE, commit |-> FALSE,
             bidi |-> FALSE, local |-> FALSE, es |-> None, credit |-> None,
             gen |-> 0]
    BY <1>5, Zenon DEF NoHandle
  <2> QED
    BY <2>1, <1>1
<1> QED
  BY <1>2, <1>4, <1>5, Zenon

(* wtq_stream_release of a handle.                                         *)
LEMMA GivenBack ==
    ASSUME NEW R \in HandleType, R.app > 0, NEW t, NEW cm \in Nat,
           NEW sr \in Nat, NEW dr \in Nat, NEW s, NEW r,
           Sound(R.refs, R.app, R.alive, t, cm, sr, dr),
           s = [R EXCEPT !.app = @ - 1,
                         !.refs = IF @ = 0 THEN RefMod - 1 ELSE @ - 1],
           r = Uncredited(s)
    PROVE  Given(R, r, s, t, cm, sr, dr)
<1>1. R.refs \in Nat /\ R.app \in Nat /\ R.alive \in BOOLEAN
  BY DEF HandleType
<1>2. PICK m \in Nat, b \in Nat : m = R.refs /\ b = R.app
  BY <1>1
<1>3. RefMod - 1 \in Nat
  BY ApiAssumption
<1>4. PICK n \in Nat, a \in Nat :
        n = (IF m = 0 THEN RefMod - 1 ELSE m - 1) /\ a = b - 1
  BY <1>2, <1>3
<1>5. s = [R EXCEPT !.app = a, !.refs = n]
  BY <1>2, <1>4
<1>6. /\ s \in HandleType /\ s.refs = n /\ s.app = a
      /\ s.alive = R.alive /\ s.es = R.es /\ s.gen = R.gen
      /\ s.credit \in Slots \cup {None}
  <2>1. s \in HandleType
    BY <1>5, Zenon DEF HandleType
  <2>2. /\ s.refs = n /\ s.app = a
        /\ s.alive = R.alive /\ s.es = R.es /\ s.gen = R.gen
    BY <1>5, Zenon DEF HandleType
  <2> QED
    BY <2>1, <2>2 DEF HandleType
<1>7. Bit(R.alive) \in {0, 1} /\ (R.alive <=> Bit(R.alive) = 1)
  BY <1>1 DEF Bit
<1>8. PICK k \in {0, 1} : k = Bit(R.alive)
  BY <1>7
<1>9. \/ m >= b + k + 2 * cm + sr + dr
      \/ Settled(t, R.alive, cm, sr, dr)
  BY <1>2, <1>8 DEF Sound, Balanced
<1>10. CASE m >= b + k + 2 * cm + sr + dr
  <2>1. m > 0 /\ n = m - 1 /\ n >= a + k + 2 * cm + sr + dr
    BY <1>2, <1>4, <1>10
  <2>2. Balanced(n, a, R.alive, cm, sr, dr)
    BY <2>1, <1>8 DEF Balanced
  <2>3. Sound(n, a, R.alive, t, cm, sr, dr)
    BY <2>2 DEF Sound
  <2>4. CASE n /= 0
    <3>1. r = s
      BY <2>4, <1>6 DEF Uncredited
    <3>2. b > 0 /\ a = b - 1
      BY <1>2, <1>4
    <3>3. Given(R, s, s, t, cm, sr, dr)
      BY <3>2, <2>3, <1>2, <1>6, GivenOf, Zenon
    <3> QED
      BY <3>1, <3>3
  <2>5. CASE n = 0
    <3>1. a = 0 /\ k = 0 /\ cm = 0 /\ sr = 0 /\ dr = 0
      BY <2>1, <2>5
    <3>2. R.alive = FALSE
      BY <3>1, <1>1, <1>7, <1>8
    <3>3. r = [NoHandle EXCEPT !.app = a]
      BY <2>5, <1>6 DEF Uncredited
    <3>4. /\ r \in HandleType /\ r.app = a /\ r.refs = 0 /\ r.alive = FALSE
      BY <3>3, Emptied, Zenon
    <3>5. Sound(r.refs, r.app, r.alive, t, cm, sr, dr)
      BY <2>3, <2>5, <3>2, <3>4, Zenon
    <3> QED
      BY <3>1, <3>2, <3>4, <3>5, <1>1, <1>2, <1>4, <1>6 DEF Given
  <2> QED
    BY <2>4, <2>5
<1>11. CASE Settled(t, R.alive, cm, sr, dr)
  <2>1. R.alive = FALSE /\ cm = 0 /\ sr = 0 /\ dr = 0
    BY <1>1, <1>11 DEF Settled
  <2>2. ASSUME NEW x \in Nat, NEW y \in Nat
        PROVE  Sound(x, y, R.alive, t, cm, sr, dr)
    BY <1>11 DEF Sound
  <2>3. CASE n /= 0
    <3>1. r = s
      BY <2>3, <1>6 DEF Uncredited
    <3>2. b > 0 /\ a = b - 1
      BY <1>2, <1>4
    <3>3. Sound(n, a, R.alive, t, cm, sr, dr)
      BY <2>2
    <3>4. Given(R, s, s, t, cm, sr, dr)
      BY <3>2, <3>3, <1>2, <1>6, GivenOf, Zenon
    <3> QED
      BY <3>1, <3>4
  <2>4. CASE n = 0
    <3>1. r = [NoHandle EXCEPT !.app = a]
      BY <2>4, <1>6 DEF Uncredited
    <3>2. /\ r \in HandleType /\ r.app = a /\ r.refs = 0 /\ r.alive = FALSE
      BY <3>1, Emptied, Zenon
    <3>3. Sound(r.refs, r.app, r.alive, t, cm, sr, dr)
      BY <2>1, <2>2, <3>2, Zenon
    <3> QED
      BY <2>1, <3>2, <3>3, <1>1, <1>2, <1>4, <1>6 DEF Given
  <2> QED
    BY <2>3, <2>4
<1> QED
  BY <1>9, <1>10, <1>11

(* wtq_stream_release.                                                     *)
LEMMA StreamReleaseStep ==
    ASSUME IInv, NEW h \in Slots, StreamRelease(h)
    PROVE  IInv'
<1>1. hs[h].app > 0
  BY DEF StreamRelease
<1>2. PICK q, d, H, T : /\ q = agenda /\ d = cbDepth /\ H = hs /\ T = told
  OBVIOUS
<1>3. Standing(q, d, H, T)
  BY <1>2, Stands
<1>5. /\ Handles(q, H, T) /\ H \in [Slots -> HandleType] /\ T \in ToldType
      /\ q \in Seq(Frame) /\ Stacked(admission, q)
  BY <1>3 DEF Standing, Handles
<1>6. PICK R \in HandleType : R = H[h]
  BY <1>5
<1>7. PICK s : s = [R EXCEPT !.app = @ - 1,
                             !.refs = IF @ = 0 THEN RefMod - 1 ELSE @ - 1]
  OBVIOUS
<1>8. PICK r : r = Uncredited(s)
  OBVIOUS
<1>9. /\ hs' = [hs EXCEPT ![h] = r] /\ es' = CreditRelease(s)
      /\ refs' = refs - 1 /\ freed' = (freed \/ (refs = 1 /\ cbDepth = 0))
      /\ UNCHANGED <<admission, cbDepth, backend, appRefs, attached,
                     running, terminal, commitDepth, deferred, sess, closed,
                     streams, agenda, told, outcome, late>>
  <2>1. s = [hs[h] EXCEPT !.app = @ - 1,
                          !.refs = IF @ = 0 THEN RefMod - 1 ELSE @ - 1]
    BY <1>2, <1>6, <1>7
  <2> QED
    BY <2>1, <1>8 DEF StreamRelease, SessionUnref, flags, engine, history
<1>11. PICK t \in {"none", "given", "closed", "unasked"} : t = T[h]
  BY <1>5 DEF ToldType
<1>12. PICK cm \in Nat, sr \in Nat, dr \in Nat :
         /\ cm = M(q, "committed", h) /\ sr = M(q, "slot_release", h)
         /\ dr = Holds(q, h)
         /\ dr = 0 => M(q, "drop", h) = 0 /\ M(q, "commit_end", h) = 0
  <2>1. PICK a \in Nat, b \in Nat, c \in Nat, e \in Nat :
          /\ a = M(q, "committed", h) /\ b = M(q, "slot_release", h)
          /\ c = M(q, "drop", h) /\ e = M(q, "commit_end", h)
    BY <1>5, CountRange, Zenon
  <2>2. Holds(q, h) = c + e
    BY <2>1 DEF Holds
  <2> QED
    BY <2>1, <2>2
<1>13. Sound(R.refs, R.app, R.alive, t, cm, sr, dr)
  BY <1>5, <1>6, <1>11, <1>12 DEF Handles, HandleSound
<1>14. Given(R, r, s, t, cm, sr, dr)
  <2>1. R.app > 0
    BY <1>1, <1>2, <1>6
  <2> QED
    BY <2>1, <1>7, <1>8, <1>13, GivenBack, Zenon
<1>15. StillReserved(H, T, h, r, t)
  <2>1. ASSUME Reserved(H[h], T[h]) PROVE Reserved(r, t)
    <3>1. ~R.alive
      BY <2>1, <1>1, <1>2, <1>6 DEF Reserved
    <3>2. ~r.alive
      BY <3>1, <1>14 DEF Given
    <3> QED
      BY <2>1, <3>1, <3>2, <1>6, <1>11 DEF Reserved
  <2> QED
    BY <2>1 DEF StillReserved
<1>16. PICK K : K = [H EXCEPT ![h] = r]
  BY Zenon
<1>17. Handles(q, K, T)
  <2>1. Altered(q, H, T, h, r, t)
    <3>1. Sound(r.refs, r.app, r.alive, t, M(q, "committed", h),
                M(q, "slot_release", h), Holds(q, h))
      BY <1>12, <1>14 DEF Given
    <3>2. r.gen = H[h].gen \/ NoneFor(q, h)
      <4>1. cm = 0 /\ sr = 0 /\ dr = 0 => NoneFor(q, h)
        BY <1>5, <1>12, NoneLeft
      <4> QED
        BY <4>1, <1>6, <1>14 DEF Given
    <3>3. r \in HandleType
      BY <1>14 DEF Given
    <3> QED
      BY <3>1, <3>2, <3>3, <1>5, <1>15, Alter
  <2>2. [T EXCEPT ![h] = t] = T
    BY <1>5, <1>11 DEF ToldType
  <2> QED
    BY <2>1, <2>2, <1>16 DEF Altered
<1>18. /\ Counted(q, d, K)' /\ Telling(q, K, T)' /\ Ending(q)'
       /\ \A k \in Slots : TornLater(q, T, k)'
       /\ refs' \in Int
  <2>1. r.app + 1 = H[h].app /\ refs' = refs - 1 /\ (r.alive => H[h].alive)
    BY <1>6, <1>9, <1>14 DEF Given
  <2>2. UNCHANGED <<admission, backend, appRefs, attached, running,
                    terminal, deferred, sess, closed, outcome>>
    BY <1>9
  <2>3. r \in HandleType
    BY <1>14 DEF Given
  <2> QED
    BY <2>1, <2>2, <2>3, <1>3, <1>16, <1>17, RefChanges, Zenon
<1>19. ~freed /\ refs \in Nat /\ refs > 0
  <2>1. freed => hs[h].app = 0
    BY Gone
  <2>2. hs[h].app = 0 => FALSE
    BY <1>1
  <2>3. refs \in Nat /\ refs > 0
    BY <1>1, <1>3, Pinned DEF Standing
  <2> QED
    BY <2>1, <2>2, <2>3
<1>20. es' \in [Slots -> StreamType] /\ SameLinks
  <2>1. es \in [Slots -> StreamType] /\ s.credit \in Slots \cup {None}
    BY <1>14 DEF IInv, Types, Given
  <2> QED
    BY <2>1, <1>9, CreditLinks
<1>21. Types'
  <2>1. freed' \in BOOLEAN
    BY <1>9 DEF IInv, Types
  <2> QED
    BY <2>1, <1>9, <1>18, <1>20 DEF IInv, Types
<1>22. Linked'
  <2>2. hs' = K /\ K[h] = r /\ \A k \in Slots : k /= h => K[k] = hs[k]
    <3>1. r \in HandleType
      BY <1>14 DEF Given
    <3> QED
      BY <3>1, <1>2, <1>5, <1>9, <1>16
  <2>3. hs[h].alive => hs[h].es /= None
    <3>1. hs[h].alive /\ hs[h].es = None => hs[h].app = 0
      BY DEF IInv, Linked
    <3> QED
      BY <3>1, <1>1
  <2>4. \A k \in Slots : hs'[k].alive =>
            /\ hs[k].alive /\ hs'[k].es = hs[k].es /\ told'[k] = told[k]
            /\ hs'[k].app = hs[k].app \/ hs[k].es /= None
    BY <2>2, <2>3, <1>2, <1>6, <1>9, <1>14 DEF Given
  <2>5. \A k \in Slots : hs[k].alive => hs'[k].alive
    BY <2>2, <1>2, <1>6, <1>14 DEF Given
  <2> QED
    BY <1>20, <2>4, <2>5, Links
<1>23. freed' <=> (refs' = 0 /\ d = 0)
  <2>1. refs' = 0 <=> refs = 1
    BY <1>9, <1>19
  <2>2. freed' <=> (refs = 1 /\ cbDepth = 0)
    BY <1>9, <1>19, Zenon
  <2> QED
    BY <2>1, <2>2, <1>2
<1>24. Over => Over'
  BY <1>9 DEF Over
<1>25. commitDepth' = N(q, "committed") /\ d \in Int
  BY <1>3, <1>9 DEF Standing
<1>26. agenda' = q /\ cbDepth' = d /\ hs' = K /\ told' = T /\ late' = late
  BY <1>2, <1>9, <1>16
<1>27. admission' = admission
  BY <1>9
<1> QED
  BY <1>17, <1>18, <1>21, <1>22, <1>23, <1>24, <1>25, <1>26, <1>27, Onto

-----------------------------------------------------------------------------
(* New streams.                                                            *)

(* Nobody knows of a free handle before the session is over.               *)
Unknown(q, H, T, h) ==
    /\ H[h].app = 0 /\ ~H[h].alive /\ T[h] = "none"
    /\ M(q, "committed", h) = 0 /\ M(q, "slot_release", h) = 0
    /\ Holds(q, h) = 0 /\ NoneFor(q, h) /\ NoneOpens(q, h)

(* Its count says so: no call is left that would hold it.                  *)
LEMMA FreeHandle ==
    ASSUME NEW q, NEW H, NEW T, Handles(q, H, T), NEW h \in Slots,
           H[h].refs = 0, ~Over
    PROVE  Unknown(q, H, T, h)
<1>1. /\ q \in Seq(Frame) /\ H \in [Slots -> HandleType] /\ T \in ToldType
      /\ Stacked(admission, q) /\ HandleSound(q, H, T, h)
      /\ \A f \in Waiting(q) : Relies(H, T, f)
  BY DEF Handles
<1>2. PICK cm \in Nat, sr \in Nat, dp \in Nat, ce \in Nat :
        /\ cm = M(q, "committed", h) /\ sr = M(q, "slot_release", h)
        /\ dp = M(q, "drop", h) /\ ce = M(q, "commit_end", h)
  BY <1>1, CountRange, Zenon
<1>3. PICK a \in Nat, alive \in BOOLEAN :
        a = H[h].app /\ alive = H[h].alive
  BY <1>1 DEF HandleType
<1>4. Sound(0, a, alive, T[h], cm, sr, dp + ce)
  BY <1>1, <1>2, <1>3 DEF HandleSound, Holds
<1>5. Bit(alive) \in {0, 1} /\ (alive <=> Bit(alive) = 1)
  BY DEF Bit
<1>6. PICK k \in {0, 1} : k = Bit(alive)
  BY <1>5
<1>7. 0 >= a + k + 2 * cm + sr + (dp + ce)
  BY <1>4, <1>6 DEF Sound, Balanced, Settled
<1>8. a = 0 /\ k = 0 /\ cm = 0 /\ sr = 0 /\ dp = 0 /\ ce = 0
  BY <1>7
<1>9. ~alive
  BY <1>5, <1>6, <1>8
<1>10. T[h] = "none"
  <2>1. T[h] \in {"none", "given", "closed", "unasked"}
    BY <1>1 DEF ToldType
  <2>2. T[h] /= "given"
    BY <1>4, <1>8, <1>9 DEF Sound
  <2>3. T[h] \notin {"closed", "unasked"}
    BY <1>4, <1>8 DEF Sound
  <2> QED
    BY <2>1, <2>2, <2>3
<1>11. NoneFor(q, h)
  BY <1>1, <1>2, <1>8, NoneLeft
<1>12. NoneOpens(q, h)
  <2>1. ASSUME NEW g \in Waiting(q), g.op \in OpenOps, h \in g.x
        PROVE  FALSE
    <3>1. Relies(H, T, g)
      BY <1>1
    <3>2. PICK i \in Slots : g.x = {i} /\ Reserved(H[i], T[i])
      BY <3>1, <2>1 DEF Relies
    <3>3. i = h
      BY <3>2, <2>1
    <3> QED
      BY <3>2, <3>3, <1>3, <1>9 DEF Reserved
  <2> QED
    BY <2>1 DEF NoneOpens
<1>13. Holds(q, h) = 0
  BY <1>2, <1>8 DEF Holds
<1> QED
  BY <1>2, <1>3, <1>8, <1>9, <1>10, <1>11, <1>12, <1>13 DEF Unknown

(* Before the session is over no outcome is on its way.                    *)
LEMMA Undecided ==
    ASSUME IInv, ~Over, NEW q \in Seq(Frame), Ending(q)
    PROVE  ~terminal /\ outcome = "none" /\ N(q, "tell_failed") = 0
<1>1. ~terminal
  BY DEF Ending
<1>2. PICK a \in Nat, b \in Nat :
        a = N(q, "tell_closed") /\ b = N(q, "tell_failed")
  BY CountRange
<1>3. a + b + Bit(deferred) + Bit(outcome /= "none") = Bit(terminal)
  BY <1>2 DEF Ending
<1> QED
  BY <1>1, <1>2, <1>3 DEF Bit

(* stream_acquire of a handle nobody knows of.                             *)
LEMMA Acquires ==
    ASSUME IInv, NEW q, NEW d, NEW H, NEW T, Calm(q, d, H, T),
           NEW h \in Slots, H[h].refs = 0, ~Over, sess = "active",
           NEW r \in HandleType, r.refs = 1, r.app = 0, r.alive = TRUE,
           NEW t \in {"none", "given"},
           NEW K, K = [H EXCEPT ![h] = r], NEW U, U = [T EXCEPT ![h] = t]
    PROVE  Calm(q, d, K, U)
<1>1. /\ Handles(q, H, T) /\ Counted(q, d, H) /\ Telling(q, H, T)
      /\ Ending(q) /\ d \in Int /\ q \in Seq(Frame)
      /\ N(q, "open_rest") > 0 => admission
      /\ H \in [Slots -> HandleType] /\ T \in ToldType
  BY DEF Calm, Ready, Books, Handles
<1>2. Unknown(q, H, T, h)
  BY <1>1, FreeHandle
<1>3. Handles(q, K, U)
  <2>1. Sound(r.refs, r.app, r.alive, t, 0, 0, 0)
    BY DEF Sound, Balanced, Bit
  <2>2. Sound(r.refs, r.app, r.alive, t, M(q, "committed", h),
              M(q, "slot_release", h), Holds(q, h))
    BY <2>1, <1>2 DEF Unknown
  <2>3. t \in {"none", "given", "closed", "unasked"}
    OBVIOUS
  <2>4. NoneFor(q, h) /\ NoneOpens(q, h)
    BY <1>2 DEF Unknown
  <2>5. Altered(q, H, T, h, r, t)
    BY <2>2, <2>3, <2>4, <1>1, Alter
  <2> QED
    BY <2>5 DEF Altered
<1>4. Tokens(K) = Tokens(H)
  <2>1. \A k \in Slots : K[k].app = H[k].app
    BY <1>1, <1>2 DEF Unknown
  <2> QED
    BY <2>1 DEF Tokens
<1>5. Counted(q, d, K)
  BY <1>1, <1>4 DEF Counted
<1>6. ~terminal /\ outcome = "none" /\ N(q, "tell_failed") = 0
  BY <1>1, Undecided
<1>7. Telling(q, K, U)
  BY <1>6 DEF Telling
<1>8. \A k \in Slots : TornLater(q, U, k)
  BY <1>6 DEF TornLater
<1> QED
  BY <1>1, <1>3, <1>5, <1>7, <1>8, Zenon DEF Calm, Ready, Books

(* The new stream's handle and its engine stream point to each other, or   *)
(* the handle is not given out yet.                                        *)
Tied(h, e, s, r, t) ==
    /\ told[h] = "none" /\ s \in StreamType
    /\ es' = [es EXCEPT ![e] = s] /\ hs' = [hs EXCEPT ![h] = r]
    /\ told' = [told EXCEPT ![h] = t]
    /\ s.kind = "WT" /\ s.user /= None =>
         s.user = h /\ t = "given" /\ r.alive /\ r.es = e
    /\ r.alive /\ r.es = None => t = "none" /\ r.app = 0

(* With that the links hold.                                               *)
LEMMA NewLink ==
    ASSUME IInv, NEW h \in Slots, NEW e \in Slots, NEW s, NEW r, NEW t,
           Tied(h, e, s, r, t)
    PROVE  Linked' /\ es' \in [Slots -> StreamType]
<1> USE DEF Tied
<1>1. /\ hs \in [Slots -> HandleType] /\ told \in ToldType
      /\ es \in [Slots -> StreamType] /\ Linked
  BY Numbers, Zenon DEF IInv, Types
<1>2. /\ hs'[h] = r /\ told'[h] = t /\ es'[e] = s
      /\ \A k \in Slots : k /= h => hs'[k] = hs[k] /\ told'[k] = told[k]
      /\ \A k \in Slots : k /= e => es'[k] = es[k]
  BY <1>1 DEF ToldType
<1>3. ASSUME NEW k \in Slots, es'[k].kind = "WT", es'[k].user /= None
      PROVE  /\ told'[es'[k].user] = "given" /\ hs'[es'[k].user].alive
             /\ hs'[es'[k].user].es = k
  <2>1. CASE k = e
    BY <2>1, <1>2, <1>3
  <2>2. CASE k /= e
    <3>1. es[k].kind = "WT" /\ es[k].user /= None /\ es'[k] = es[k]
      BY <2>2, <1>2, <1>3
    <3>2. es[k].user \in Slots
      BY <3>1, <1>1 DEF StreamType
    <3>3. /\ told[es[k].user] = "given" /\ hs[es[k].user].alive
          /\ hs[es[k].user].es = k
      BY <3>1, <1>1 DEF Linked
    <3>4. es[k].user /= h
      BY <3>3
    <3> QED
      BY <3>1, <3>2, <3>3, <3>4, <1>2
  <2> QED
    BY <2>1, <2>2
<1>4. ASSUME NEW k \in Slots, hs'[k].alive, hs'[k].es = None
      PROVE  told'[k] = "none" /\ hs'[k].app = 0
  <2>1. CASE k = h
    BY <2>1, <1>2, <1>4
  <2>2. CASE k /= h
    BY <2>2, <1>1, <1>2, <1>4 DEF Linked
  <2> QED
    BY <2>1, <2>2
<1> QED
  BY <1>1, <1>3, <1>4 DEF Linked

(* A step that leaves the session as it is, whatever waits.                *)
LEMMA Further ==
    ASSUME IInv, Quiet, NEW q, NEW d, NEW H, NEW T, Accounts(q, d, H, T),
           agenda' = q, cbDepth' = d, hs' = H, told' = T,
           commitDepth' = N(q, "committed"), late' = late,
           freed' \in BOOLEAN, freed' <=> (refs = 0 /\ d = 0),
           streams' \in Nat, es' \in [Slots -> StreamType], Linked'
    PROVE  IInv'
<1>2. Accounts(agenda, cbDepth, hs, told)'
  BY Same
<1>3. /\ admission' = admission /\ refs' = refs /\ backend' = backend
      /\ appRefs' = appRefs /\ attached' = attached /\ running' = running
      /\ terminal' = terminal /\ deferred' = deferred /\ sess' = sess
      /\ closed' = closed /\ outcome' = outcome
  BY DEF Quiet
<1>4. q \in Seq(Frame)
  BY DEF Accounts, Books, Handles
<1>5. N(q, "committed") \in Nat
  BY <1>4, CountRange
<1>6. Types'
  BY <1>3, <1>5 DEF IInv, Types
<1>7. (commitDepth = N(agenda, "committed"))'
  BY DEF N
<1>8. (freed <=> refs = 0 /\ cbDepth = 0)' /\ (late = FALSE)'
  BY <1>3 DEF IInv
<1> QED
  BY <1>2, <1>6, <1>7, <1>8 DEF IInv

(* stream_acquire and the engine's new stream.                             *)
Fresh(e, bidi, local, n) ==
    /\ bidi \in BOOLEAN /\ local \in BOOLEAN /\ n \in Nat
    /\ e \in Slots \cup {None}
NewOnes(s, r, e, n) ==
    /\ s \in StreamType /\ s.user = None
    /\ r \in HandleType /\ r.refs = 1 /\ r.app = 0 /\ r.alive = TRUE
    /\ r.gen = n /\ r.es = e

(* Their types.                                                            *)
LEMMA NewTypes ==
    ASSUME NEW bidi, NEW local, NEW n, NEW e, Fresh(e, bidi, local, n), Types
    PROVE  NewOnes(NewStream(bidi, local, n), Acquired(e, bidi, local, n), e, n)
<1> USE DEF Fresh
<1>1. PICK a \in BOOLEAN, b \in BOOLEAN, m \in BOOLEAN :
        a = (local \/ bidi) /\ b = (~local \/ bidi) /\ m = admission
  BY Zenon DEF Types
<1>2. PICK c \in Slots \cup {None} : c = IF attached THEN e ELSE None
  OBVIOUS
<1>3. ASSUME NEW s, s = NewStream(bidi, local, n)
      PROVE  s \in StreamType /\ s.user = None
  <2>1. s = [kind |-> "WT", user |-> None, send |-> a,
             recv |-> b, fin |-> FALSE, drain |-> FALSE,
             commit |-> FALSE, sent |-> FALSE, bidi |-> bidi,
             local |-> local, lease |-> FALSE, resident |-> m, gen |-> n]
    BY <1>1, <1>3, Zenon DEF NewStream, NoStream
  <2>2. s \in StreamType
    BY <2>1 DEF StreamType
  <2> QED
    BY <2>1, <2>2
<1>4. ASSUME NEW r, r = Acquired(e, bidi, local, n)
      PROVE  /\ r \in HandleType /\ r.refs = 1 /\ r.app = 0 /\ r.alive = TRUE
             /\ r.gen = n /\ r.es = e
  <2>1. r = [refs |-> 1, app |-> 0, alive |-> TRUE, send |-> a, recv |-> b,
             fin |-> FALSE, commit |-> FALSE, bidi |-> bidi, local |-> local,
             es |-> e, credit |-> c, gen |-> n]
    BY <1>1, <1>2, <1>4, Zenon DEF Acquired, NoHandle
  <2>2. r \in HandleType
    BY <2>1 DEF HandleType
  <2> QED
    BY <2>1, <2>2
<1> QED
  BY <1>3, <1>4, Zenon DEF NewOnes

-----------------------------------------------------------------------------
(* The calls of session_open.                                              *)

(* What such a call changes in the books: nothing but its bracket.         *)
LEMMA OpenFrame ==
    ASSUME NEW q \in Seq(Frame), NEW d, NEW H, NEW T, NEW f \in Frame,
           f.op \in OpenOps
    PROVE  /\ Telling(Put(f, q), H, T) <=> Telling(q, H, T)
           /\ \A h : TornLater(Put(f, q), T, h) <=> TornLater(q, T, h)
           /\ \A h : HandleSound(Put(f, q), H, T, h) <=> HandleSound(q, H, T, h)
           /\ Ending(Put(f, q)) => Ending(q)
           /\ /\ Ending(q)
              /\ f.op = "open_rest" /\ ~admission => sess = "active" /\ ~closed
              => Ending(Put(f, q))
           /\ N(Put(f, q), "committed") = N(q, "committed")
           /\ N(Put(f, q), "open_rest") > 0
                => N(q, "open_rest") > 0 \/ f.op = "open_rest"
<1>1. /\ \A op : N(Put(f, q), op) = N(q, op) + Bit(f.op = op)
      /\ \A op : N(q, op) \in Nat
      /\ \A op, h : M(Put(f, q), op, h)
                        = M(q, op, h) + Bit(f.op = op /\ f.at = h)
      /\ \A op, h : M(q, op, h) \in Nat
      /\ Waiting(Put(f, q)) = {f} \cup Waiting(q)
  BY PutFacts
<1> HIDE DEF Put
<1>2. \A op : op \notin OpenOps =>
        /\ N(Put(f, q), op) = N(q, op)
        /\ \A h : M(Put(f, q), op, h) = M(q, op, h)
  BY <1>1 DEF Bit
<1>3. /\ N(Put(f, q), "on_session_closed") = N(q, "on_session_closed")
      /\ N(Put(f, q), "on_conn_error") = N(q, "on_conn_error")
      /\ N(Put(f, q), "session_failed") = N(q, "session_failed")
      /\ N(Put(f, q), "streams_teardown") = N(q, "streams_teardown")
      /\ N(Put(f, q), "tell_closed") = N(q, "tell_closed")
      /\ N(Put(f, q), "tell_failed") = N(q, "tell_failed")
      /\ N(Put(f, q), "committed") = N(q, "committed")
      /\ N(Put(f, q), "commit_end") = N(q, "commit_end")
      /\ N(Put(f, q), "conn_fatal") = N(q, "conn_fatal")
      /\ N(Put(f, q), "backend_release") = N(q, "backend_release")
  BY <1>2 DEF OpenOps
<1>4. /\ N(q, "open_rest") > 0 => N(Put(f, q), "open_rest") > 0
      /\ N(Put(f, q), "open_rest") > 0
           => N(q, "open_rest") > 0 \/ f.op = "open_rest"
  BY <1>1 DEF Bit
<1>5. \A h : HandleSound(Put(f, q), H, T, h) <=> HandleSound(q, H, T, h)
  BY <1>2, Zenon DEF HandleSound, Holds, OpenOps
<1>6. Telling(Put(f, q), H, T) <=> Telling(q, H, T)
  BY <1>3 DEF Telling
<1>7. \A h : TornLater(Put(f, q), T, h) <=> TornLater(q, T, h)
  <2>1. \A h : M(Put(f, q), "committed", h) = M(q, "committed", h)
    BY <1>2, Zenon DEF OpenOps
  <2>2. f.op /= "streams_teardown"
    BY DEF OpenOps
  <2> QED
    BY <1>1, <2>1, <2>2 DEF TornLater
<1>8. Ending(Put(f, q)) => Ending(q)
  BY <1>3, <1>4 DEF Ending
<1>9. ASSUME Ending(q),
             f.op = "open_rest" /\ ~admission => sess = "active" /\ ~closed
      PROVE  Ending(Put(f, q))
  BY <1>3, <1>4, <1>9 DEF Ending
<1> QED
  BY <1>3, <1>4, <1>5, <1>6, <1>7, <1>8, <1>9

(* It ends.                                                                *)
LEMMA OpenPop ==
    ASSUME NEW q \in Seq(Frame), NEW d, NEW H, NEW T, NEW f \in Frame,
           f.op \in OpenOps, Accounts(Put(f, q), d, H, T)
    PROVE  Calm(q, d - 1, H, T)
<1>1. /\ Handles(Put(f, q), H, T) /\ Counted(Put(f, q), d, H) /\ d \in Int
      /\ Telling(Put(f, q), H, T) /\ Ending(Put(f, q))
      /\ \A h \in Slots : TornLater(Put(f, q), T, h)
  BY DEF Accounts, Books
<1>2. Counted(q, d - 1, H)
  BY <1>1, AnyCounted DEF OpenOps, BracketOps
<1>3. Stacked(admission, q) /\ \A g \in Waiting(q) : Above(admission, f, g)
  BY <1>1, PutStacked, Zenon DEF Handles
<1>4. N(q, "open_rest") > 0 => admission
  BY <1>3, CountRange DEF Above
<1>5. Waiting(Put(f, q)) = {f} \cup Waiting(q)
  BY PutFacts
<1>6. Handles(q, H, T)
  BY <1>1, <1>3, <1>5, OpenFrame DEF Handles
<1> QED
  BY <1>1, <1>2, <1>4, <1>6, OpenFrame DEF Calm, Ready, Books

(* It comes, for a handle it has reserved or for none.                     *)
Opens(q, H, T, f) ==
    /\ f.x = {} \/ \E h \in Slots :
         /\ f.x = {h} /\ admission /\ Reserved(H[h], T[h])
         /\ NoneFor(q, h) /\ NoneOpens(q, h)
    /\ f.op = "open_rest" /\ ~admission => sess = "active" /\ ~closed

(* With that it may come.                                                  *)
LEMMA OpenCall ==
    ASSUME NEW q, NEW d, NEW H, NEW T, NEW f \in Frame, f.op \in OpenOps,
           Calm(q, d, H, T), Opens(q, H, T, f)
    PROVE  /\ Accounts(Put(f, q), d + 1, H, T) /\ Put(f, q) \in Seq(Frame)
           /\ f.op = "open_failed" \/ admission
                => Calm(Put(f, q), d + 1, H, T) /\ Put(f, q) /= <<>>
           /\ N(Put(f, q), "committed") = N(q, "committed")
<1>1. /\ Handles(q, H, T) /\ Counted(q, d, H) /\ Telling(q, H, T)
      /\ Ending(q) /\ d \in Int /\ q \in Seq(Frame)
      /\ N(q, "open_rest") > 0 => admission
      /\ \A h \in Slots : TornLater(q, T, h)
  BY DEF Calm, Ready, Books, Handles
<1>2. /\ Waiting(Put(f, q)) = {f} \cup Waiting(q)
      /\ Put(f, q) \in Seq(Frame) /\ Put(f, q) /= <<>>
  BY <1>1, PutFacts
<1>3. Counted(Put(f, q), d + 1, H)
  BY <1>1, AnyCounted DEF OpenOps, BracketOps
<1>4. Relies(H, T, f)
  BY DEF Relies, Opens, OpenOps, HandleOps
<1>5. Stacked(admission, Put(f, q))
  <2>1. ASSUME NEW g \in Waiting(q)
        PROVE  Above(admission, f, g)
    <3>1. g.op = "open_rest" => admission
      BY <1>1, CountRange
    <3>2. f.op \notin Tells /\ f.op /= "backend_release"
      BY DEF OpenOps, Tells
    <3>3. CASE f.x = {}
      BY <3>1, <3>2, <3>3 DEF Above
    <3>4. CASE f.x /= {}
      <4>1. PICK h \in Slots : f.x = {h} /\ NoneFor(q, h) /\ NoneOpens(q, h)
        BY <3>4 DEF Opens
      <4> QED
        BY <3>1, <3>2, <4>1 DEF Above, NoneFor, NoneOpens
    <3> QED
      BY <3>3, <3>4
  <2>2. f.op \in BracketOps /\ f.op /= "settle"
    BY DEF OpenOps, BracketOps
  <2> QED
    BY <1>1, <2>1, <2>2, PutStacked, Zenon DEF Handles
<1>6. Handles(Put(f, q), H, T)
  BY <1>1, <1>2, <1>4, <1>5, OpenFrame, Zenon DEF Handles
<1>7. f.op = "open_rest" /\ ~admission => sess = "active" /\ ~closed
  BY DEF Opens
<1>8. Accounts(Put(f, q), d + 1, H, T)
  <2>1. /\ Telling(Put(f, q), H, T) /\ Ending(Put(f, q))
        /\ \A h \in Slots : TornLater(Put(f, q), T, h)
    BY <1>1, <1>7, OpenFrame, Zenon
  <2> QED
    BY <1>1, <1>3, <1>6, <2>1 DEF Accounts, Books
<1>9. f.op = "open_failed" \/ admission =>
        (N(Put(f, q), "open_rest") > 0 => admission)
  BY <1>1, OpenFrame, Zenon
<1> QED
  BY <1>1, <1>2, <1>8, <1>9, OpenFrame, Zenon DEF Accounts, Calm, Ready

(* A stream is up and gets its handle.                                     *)
LEMMA OpensUp ==
    ASSUME IInv, ~freed, Quiet, NEW q, NEW d \in Nat, NEW K, NEW U,
           Calm(q, d, K, U), N(q, "committed") = commitDepth,
           NEW h \in Slots, told[h] = "none", NEW e \in Slots,
           NEW s \in StreamType, s.user = h, es' = [es EXCEPT ![e] = s],
           NEW r, r.alive, r.es = e, K = [hs EXCEPT ![h] = r],
           U = [told EXCEPT ![h] = "given"], hs' = K, told' = U,
           agenda' = Put(Exit, q) \/ agenda' = Put(App, Put(Exit, q)),
           cbDepth' = d + 1, UNCHANGED <<freed, commitDepth, late>>,
           streams' \in Nat
    PROVE  IInv'
<1>1. PICK p, k : p = Put(Exit, q) /\ k = d + 1
  OBVIOUS
<1>2. /\ Calm(p, k, K, U) /\ p /= <<>> /\ N(p, "committed") = commitDepth
  BY <1>1, ExitOn
<1>3. App \in Frame /\ App.op \in NeutralOps
  BY Calls DEF NeutralOps
<1>4. /\ Calm(Put(App, p), k, K, U)
      /\ N(Put(App, p), "committed") = commitDepth
  BY <1>2, <1>3, NeutralOn
<1>5. PICK t : t = "given"
  OBVIOUS
<1>6. r.es /= None
  BY ApiAssumption
<1>7. Linked' /\ es' \in [Slots -> StreamType]
  <2>1. Tied(h, e, s, r, t)
    BY <1>5, <1>6 DEF Tied
  <2> QED
    BY <2>1, NewLink
<1>8. /\ freed' \in BOOLEAN /\ (freed' <=> (refs = 0 /\ k = 0)) /\ late' = late
      /\ cbDepth' = k
  BY <1>1 DEF IInv, Types
<1>9. CASE agenda' = p
  BY <1>2, <1>7, <1>8, <1>9, Onward, Zenon
<1>10. CASE agenda' = Put(App, p)
  <2>1. PICK a : a = Put(App, p)
    OBVIOUS
  <2> QED
    BY <2>1, <1>4, <1>7, <1>8, <1>10, Onward, Zenon
<1> QED
  BY <1>1, <1>9, <1>10

(* The stream is refused.                                                  *)
LEMMA Refuses ==
    ASSUME IInv, ~freed, Quiet, NEW q, NEW d \in Nat,
           Calm(q, d, hs, told), N(q, "committed") = commitDepth,
           NEW e \in Slots, NEW r \in StreamType, r.user = None,
           Refuse(e, r, q), cbDepth' = d + 1,
           UNCHANGED <<freed, commitDepth, hs, told, late>>, streams' \in Nat
    PROVE  IInv'
<1> DEFINE c == Call("conn_fatal")
<1>1. PICK p, k, H, T : p = Put(Exit, q) /\ k = d + 1 /\ H = hs /\ T = told
  OBVIOUS
<1>2. /\ Calm(p, k, H, T) /\ p /= <<>> /\ N(p, "committed") = commitDepth
      /\ p \in Seq(Frame) /\ q \in Seq(Frame)
  BY <1>1, ExitOn, Zenon DEF Calm, Ready, Books, Handles
<1>3. c \in Frame /\ c.op = "conn_fatal" /\ Exit \in Frame
  BY Calls DEF PlainOps
<1>4. /\ Calm(Put(c, p), k, H, T)
      /\ N(Put(c, p), "committed") = commitDepth
  <2> HIDE DEF c
  <2> QED
    BY <1>2, <1>3, NeutralOn
<1>5. PICK x : x = IF r.recv THEN Halves ELSE {"send"}
  BY Zenon
<1>6. PICK n : n = Kept(ShutStream(r, x))
  OBVIOUS
<1>7. n \in StreamType /\ n.user = None
  <2>1. PICK m : m = ShutStream(r, x)
    OBVIOUS
  <2>2. Follows(m, r)
    BY <2>1, StreamFollows, Zenon
  <2>3. Follows(n, r)
    BY <2>1, <2>2, <1>6, KeptFollows
  <2> QED
    BY <2>3 DEF Follows
<1>8. PICK s \in StreamType, calls \in {<<>>, <<c>>} :
        /\ s.user = None /\ es' = [es EXCEPT ![e] = s]
        /\ agenda' = (calls \o <<Exit>>) \o q
  BY <1>5, <1>6, <1>7, Zenon DEF Refuse
<1>9. es' \in [Slots -> StreamType] /\ SameLinks
  BY <1>8 DEF IInv, Types, SameLinks
<1>10. Linked'
  BY <1>9, Links
<1>11. /\ freed' \in BOOLEAN /\ (freed' <=> (refs = 0 /\ k = 0))
       /\ cbDepth' = k /\ hs' = H /\ told' = T /\ late' = late
  BY <1>1 DEF IInv, Types
<1>12. CASE calls = <<>>
  <2>1. agenda' = p
    <3>1. <<Exit>> \in Seq(Frame)
      BY <1>3
    <3>2. <<>> \o <<Exit>> = <<Exit>>
      BY <3>1, Joined
    <3> QED
      BY <3>2, <1>1, <1>8, <1>12 DEF Put
  <2> QED
    BY <2>1, <1>2, <1>8, <1>9, <1>10, <1>11, Onward, Zenon
<1>13. CASE calls = <<c>>
  <2>1. agenda' = Put(c, p)
    <3> HIDE DEF c
    <3>1. <<c>> \in Seq(Frame) /\ <<Exit>> \in Seq(Frame)
      BY <1>3
    <3>2. (<<c>> \o <<Exit>>) \o q = <<c>> \o (<<Exit>> \o q)
      BY <3>1, <1>2, Assoc
    <3> QED
      BY <3>2, <1>1, <1>8, <1>13 DEF Put
  <2>2. PICK a : a = Put(c, p)
    OBVIOUS
  <2> QED
    BY <2>1, <2>2, <1>4, <1>8, <1>9, <1>10, <1>11, Onward
<1> QED
  BY <1>8, <1>12, <1>13

(* The record of a stream with a handle.                                   *)
LEMMA WithUser ==
    ASSUME NEW r \in StreamType, NEW h \in Slots, NEW b \in BOOLEAN,
           NEW s, s = [r EXCEPT !.user = h, !.lease = b]
    PROVE  s \in StreamType /\ s.user = h
BY Zenon DEF StreamType

(* The handles that are free, and the pool.                                *)
LEMMA Pools ==
    /\ Pool \subseteq Slots /\ Spare \subseteq Slots
    /\ \A h \in FreeHandles : h \in Slots /\ hs[h].refs = 0
BY ApiAssumption, Zenon DEF Pool, Spare, FreeHandles

(* A peer's stream is given out, or refused.                               *)
LEMMA OnPeerOpenedStep ==
    ASSUME IInv, NEW bidi \in PeerDirs, OnPeerOpened(bidi)
    PROVE  IInv'
<1>1. bidi \in BOOLEAN
  BY ApiAssumption
<1>2. ~closed /\ sess = "active" /\ ~Over /\ BackendMay
  BY DEF OnPeerOpened, BackendMay, Over
<1>3. Ongoing /\ ~freed
  BY <1>2, MayDeliver
<1>4. PICK q, d : q = Bracket \o Below /\ d = cbDepth + Depth
  BY Zenon
<1>5. /\ Calm(q, d, hs, told) /\ N(q, "committed") = commitDepth
      /\ Bracket \in Seq(Frame) /\ Below \in Seq(Frame) /\ d \in Nat
  BY <1>3, <1>4, Bracketed, Numbers DEF Ongoing
<1>6. PICK n \in Nat : n = streams + 1
  BY DEF IInv, Types
<1>61. PICK l \in BOOLEAN : l = FALSE
  BY Zenon
<1>7. PICK r : r = NewStream(bidi, l, n)
  OBVIOUS
<1>8. /\ Types
      /\ hs \in [Slots -> HandleType] /\ told \in ToldType
  BY Numbers, Zenon DEF IInv
<1>9. r \in StreamType /\ r.user = None
  <2>1. Fresh(None, bidi, l, n)
    BY <1>1 DEF Fresh
  <2>2. NewOnes(r, Acquired(None, bidi, l, n), None, n)
    BY <1>7, <1>8, <2>1, NewTypes
  <2> QED
    BY <2>2 DEF NewOnes
<1>10. /\ Quiet /\ UNCHANGED <<freed, commitDepth, late>> /\ streams' = n
       /\ cbDepth' = d + 1
  <2>1. cbDepth \in Nat /\ Depth \in Nat
    BY Numbers DEF Depth
  <2>2. cbDepth' = cbDepth + Depth + 1
    BY DEF OnPeerOpened
  <2>3. cbDepth' = d + 1
    BY <1>4, <2>1, <2>2
  <2> QED
    BY <1>6, <2>3 DEF OnPeerOpened, Quiet, flags, engine
<1>11. PICK e \in Slots :
         \/ \E h \in FreeHandles :
              /\ hs' = [hs EXCEPT ![h] = Acquired(e, bidi, l, n)]
              /\ es' = [es EXCEPT ![e] = [r EXCEPT !.user = h,
                                                   !.lease = attached]]
              /\ told' = [told EXCEPT ![h] = "given"]
              /\ AppDeliver(<<Exit>>)
         \/ Refuse(e, r, q) /\ UNCHANGED <<hs, told>>
  <2>1. PICK e \in Spare, hands \in SUBSET FreeHandles :
          \/ /\ hands /= {}
             /\ hs' = [hs EXCEPT ![First(hands)] = Acquired(e, bidi, l, n)]
             /\ es' = [es EXCEPT ![e] = [r EXCEPT !.user = First(hands),
                                                  !.lease = attached]]
             /\ told' = [told EXCEPT ![First(hands)] = "given"]
             /\ AppDeliver(<<Exit>>)
          \/ Refuse(e, r, q) /\ UNCHANGED <<hs, told>>
    BY <1>4, <1>6, <1>61, <1>7, Zenon DEF OnPeerOpened
  <2>2. e \in Slots /\ hands \subseteq Slots
    BY Pools
  <2>3. hands /= {} => First(hands) \in FreeHandles
    BY <2>2, FirstIn
  <2> QED
    BY <2>1, <2>2, <2>3, Zenon
<1>12. ASSUME NEW h \in FreeHandles,
              hs' = [hs EXCEPT ![h] = Acquired(e, bidi, l, n)],
              es' = [es EXCEPT ![e] = [r EXCEPT !.user = h,
                                                !.lease = attached]],
              told' = [told EXCEPT ![h] = "given"],
              AppDeliver(<<Exit>>)
       PROVE  IInv'
  <2>1. h \in Slots /\ hs[h].refs = 0
    BY Pools
  <2>2. PICK a, s, t, K, U :
          /\ a = Acquired(e, bidi, l, n) /\ t = "given"
          /\ s = [r EXCEPT !.user = h, !.lease = attached]
          /\ K = [hs EXCEPT ![h] = a] /\ U = [told EXCEPT ![h] = t]
    BY Zenon
  <2>3. /\ a \in HandleType /\ a.refs = 1 /\ a.app = 0 /\ a.alive = TRUE
        /\ a.es = e
    <3>1. Fresh(e, bidi, l, n)
      BY <1>1 DEF Fresh
    <3>2. NewOnes(r, a, e, n)
      BY <1>7, <1>8, <2>2, <3>1, NewTypes
    <3> QED
      BY <3>2 DEF NewOnes
  <2>4. s \in StreamType /\ s.user = h
    BY <1>8, <1>9, <2>1, <2>2, WithUser, Zenon DEF Types
  <2>5. t \in {"none", "given"}
    BY <2>2
  <2>6. Calm(q, d, K, U)
    BY <1>2, <1>5, <2>1, <2>2, <2>3, <2>5, Acquires, Zenon
  <2>7. told[h] = "none"
    BY <1>2, <1>5, <2>1, FreeHandle DEF Calm, Ready, Books, Unknown
  <2>8. agenda' = Put(Exit, q) \/ agenda' = Put(App, Put(Exit, q))
    <3>1. <<Exit>> \in Seq(Frame)
      BY Calls
    <3>2. PICK c : c = <<Exit>> \o Bracket
      BY Zenon
    <3>3. c \in Seq(Frame) /\ c \o Below = Put(Exit, q)
      BY <1>4, <1>5, <3>1, <3>2, Closed, Assoc DEF Put
    <3>4. PICK p : p = agenda'
      OBVIOUS
    <3>5. p = ((IF Len(c \o Below) + 1 < MaxDepth THEN <<App>>
                                                ELSE <<>>)
               \o c) \o Below
      BY <1>12, <3>2, <3>4 DEF AppDeliver, AppFirst
    <3>6. p = c \o Below \/ p = Put(App, c \o Below)
      BY <1>5, <3>3, <3>5, AppCase, Zenon
    <3> QED
      BY <3>3, <3>4, <3>6
  <2> QED
    BY ZenonT(60), <1>3, <1>5, <1>6, <1>10, <1>12, <2>1, <2>2, <2>3, <2>4,
       <2>6, <2>7,
       <2>8, OpensUp
<1>13. ASSUME Refuse(e, r, q), UNCHANGED <<hs, told>>
       PROVE  IInv'
  BY <1>3, <1>5, <1>6, <1>9, <1>10, <1>13, Refuses
<1> QED
  BY <1>11, <1>12, <1>13, Zenon

(* The slot that session_open takes, not in use yet.                       *)
LEMMA Taken ==
    ASSUME Types, NEW bidi, bidi \in BOOLEAN, NEW n \in Nat,
           NEW s, s = [NoStream EXCEPT !.bidi = bidi, !.gen = n,
                          !.kind = IF admission THEN "RESERVED" ELSE "FREE",
                          !.resident = admission]
    PROVE  s \in StreamType /\ s.user = None /\ s.kind /= "WT"
<1>1. PICK k : k = IF admission THEN "RESERVED" ELSE "FREE"
  OBVIOUS
<1>2. k \in {"FREE", "RESERVED", "WT"} /\ k /= "WT"
  BY <1>1
<1>3. admission \in BOOLEAN
  BY DEF Types
<1>4. PICK m : m = admission
  OBVIOUS
<1>5. PICK a, b, c :
        /\ a = [NoStream EXCEPT !.bidi = bidi] /\ b = [a EXCEPT !.gen = n]
        /\ c = [b EXCEPT !.kind = k]
  BY Zenon
<1>6. NoStream \in StreamType /\ NoStream.user = None
  BY DEF NoStream, StreamType
<1>7. a \in StreamType /\ a.user = None
  BY <1>5, <1>6 DEF StreamType
<1>8. b \in StreamType /\ b.user = None
  BY <1>5, <1>7, Zenon DEF StreamType
<1>9. c \in StreamType /\ c.user = None /\ c.kind = k
  BY <1>2, <1>5, <1>8, ZenonT(60) DEF StreamType
<1>10. s = [c EXCEPT !.resident = m]
  BY <1>1, <1>4, <1>5
<1>11. s \in StreamType /\ s.user = None /\ s.kind = k
  BY <1>3, <1>4, <1>9, <1>10, Zenon DEF StreamType
<1> QED
  BY <1>2, <1>11

(* The handle it reserves.                                                 *)
LEMMA ReservedNow ==
    ASSUME Types, NEW bidi, NEW local, NEW n,
           Fresh(None, bidi, local, n),
           NEW r, r = [Acquired(None, bidi, local, n) EXCEPT !.credit = None]
    PROVE  NewOnes(NewStream(bidi, local, n), r, None, n)
<1>1. PICK a, s : a = Acquired(None, bidi, local, n)
                  /\ s = NewStream(bidi, local, n)
  OBVIOUS
<1>3. NewOnes(s, a, None, n)
  BY <1>1, NewTypes
<1>4. r = [a EXCEPT !.credit = None] /\ a \in HandleType
  BY <1>1, <1>3 DEF NewOnes
<1>5. /\ r \in HandleType /\ r.refs = a.refs /\ r.app = a.app
      /\ r.alive = a.alive /\ r.gen = a.gen /\ r.es = a.es
  BY <1>4, Zenon DEF HandleType
<1> QED
  BY <1>1, <1>3, <1>5 DEF NewOnes

(* Up to the driver's open, with a handle reserved or without.             *)
LEMMA SessionOpenStep ==
    ASSUME IInv, NEW bidi \in LocalDirs, SessionOpen(bidi)
    PROVE  IInv'
<1>1. bidi \in BOOLEAN
  BY ApiAssumption
<1>2. ~closed /\ sess = "active" /\ ~Over /\ MayUse
  BY DEF SessionOpen, Over
<1>3. Ongoing /\ ~freed
  BY <1>2, MayDeliver
<1>4. /\ Calm(agenda, cbDepth, hs, told) /\ agenda \in Seq(Frame)
      /\ N(agenda, "committed") = commitDepth /\ cbDepth \in Nat
      /\ hs \in [Slots -> HandleType] /\ es \in [Slots -> StreamType]
      /\ told \in ToldType /\ Types
  BY <1>3, OnThis, Zenon DEF IInv
<1>5. PICK q, d, k, n :
        q = agenda /\ d = cbDepth /\ k = d + 1 /\ n = streams + 1
  OBVIOUS
<1>51. d \in Nat /\ k \in Nat /\ k /= 0 /\ n \in Nat
  BY <1>4, <1>5 DEF Types
<1>6. PICK e \in Slots : e = First(Spare \cap LocalSlots)
  <2>1. Spare \cap LocalSlots \subseteq Slots /\ Spare \cap LocalSlots /= {}
    BY Pools DEF SessionOpen
  <2> QED
    BY <2>1, FirstIn
<1>7. PICK s : s = [NoStream EXCEPT !.bidi = bidi, !.gen = n,
                      !.kind = IF admission THEN "RESERVED" ELSE "FREE",
                      !.resident = admission]
  OBVIOUS
<1>8. /\ s \in StreamType /\ s.user = None /\ s.kind /= "WT"
      /\ es' = [es EXCEPT ![e] = s]
  BY <1>1, <1>4, <1>5, <1>51, <1>6, <1>7, Taken, Zenon DEF SessionOpen
<1>9. /\ Quiet /\ UNCHANGED <<freed, commitDepth, late, told>>
      /\ streams' = n /\ cbDepth' = k
      /\ freed' \in BOOLEAN /\ (freed' <=> (refs = 0 /\ k = 0))
  <2>1. /\ Quiet /\ UNCHANGED <<freed, commitDepth, late, told>>
        /\ streams' = n /\ cbDepth' = k
    BY <1>5 DEF SessionOpen, Quiet, flags, engine, history
  <2> QED
    BY <2>1, <1>3, <1>4, <1>51 DEF Types
<1>10. PICK f, x : /\ f = [op |-> "open_rest", at |-> e, gen |-> n, x |-> x]
                   /\ x = IF attached
                          THEN {First(Spare \cap LocalSlots \cap FreeHandles)}
                          ELSE {}
  BY Zenon
<1>11. ASSUME x \subseteq Slots
       PROVE  /\ f \in Frame /\ f.op \in OpenOps /\ f.x = x
              /\ f.op = "open_rest"
  <2>1. "open_rest" \in Ops /\ "open_rest" \notin HandleOps
    BY DEF Ops, HandleOps
  <2> QED
    BY <2>1, <1>51, <1>10, <1>11, Zenon DEF Frame, OpenOps
<1>12. CASE ~attached
  <2>1. x = {}
    BY <1>10, <1>12
  <2>2. f \in Frame /\ f.op \in OpenOps /\ f.x = {}
    BY <1>11, <2>1
  <2>3. PICK H, T : H = hs /\ T = told
    OBVIOUS
  <2>4. Opens(q, H, T, f)
    BY <1>2, <2>2 DEF Opens
  <2>5. Accounts(Put(f, q), k, H, T) /\ N(Put(f, q), "committed") = commitDepth
    BY <1>4, <1>5, <2>2, <2>3, <2>4, OpenCall, ZenonT(60)
  <2>6. agenda' = Put(f, q) /\ hs' = H /\ told' = T
    BY <1>5, <1>6, <1>9, <1>10, <1>12, <2>1, <2>3, Zenon
       DEF SessionOpen, Enter, Put
  <2>7. es' \in [Slots -> StreamType] /\ SameLinks
    BY <1>4, <1>8 DEF SameLinks
  <2>8. Linked'
    BY <2>3, <2>6, <2>7, Links
  <2>9. PICK p : p = Put(f, q)
    OBVIOUS
  <2> QED
    BY <1>9, <1>51, <2>5, <2>6, <2>7, <2>8, <2>9, Further
<1>13. CASE attached
  <2>1. PICK h \in Slots : /\ h = First(Spare \cap LocalSlots \cap FreeHandles)
                           /\ hs[h].refs = 0
    <3>1. Spare \cap LocalSlots \cap FreeHandles /= {}
      BY <1>13 DEF SessionOpen
    <3> QED
      BY <3>1, Pools, FirstIn
  <2>2. f \in Frame /\ f.op \in OpenOps /\ f.x = {h} /\ f.op = "open_rest"
    BY <1>10, <1>11, <1>13, <2>1
  <2>3. PICK l \in BOOLEAN : l = TRUE
    BY Zenon
  <2>4. PICK r, t, K, U :
          /\ r = [Acquired(None, bidi, l, n) EXCEPT !.credit = None]
          /\ t = "none"
          /\ K = [hs EXCEPT ![h] = r] /\ U = [told EXCEPT ![h] = t]
    BY Zenon
  <2>5. /\ r \in HandleType /\ r.refs = 1 /\ r.app = 0 /\ r.alive = TRUE
        /\ r.es = None
    <3>1. Fresh(None, bidi, l, n)
      BY <1>1, <1>51 DEF Fresh
    <3>2. NewOnes(NewStream(bidi, l, n), r, None, n)
      BY <1>4, <2>4, <3>1, ReservedNow
    <3> QED
      BY <3>2 DEF NewOnes
  <2>6. Calm(q, d, K, U)
    BY <1>2, <1>4, <1>5, <2>1, <2>4, <2>5, Acquires, Zenon
  <2>7. Unknown(q, hs, told, h)
    BY <1>2, <1>4, <1>5, <2>1, FreeHandle DEF Calm, Ready, Books
  <2>8. admission
    BY <1>4, <1>13 DEF Calm, Ending
  <2>9. Opens(q, K, U, f)
    <3>1. K[h] = r /\ U[h] = "none"
      BY <1>4, <2>4 DEF ToldType
    <3>2. Reserved(K[h], U[h])
      BY <3>1, <2>5 DEF Reserved
    <3> QED
      BY <3>2, <2>2, <2>7, <2>8 DEF Opens, Unknown
  <2>10. /\ Calm(Put(f, q), k, K, U) /\ Put(f, q) /= <<>>
         /\ N(Put(f, q), "committed") = commitDepth
    BY <1>4, <1>5, <2>2, <2>6, <2>8, <2>9, OpenCall
  <2>11. /\ Calm(Put(App, Put(f, q)), k, K, U)
         /\ N(Put(App, Put(f, q)), "committed") = commitDepth
    <3>1. App \in Frame /\ App.op \in NeutralOps
      BY Calls DEF NeutralOps
    <3> QED
      BY <3>1, <2>10, NeutralOn
  <2>12. agenda' = Put(f, q) \/ agenda' = Put(App, Put(f, q))
    <3>1. PICK c : c = <<f>>
      BY Zenon
    <3>2. c \in Seq(Frame) /\ c \o q = Put(f, q)
      BY <3>1, <2>2 DEF Put
    <3>3. PICK p : p = agenda'
      OBVIOUS
    <3>4. p = ((IF Len(c \o q) + 1 < MaxDepth THEN <<App>> ELSE <<>>)
               \o c) \o q
      BY <1>5, <1>6, <1>10, <1>13, <3>1, <3>3, Zenon
         DEF SessionOpen, AppEnter, AppFirst
    <3>5. p = c \o q \/ p = Put(App, c \o q)
      BY <1>4, <1>5, <3>2, <3>4, AppCase, Zenon
    <3> QED
      BY <3>2, <3>3, <3>5
  <2>13. hs' = K
    BY <1>5, <1>13, <2>1, <2>3, <2>4, Zenon DEF SessionOpen
  <2>14. told' = U /\ told' = [told EXCEPT ![h] = t]
    BY <1>4, <1>9, <2>4, <2>7 DEF Unknown, ToldType
  <2>15. Linked' /\ es' \in [Slots -> StreamType]
    <3>1. Tied(h, e, s, r, t)
      BY <1>8, <2>4, <2>5, <2>7, <2>13, <2>14 DEF Tied, Unknown
    <3> QED
      BY <3>1, NewLink
  <2>16. PICK a, b : a = Put(f, q) /\ b = Put(App, Put(f, q))
    OBVIOUS
  <2> QED
    BY <1>5, <1>51, <1>9, <2>10, <2>11, <2>12, <2>13, <2>14, <2>15, <2>16,
       Onward, Zenon
<1> QED
  BY <1>12, <1>13

(* What waits below a call with a reserved handle leaves it alone.         *)
LEMMA Reserves ==
    ASSUME NEW f \in Frame, NEW q \in Seq(Frame), NEW H, NEW T,
           Handles(Put(f, q), H, T), f.op \in OpenOps, f.x /= {}
    PROVE  /\ admission
           /\ \E h \in Slots : /\ f.x = {h} /\ Reserved(H[h], T[h])
                               /\ NoneFor(q, h) /\ NoneOpens(q, h)
<1>1. f \in Waiting(Put(f, q))
  BY PutFacts
<1>2. Relies(H, T, f) /\ Stacked(admission, Put(f, q))
  BY <1>1 DEF Handles
<1>3. PICK h \in Slots : f.x = {h} /\ Reserved(H[h], T[h])
  BY <1>2 DEF Relies
<1>4. \A g \in Waiting(q) : Above(admission, f, g)
  BY <1>2, PutStacked, Zenon
<1>5. NoneFor(q, h) /\ NoneOpens(q, h)
  BY <1>3, <1>4 DEF NoneFor, NoneOpens, Above
<1> QED
  BY <1>2, <1>3, <1>5 DEF Relies

(* The handle that was reserved is given out.                              *)
Giving(f, q, h, e, r, d, K, U) ==
    /\ agenda = Put(f, q) /\ f.op = "open_rest" /\ f.x = {h}
    /\ Reserved(hs[h], told[h]) /\ NoneFor(q, h) /\ NoneOpens(q, h)
    /\ r = [hs[h] EXCEPT !.es = e, !.credit = e] /\ d = cbDepth - 1
    /\ K = [hs EXCEPT ![h] = r] /\ U = [told EXCEPT ![h] = "given"]

(* Its count is still the one reference of the library.                    *)
LEMMA ReservedGiven ==
    ASSUME IInv, NEW f \in Frame, NEW q \in Seq(Frame), NEW h \in Slots,
           NEW e \in Slots, ~Over, sess = "active",
           NEW r, NEW d, NEW K, NEW U, Giving(f, q, h, e, r, d, K, U)
    PROVE  /\ Calm(q, d, K, U) /\ told[h] = "none"
           /\ r.alive /\ r.es = e
<1> USE DEF Giving
<1>1. /\ Accounts(Put(f, q), cbDepth, hs, told) /\ cbDepth \in Int
      /\ hs \in [Slots -> HandleType] /\ HandleSound(Put(f, q), hs, told, h)
  BY DEF IInv, Accounts, Books, Handles
<1>2. /\ hs[h].alive /\ hs[h].refs = 1 /\ hs[h].app = 0 /\ told[h] = "none"
  BY DEF Reserved
<1>3. PICK t : t = "given"
  OBVIOUS
<1>4. /\ r \in HandleType /\ r.refs = 1 /\ r.app = 0 /\ r.alive /\ r.es = e
      /\ r.gen = hs[h].gen /\ r.app = hs[h].app
  BY <1>1, <1>2, ZenonT(60) DEF HandleType
<1>5. HandleSound(q, hs, told, h)
  BY <1>1, OpenFrame, Zenon DEF OpenOps
<1>6. PICK cm \in Nat, sr \in Nat, dp \in Nat, ce \in Nat :
        /\ cm = M(q, "committed", h) /\ sr = M(q, "slot_release", h)
        /\ dp = M(q, "drop", h) /\ ce = M(q, "commit_end", h)
  BY CountRange, Zenon
<1>7. Sound(1, 0, hs[h].alive, told[h], cm, sr, dp + ce)
  BY <1>2, <1>5, <1>6, Zenon DEF HandleSound, Holds
<1>8. Bit(hs[h].alive) = 1 /\ Bit(r.alive) = 1
  BY <1>2, <1>4 DEF Bit
<1>9. 1 >= 0 + 1 + 2 * cm + sr + (dp + ce)
  BY <1>2, <1>7, <1>8, Zenon DEF Sound, Balanced, Settled
<1>10. cm = 0 /\ sr = 0 /\ dp + ce = 0
  BY <1>9
<1>11. Sound(1, 0, r.alive, t, 0, 0, 0)
  BY <1>3, <1>4, <1>8 DEF Sound, Balanced
<1>12. Sound(r.refs, r.app, r.alive, t, M(q, "committed", h),
             M(q, "slot_release", h), Holds(q, h))
  BY <1>4, <1>6, <1>10, <1>11 DEF Holds
<1>13. MayTell(told, h, r, t)
  BY <1>3 DEF MayTell
<1>14. PICK k : k = d
  OBVIOUS
<1>15. f.op \in HandleOps \cup OpenOps \cup {"exit"} /\ f.op \notin HandleOps
       /\ f.op /= "committed" /\ f.op \in OpenOps /\ f.op \in BracketOps
  BY DEF OpenOps, HandleOps, BracketOps
<1>16. Ready(q, cbDepth - Bit(f.op \in BracketOps), K, U)
  <2>1. PICK H, T, c : H = hs /\ T = told /\ c = cbDepth
    OBVIOUS
  <2>2. /\ f.op \in HandleOps => f.at = h
        /\ f.op = "committed" => t /= "given"
        /\ r.gen = H[h].gen \/ NoneFor(q, h)
        /\ StillReserved(H, T, h, r, t) \/ NoneOpens(q, h)
        /\ r.app = H[h].app /\ MayTell(T, h, r, t)
    BY <2>1, <1>4, <1>13, <1>15
  <2>3. Accounts(Put(f, q), c, H, T)
    BY <2>1, <1>1
  <2>4. Ready(q, c - Bit(f.op \in BracketOps),
              [H EXCEPT ![h] = r], [T EXCEPT ![h] = t])
    BY <2>2, <2>3, <1>4, <1>12, <1>15, Pop, Zenon
  <2> QED
    BY <2>1, <2>4, <1>3
<1>17. cbDepth - Bit(f.op \in BracketOps) = d
  BY <1>15 DEF Bit
<1>18. Ending(q)
  BY <1>1, <1>15, OpenFrame, Zenon DEF Accounts
<1> QED
  BY <1>2, <1>4, <1>16, <1>17, <1>18 DEF Calm

(* The stream did not come up: the error path is still to run.             *)
LEMMA OpenFails ==
    ASSUME IInv, ~freed, Quiet, NEW q \in Seq(Frame), NEW d \in Nat,
           Calm(q, d, hs, told), N(q, "committed") = commitDepth,
           NEW k \in Nat, k = d + 1, NEW f \in Frame, f.op = "open_failed",
           Opens(q, hs, told, f),
           agenda' = Put(f, q) \/ agenda' = Put(Call("conn_fatal"), Put(f, q)),
           NEW e \in Slots, NEW s \in StreamType, s.kind /= "WT",
           es' = [es EXCEPT ![e] = s], cbDepth' = k,
           UNCHANGED <<freed, commitDepth, hs, told, streams, late>>
    PROVE  IInv'
<1>1. PICK c, p : c = Call("conn_fatal") /\ p = Put(f, q)
  OBVIOUS
<1>2. c \in Frame /\ c.op = "conn_fatal" /\ k > 0
  BY <1>1, Calls DEF PlainOps
<1>3. /\ Calm(p, k, hs, told) /\ p /= <<>> /\ N(p, "committed") = commitDepth
  <2>1. PICK H, T : H = hs /\ T = told
    OBVIOUS
  <2>2. f.op \in OpenOps /\ Calm(q, d, H, T) /\ Opens(q, H, T, f)
    BY <2>1 DEF OpenOps
  <2>3. /\ Calm(Put(f, q), d + 1, H, T) /\ Put(f, q) /= <<>>
        /\ N(Put(f, q), "committed") = N(q, "committed")
    BY <2>2, OpenCall, Zenon
  <2> QED
    BY <1>1, <2>1, <2>3
<1>4. Calm(Put(c, p), k, hs, told) /\ N(Put(c, p), "committed") = commitDepth
  BY <1>2, <1>3, NeutralOn
<1>5. es' \in [Slots -> StreamType] /\ SameLinks
  BY DEF IInv, Types, SameLinks
<1>6. PICK b : b = Put(c, p)
  OBVIOUS
<1> QED
  BY <1>1, <1>2, <1>3, <1>4, <1>5, <1>6, Proceeds

(* Behind the driver's open.                                               *)
LEMMA OpenRestStep ==
    ASSUME IInv, OpenRest
    PROVE  IInv'
<1>1. agenda /= <<>> /\ Head(agenda).op = "open_rest"
  BY DEF OpenRest, At
<1>2. PICK f \in Frame, q \in Seq(Frame) :
        f = Head(agenda) /\ q = Tail(agenda) /\ agenda = Put(f, q)
  BY <1>1, OnTop, Zenon
<1>3. /\ f.op = "open_rest" /\ f.op \in OpenOps /\ ~freed
      /\ Accounts(Put(f, q), cbDepth, hs, told) /\ cbDepth \in Nat
      /\ cbDepth > 0 /\ hs \in [Slots -> HandleType]
      /\ es \in [Slots -> StreamType] /\ told \in ToldType /\ Types
  <2>1. cbDepth \in Nat /\ (agenda = <<>> <=> cbDepth = 0)
    BY Numbers
  <2>2. cbDepth > 0
    BY <2>1, <1>1
  <2> QED
    BY <1>1, <1>2, <2>1, <2>2, OnTop, Numbers, Zenon DEF IInv, OpenOps, Types
<1>4. PICK d \in Nat : d = cbDepth - 1
  BY <1>3
<1>5. PICK e \in Slots, n \in Nat, x \in SUBSET Slots :
        e = f.at /\ n = f.gen /\ x = f.x
  BY <1>3 DEF Frame
<1>6. /\ Calm(q, d, hs, told) /\ N(q, "committed") = commitDepth
  BY <1>2, <1>3, <1>4, OpenPop, OpenFrame, Zenon DEF IInv
<1>7. PICK l \in BOOLEAN : l = TRUE
  BY Zenon
<1>8. PICK live, b : live = NewStream(b, l, n) /\ b = es[e].bidi
  OBVIOUS
<1>9. live \in StreamType /\ live.user = None
  <2>1. b \in BOOLEAN
    BY <1>3, <1>8 DEF StreamType
  <2>2. Fresh(e, b, l, n)
    BY <2>1 DEF Fresh
  <2>3. NewOnes(live, Acquired(e, b, l, n), e, n)
    BY <1>3, <1>8, <2>2, NewTypes
  <2> QED
    BY <2>3 DEF NewOnes
<1>10. PICK g : g = [Call("open_failed") EXCEPT !.x = x]
  BY Zenon
<1>11. g \in Frame /\ g.op = "open_failed" /\ g.x = x
  BY <1>10, Calls, Zenon DEF SlotSetOps
<1>12. Handles(Put(f, q), hs, told)
  BY <1>3 DEF Accounts, Books
<1>13. x /= {} =>
         /\ admission
         /\ \E h \in Slots : /\ x = {h} /\ Reserved(hs[h], told[h])
                             /\ NoneFor(q, h) /\ NoneOpens(q, h)
  BY <1>3, <1>5, <1>12, Reserves
<1>14. Opens(q, hs, told, g)
  BY <1>11, <1>13 DEF Opens
<1>15. /\ Quiet /\ UNCHANGED <<freed, commitDepth, late, streams>>
       /\ cbDepth' = d + 1 /\ streams' \in Nat
  <2>1. /\ Quiet /\ UNCHANGED <<freed, commitDepth, late, streams, cbDepth>>
    BY DEF OpenRest, Quiet, count, flags, engine
  <2> QED
    BY <2>1, <1>3, <1>4 DEF Types
<1>16. PICK dead : dead = (admission /\ (closed \/ sess /= "active"))
  OBVIOUS
<1>17. \/ /\ hs' = hs /\ told' = told
          /\ \/ es' = [es EXCEPT ![e] = NoStream] /\ Then(<<g>>)
             \/ es' = [es EXCEPT ![e] = Released(es[e])] /\ Then(<<g>>)
             \/ /\ es' = [es EXCEPT ![e] = Released(live)]
                /\ Then(<<Call("conn_fatal"), g>>)
       \/ /\ ~dead /\ (x /= {} \/ FreeHandles /= {})
          /\ \E h : /\ h = First(IF x /= {} THEN x ELSE FreeHandles)
                    /\ hs' = [hs EXCEPT ![h] =
                                IF x /= {}
                                THEN [hs[h] EXCEPT !.es = e, !.credit = e]
                                ELSE Acquired(e, b, l, n)]
                    /\ es' = [es EXCEPT ![e] = [live EXCEPT !.user = h,
                                                      !.lease = attached]]
                    /\ told' = [told EXCEPT ![h] = "given"]
          /\ Then(<<Exit>>)
       \/ Refuse(e, live, q) /\ UNCHANGED <<hs, told>>
  BY <1>2, <1>5, <1>7, <1>8, <1>10, <1>16, Zenon DEF OpenRest, This
<1>18. CASE /\ hs' = hs /\ told' = told
            /\ \/ es' = [es EXCEPT ![e] = NoStream] /\ Then(<<g>>)
               \/ es' = [es EXCEPT ![e] = Released(es[e])] /\ Then(<<g>>)
               \/ /\ es' = [es EXCEPT ![e] = Released(live)]
                  /\ Then(<<Call("conn_fatal"), g>>)
  <2>1. PICK k \in Nat : k = d + 1
    OBVIOUS
  <2>2. /\ NoStream \in StreamType /\ NoStream.kind /= "WT"
        /\ \A r \in StreamType : /\ Released(r) \in StreamType
                                 /\ Released(r).kind /= "WT"
    <3>1. NoStream \in StreamType
      BY DEF NoStream, StreamType
    <3>2. NoStream.kind = "FREE"
      BY DEF NoStream
    <3>3. \A r \in StreamType : Released(r) \in StreamType
      BY StreamFollows, Zenon DEF Follows
    <3>4. \A r \in StreamType : Released(r).kind = "FREE"
      BY DEF Released, NoStream
    <3> QED
      BY <3>1, <3>2, <3>3, <3>4
  <2>3. PICK s \in StreamType :
          s.kind /= "WT" /\ es' = [es EXCEPT ![e] = s]
    BY <1>3, <1>9, <1>18, <2>2
  <2>4. agenda' = Put(g, q) \/ agenda' = Put(Call("conn_fatal"), Put(g, q))
    <3>1. Call("conn_fatal") \in Frame
      BY Calls DEF PlainOps
    <3>2. PICK c \in Frame : c = Call("conn_fatal")
      BY <3>1
    <3>3. agenda' = <<g>> \o q \/ agenda' = <<c, g>> \o q
      BY <1>2, <1>18, <3>2 DEF Then
    <3>4. <<c, g>> \o q = Put(c, Put(g, q))
      BY <1>11, PutTwo
    <3> QED
      BY <3>2, <3>3, <3>4 DEF Put
  <2> QED
    BY <1>3, <1>6, <1>11, <1>14, <1>15, <1>18, <2>1, <2>3, <2>4, OpenFails,
       Zenon
<1>19. ASSUME NEW h,
              ~dead, x /= {} \/ FreeHandles /= {},
              h = First(IF x /= {} THEN x ELSE FreeHandles),
              hs' = [hs EXCEPT ![h] =
                       IF x /= {} THEN [hs[h] EXCEPT !.es = e, !.credit = e]
                                  ELSE Acquired(e, b, l, n)],
              es' = [es EXCEPT ![e] = [live EXCEPT !.user = h,
                                                   !.lease = attached]],
              told' = [told EXCEPT ![h] = "given"],
              Then(<<Exit>>)
       PROVE  IInv'
  <2>1. ~Over /\ sess = "active"
    <3>1. N(agenda, "open_rest") > 0
      <4>1. /\ N(Put(f, q), "open_rest")
                  = N(q, "open_rest") + Bit(f.op = "open_rest")
            /\ N(q, "open_rest") \in Nat
        BY PutFacts
      <4>2. Bit(f.op = "open_rest") = 1
        BY <1>3 DEF Bit
      <4> QED
        BY <4>1, <4>2, <1>2
    <3>2. ~admission => sess = "active" /\ ~closed
      BY <3>1 DEF IInv, Accounts, Ending
    <3> QED
      BY <3>2, <1>16, <1>19, Zenon DEF Over
  <2>2. agenda' = Put(Exit, q)
    BY <1>2, <1>19 DEF Then, Put
  <2>3. PICK s, t, U : /\ s = [live EXCEPT !.user = h, !.lease = attached]
                       /\ t = "given" /\ U = [told EXCEPT ![h] = t]
    BY Zenon
  <2>4. ASSUME NEW r, hs' = [hs EXCEPT ![h] = r], r.alive, r.es = e,
               h \in Slots, told[h] = "none",
               NEW K, K = [hs EXCEPT ![h] = r], Calm(q, d, K, U)
        PROVE  IInv'
    <3>1. s \in StreamType /\ s.user = h
      BY <1>3, <1>9, <2>3, <2>4, WithUser, ZenonT(60) DEF Types
    <3>2. /\ es' = [es EXCEPT ![e] = s] /\ hs' = K /\ told' = U
          /\ U = [told EXCEPT ![h] = "given"]
      BY <1>19, <2>3, <2>4, Zenon
    <3> QED
      BY <1>3, <1>6, <1>15, <2>2, <2>4, <3>1, <3>2, OpensUp, ZenonT(60)
  <2>5. CASE x /= {}
    <3>1. PICK i \in Slots : /\ x = {i} /\ Reserved(hs[i], told[i])
                             /\ NoneFor(q, i) /\ NoneOpens(q, i)
      BY <1>13, <2>5
    <3>2. h = i
      BY <1>19, <2>5, <3>1, OneSlot
    <3>3. PICK r, K : /\ r = [hs[h] EXCEPT !.es = e, !.credit = e]
                      /\ K = [hs EXCEPT ![h] = r]
      BY Zenon
    <3>4. U = [told EXCEPT ![h] = "given"]
      BY <2>3
    <3>5. Calm(q, d, K, U) /\ told[h] = "none" /\ r.alive /\ r.es = e
      <4>1. Giving(f, q, h, e, r, d, K, U)
        BY <1>2, <1>3, <1>4, <1>5, <3>1, <3>2, <3>3, <3>4 DEF Giving
      <4> QED
        BY <2>1, <3>1, <3>2, <4>1, ReservedGiven
    <3> QED
      BY <1>19, <2>4, <2>5, <3>1, <3>2, <3>3, <3>5, Zenon
  <2>6. CASE x = {}
    <3>1. h \in Slots /\ hs[h].refs = 0
      <4>1. FreeHandles \subseteq Slots /\ FreeHandles /= {}
        BY <1>19, <2>6, Pools
      <4>2. First(FreeHandles) \in FreeHandles
        BY <4>1, FirstIn
      <4> QED
        BY <1>19, <2>6, <4>2, Pools
    <3>2. PICK r, K : /\ r = Acquired(e, b, l, n)
                      /\ K = [hs EXCEPT ![h] = r]
      BY Zenon
    <3>3. /\ r \in HandleType /\ r.refs = 1 /\ r.app = 0 /\ r.alive = TRUE
          /\ r.es = e
      <4>1. b \in BOOLEAN
        BY <1>3, <1>8 DEF StreamType
      <4>2. Fresh(e, b, l, n)
        BY <4>1 DEF Fresh
      <4>3. NewOnes(NewStream(b, l, n), r, e, n)
        BY <1>3, <3>2, <4>2, NewTypes
      <4> QED
        BY <4>3 DEF NewOnes
    <3>4. t \in {"none", "given"}
      BY <2>3
    <3>5. Calm(q, d, K, U)
      BY <1>6, <2>1, <2>3, <3>1, <3>2, <3>3, <3>4, Acquires, Zenon
    <3>6. told[h] = "none"
      BY <1>6, <2>1, <3>1, FreeHandle DEF Calm, Ready, Books, Unknown
    <3> QED
      BY <1>19, <2>4, <2>6, <3>1, <3>2, <3>3, <3>5, <3>6, Zenon
  <2> QED
    BY <2>5, <2>6
<1>20. CASE Refuse(e, live, q) /\ UNCHANGED <<hs, told>>
  BY <1>3, <1>6, <1>9, <1>15, <1>20, Refuses
<1> QED
  BY <1>17, <1>18, <1>19, <1>20, Zenon

-----------------------------------------------------------------------------
(* The invariant holds.                                                    *)

(* At the start nothing waits and nothing was told.                        *)
LEMMA InitIInv == Init => IInv
<1> SUFFICES ASSUME Init
             PROVE  IInv
  OBVIOUS
<1>1. /\ admission \in BOOLEAN /\ appRefs \in {0, 1} /\ refs = appRefs + 1
      /\ cbDepth = 0 /\ ~freed /\ freed \in BOOLEAN /\ backend
      /\ backend \in BOOLEAN /\ attached = admission /\ ~running
      /\ running \in BOOLEAN /\ ~terminal /\ terminal \in BOOLEAN
      /\ commitDepth = 0 /\ ~deferred /\ deferred \in BOOLEAN
      /\ sess = "none" /\ ~closed /\ closed \in BOOLEAN
      /\ hs = [h \in Slots |-> NoHandle] /\ es = [e \in Slots |-> NoStream]
      /\ streams = 0 /\ agenda = <<>> /\ told = [h \in Slots |-> "none"]
      /\ outcome = "none" /\ late = FALSE
  BY ApiAssumption, Zenon DEF Init
<1>2. /\ NoHandle \in HandleType /\ NoHandle.refs = 0 /\ NoHandle.app = 0
      /\ ~NoHandle.alive
  BY DEF NoHandle, HandleType
<1>3. NoStream \in StreamType /\ NoStream.kind = "FREE"
  BY DEF NoStream, StreamType
<1>4. Types
  BY <1>1, <1>3 DEF Types
<1>5. PICK q : q = agenda
  OBVIOUS
<1>6. /\ q \in Seq(Frame) /\ Waiting(q) = {} /\ Len(q) = 0
      /\ \A op, h : N(q, op) = 0 /\ M(q, op, h) = 0
  BY <1>1, <1>5, EmptyStack
<1>7. Brackets(q) = 0
  BY <1>1, <1>5, <1>6, Calls, PutBrackets, Zenon
<1>8. Tokens(hs) = {}
  BY <1>1, <1>2 DEF Tokens
<1>9. Counted(q, 0, hs)
  <2>1. IsFiniteSet(Tokens(hs)) /\ Cardinality(Tokens(hs)) = 0
    BY <1>8, FS_EmptySet
  <2> QED
    BY <2>1, <1>1, <1>6, <1>7 DEF Counted, Bit
<1>10. Ending(q)
  BY <1>1, <1>6 DEF Ending, Bit
<1>11. Handles(q, hs, told)
  <2>1. Stacked(admission, q)
    BY <1>1, <1>5, <1>6 DEF Stacked
  <2>2. Sound(0, 0, FALSE, "none", 0, 0, 0)
    BY DEF Sound, Balanced, Bit
  <2>3. ASSUME NEW h \in Slots
        PROVE  HandleSound(q, hs, told, h)
    <3>1. /\ hs[h].refs = 0 /\ hs[h].app = 0 /\ hs[h].alive = FALSE
          /\ told[h] = "none"
      BY <1>1 DEF NoHandle
    <3>2. Holds(q, h) = 0
      BY <1>6 DEF Holds
    <3> QED
      BY <2>2, <3>1, <3>2, <1>6, Zenon DEF HandleSound
  <2>4. hs \in [Slots -> HandleType] /\ told \in ToldType
    BY <1>1, <1>2 DEF ToldType
  <2> QED
    BY <2>1, <2>3, <2>4, <1>6 DEF Handles
<1>12. Telling(q, hs, told)
  BY <1>1, <1>2, <1>6 DEF Telling
<1>13. \A h \in Slots : TornLater(q, told, h)
  BY <1>1 DEF TornLater
<1>14. Accounts(q, cbDepth, hs, told)
  BY <1>1, <1>9, <1>10, <1>11, <1>12, <1>13 DEF Accounts, Books
<1>15. Linked
  BY <1>1, <1>2, <1>3 DEF Linked
<1>16. commitDepth = N(agenda, "committed")
  BY <1>1, <1>5, <1>6
<1>17. freed <=> (refs = 0 /\ cbDepth = 0)
  BY <1>1
<1> QED
  BY <1>1, <1>4, <1>5, <1>14, <1>15, <1>16, <1>17 DEF IInv

(* A step that changes nothing.                                            *)
LEMMA Stutters ==
    ASSUME IInv, UNCHANGED vars
    PROVE  IInv'
<1>1. /\ Quiet /\ agenda' = agenda /\ cbDepth' = cbDepth /\ hs' = hs
      /\ told' = told /\ freed' = freed /\ streams' = streams /\ es' = es
      /\ commitDepth' = commitDepth /\ late' = late
  BY DEF vars, count, flags, engine, history, Quiet
<1>2. PICK q, d, H, T : q = agenda /\ d = cbDepth /\ H = hs /\ T = told
  OBVIOUS
<1>3. /\ Accounts(q, d, H, T) /\ agenda' = q /\ cbDepth' = d /\ hs' = H
      /\ told' = T /\ commitDepth' = N(q, "committed")
  BY <1>1, <1>2 DEF IInv
<1>4. /\ freed' \in BOOLEAN /\ streams' \in Nat
      /\ es' \in [Slots -> StreamType]
  BY <1>1 DEF IInv, Types
<1>5. freed' <=> (refs = 0 /\ d = 0)
  BY <1>1, <1>2 DEF IInv
<1>6. SameLinks
  BY <1>1 DEF SameLinks
<1>7. Linked'
  BY <1>1, <1>6, Links
<1> QED
  BY <1>1, <1>3, <1>4, <1>5, <1>7, Further

(* One step of Next.                                                       *)
LEMMA LibrarySteps ==
    ASSUME IInv, LibraryStep
    PROVE  IInv'
BY SessionExitStep, DropAndExitStep, SettleStep, SlotReleaseStep,
   StreamsTeardownStep, AdaptSessionClosedStep, AdaptConnErrorStep,
   AdaptFailedStep, TellSessionClosedStep, TellSessionFailedStep,
   EngineRestStep, ConnFatalStep, SessionClosedStep, EngineTeardownStep,
   EngineTornStep, SendCommittedStep, CommitEndStep, BackendReleaseStep,
   ServiceDoneStep, OpenRestStep, OpenFailedStep, ResumeDoneStep
   DEF LibraryStep

(* The backend's deliveries.                                               *)
LEMMA BackendInputs ==
    ASSUME IInv, BackendInput
    PROVE  IInv'
<1>1. CASE SessionRefused \/ PeerCloses \/ ConnLost
  BY <1>1, EndingInputStep DEF SessionRefused, PeerCloses, ConnLost
<1>2. CASE Establish \/ Notify \/ BackendQuits \/ Service
  BY <1>2, EstablishStep, NotifyStep, BackendQuitsStep, ServiceStep
<1>3. CASE \E b \in PeerDirs : OnPeerOpened(b)
  BY <1>3, OnPeerOpenedStep
<1>4. ASSUME NEW e \in Slots,
             \/ OnDrained(e) \/ OnStreamReset(e) \/ OnStopSending(e)
             \/ OnStreamWritable(e) \/ OnStreamTerminal(e) \/ Retire(e)
      PROVE  IInv'
  BY <1>4, DrainedStep, StreamResetStep, StopSendingStep, StreamWritableStep,
     StreamTerminalStep, RetireStep
<1>5. ASSUME NEW e \in Slots, NEW b \in BOOLEAN,
             OnStreamData(e, b) \/ OnSendShutdown(e, b)
      PROVE  IInv'
  BY <1>5, StreamDataStep, SendShutdownStep, Zenon
<1> QED
  BY <1>1, <1>2, <1>3, <1>4, <1>5 DEF BackendInput

(* The application's operations.                                           *)
LEMMA AppOperations ==
    ASSUME IInv, AppOperation
    PROVE  IInv'
<1>1. CASE AppReturns \/ SessionAddRef \/ SessionRelease \/ SessionClose
  BY <1>1, AppReturnsStep, SessionAddRefStep, SessionReleaseStep,
     SessionCloseStep
<1>2. CASE \E b \in LocalDirs : SessionOpen(b)
  BY <1>2, SessionOpenStep
<1>3. ASSUME NEW h \in Slots,
             \/ StreamAddRef(h) \/ StreamRelease(h)
             \/ EnableSendCommit(h) \/ Resume(h)
      PROVE  IInv'
  BY <1>3, StreamAddRefStep, StreamReleaseStep, EnableCommitStep, ResumeStep
<1>4. ASSUME NEW h \in Slots, NEW b \in BOOLEAN, StreamSend(h, b)
      PROVE  IInv'
  BY <1>4, StreamSendStep, Zenon
<1>5. ASSUME NEW h \in Slots, NEW x \in SUBSET Halves, StreamShut(h, x)
      PROVE  IInv'
  BY <1>5, StreamShutStep
<1> QED
  BY <1>1, <1>2, <1>3, <1>4, <1>5 DEF AppOperation

(* Every behaviour keeps the accounts.                                     *)
THEOREM AccountsHold == Spec => []IInv
<1>1. IInv /\ [Next]_vars => IInv'
  BY Stutters, LibrarySteps, BackendInputs, AppOperations DEF Next
<1> QED
  BY <1>1, InitIInv, PTL DEF Spec

-----------------------------------------------------------------------------
(* What they say.                                                          *)

(* The session is destroyed when, and only when, nobody owns it and no     *)
(* call of the library is left on the stack.                               *)
LEMMA Unowned == IInv => FreedWhenUnowned
<1> SUFFICES ASSUME IInv
             PROVE  FreedWhenUnowned
  OBVIOUS
<1>1. /\ agenda = <<>> <=> cbDepth = 0
      /\ hs \in [Slots -> HandleType]
  BY Numbers
<1>2. PICK n \in Nat : n = Cardinality(Tokens(hs))
  BY FS_CardinalityType DEF IInv, Accounts, Books, Counted
<1>3. /\ refs = Bit(backend) + Bit(running) + appRefs + n
      /\ n = 0 <=> Tokens(hs) = {}
      /\ backend \in BOOLEAN /\ running \in BOOLEAN /\ appRefs \in Nat
  BY <1>2, FS_EmptySet DEF IInv, Accounts, Books, Counted, Types
<1>4. Tokens(hs) = {} <=> \A h \in Slots : ~(hs[h].app > 0)
  <2>1. \A h \in Slots : hs[h].app \in Nat
    BY <1>1 DEF HandleType
  <2>2. \A h \in Slots : hs[h].app > 0 => <<h, 1>> \in Tokens(hs)
    BY <2>1 DEF Tokens
  <2>3. ASSUME \A h \in Slots : ~(hs[h].app > 0)
        PROVE  Tokens(hs) = {}
    BY <2>1, <2>3 DEF Tokens
  <2> QED
    BY <2>2, <2>3, Zenon
<1>5. ASSUME freed
      PROVE  ~Owned /\ Idle /\ \A h \in Slots : told[h] = "none"
  <2>1. refs = 0 /\ agenda = <<>>
    BY <1>1, <1>5 DEF IInv
  <2>2. ~backend /\ appRefs = 0 /\ n = 0
    BY <1>3, <2>1 DEF Bit
  <2>3. \A h \in Slots : told[h] = "none"
    BY <2>1, <2>2, AtRest, Zenon
  <2> QED
    BY <1>3, <1>4, <2>1, <2>2, <2>3 DEF Owned, Idle
<1>6. ASSUME Idle, ~Owned
      PROVE  freed
  <2>1. ~backend /\ ~(appRefs > 0) /\ n = 0 /\ agenda = <<>>
    BY <1>3, <1>4, <1>6 DEF Owned, Idle
  <2>2. ~running
    BY <2>1, AtRest
  <2>3. refs = 0 /\ cbDepth = 0
    BY <1>1, <1>3, <2>1, <2>2 DEF Bit
  <2> QED
    BY <2>3 DEF IInv
<1> QED
  BY <1>5, <1>6 DEF FreedWhenUnowned

(* A call that works on a handle finds it as it was, and counted.          *)
LEMMA StillTheSame == IInv => HandlesNotRecycled
<1> SUFFICES ASSUME IInv, NEW i \in DOMAIN agenda,
                    agenda[i].op \in HandleOps
             PROVE  /\ hs[agenda[i].at].gen = agenda[i].gen
                    /\ hs[agenda[i].at].refs > 0
  BY DEF HandlesNotRecycled
<1>1. /\ agenda \in Seq(Frame) /\ Stacked(admission, agenda)
      /\ hs \in [Slots -> HandleType]
      /\ \A h \in Slots : HandleSound(agenda, hs, told, h)
      /\ \A f \in Waiting(agenda) : Relies(hs, told, f)
  BY DEF IInv, Accounts, Books, Handles
<1>2. i \in 1..Len(agenda)
  BY <1>1
<1>3. PICK f, h : f = agenda[i] /\ h = agenda[i].at
  OBVIOUS
<1>4. f \in Waiting(agenda) /\ f \in Frame
  BY <1>1, <1>2, <1>3 DEF Waiting
<1>5. h \in Slots /\ f.at = h /\ f.op \in HandleOps
  BY <1>3, <1>4 DEF Frame
<1>6. hs[h].gen = f.gen
  BY <1>1, <1>4, <1>5 DEF Relies
<1>7. PICK g \in Waiting(agenda) :
        g.op \in HandleOps /\ g.op /= "settle" /\ g.at = h
  <2>1. CASE f.op = "settle"
    <3>1. PICK j \in 1..Len(agenda) : Holder(f, agenda[j])
      BY <2>1, <1>1, <1>2, <1>3 DEF Stacked
    <3> QED
      BY <3>1, <1>5 DEF Holder, Waiting, HandleOps
  <2> QED
    BY <2>1, <1>4, <1>5
<1>8. PICK cm \in Nat, sr \in Nat, dp \in Nat, ce \in Nat :
        /\ cm = M(agenda, "committed", h)
        /\ sr = M(agenda, "slot_release", h)
        /\ dp = M(agenda, "drop", h) /\ ce = M(agenda, "commit_end", h)
  BY <1>1, CountRange, Zenon
<1>9. cm > 0 \/ sr > 0 \/ dp > 0 \/ ce > 0
  BY <1>1, <1>7, <1>8, CountRange, Zenon DEF HandleOps
<1>10. PICK n \in Nat, a \in Nat, b \in {0, 1} :
         n = hs[h].refs /\ a = hs[h].app /\ b = Bit(hs[h].alive)
  <2>1. Bit(hs[h].alive) \in {0, 1}
    BY DEF Bit
  <2> QED
    BY <1>1, <1>5, <2>1 DEF HandleType
<1>11. \/ n >= a + b + 2 * cm + sr + (dp + ce)
       \/ cm = 0 /\ sr = 0 /\ dp + ce = 0
  BY <1>1, <1>5, <1>8, <1>10
     DEF HandleSound, Holds, Sound, Balanced, Settled
<1>12. n > 0
  BY <1>9, <1>11
<1> QED
  BY <1>3, <1>6, <1>10, <1>12

(* One outcome, behind every stream's close, and no event out of order.    *)
LEMMA InOrder == IInv => EventsInOrder
<1> SUFFICES ASSUME IInv
             PROVE  EventsInOrder
  OBVIOUS
<1>1. ExactlyOneOutcome
  BY AtRest, Zenon DEF ExactlyOneOutcome, Idle, IInv, Types
<1>2. ClosedLast
  BY Zenon DEF ClosedLast, IInv, Accounts, Books, Telling
<1>3. StreamEventsInOrder
  BY Numbers, Zenon DEF StreamEventsInOrder, ToldType, IInv
<1> QED
  BY <1>1, <1>2, <1>3 DEF EventsInOrder

(* FreedWhenUnowned: session_unref and session_exit destroy the session    *)
(* when nobody owns a reference and no call is left on the stack, for      *)
(* every number of slots, streams and references and both pool modes.      *)
THEOREM SessionLifetime == Spec => []FreedWhenUnowned
BY AccountsHold, Unowned, PTL

(* EventsInOrder: terminal_fired lets one outcome through, every stream's  *)
(* on_stream_closed comes before on_closed, and no stream event comes      *)
(* before the handle was given out or behind its close.                    *)
THEOREM OrderedEvents == Spec => []EventsInOrder
BY AccountsHold, InOrder, PTL

(* HandlesNotRecycled, the part of HandlesStay about stream_hold: while a  *)
(* function of the library works on a handle its slot is not reused.       *)
THEOREM HeldHandles == Spec => []HandlesNotRecycled
BY AccountsHold, StillTheSame, PTL

-----------------------------------------------------------------------------
(* Leases, in admission mode.  A handle and the engine slot behind it have *)
(* the same index; an engine slot stays occupied while its handle or a     *)
(* call that will come back to it needs it.                                *)

(* The backend's service runs below every other call.                      *)
Lone(q) == \A i \in 1..Len(q) : q[i].op = "service" => i = Len(q)

(* Handle r and engine stream s of slot h, with the driver attached (a) or *)
(* not: a live handle keeps its stream's slot by the lease.                *)
Fits(a, r, s, h) ==
    /\ r.es \in {None, h} /\ r.credit \in {None, h} /\ s.user \in {None, h}
    /\ s.kind /= "FREE" => s.resident
    /\ r.alive /\ r.es = h => s.kind = "FREE" \/ (s.kind = "WT" /\ s.user = h)
    /\ r.refs = 0 => r.credit = None
    /\ a /\ r.credit = h => s.lease /\ s.resident /\ s.kind /= "RESERVED"
    /\ a /\ r.alive /\ r.es = h => r.credit = h

(* A handle in use without a lease is one that session_open reserved.      *)
InOpen(h) ==
    attached /\ ~Over /\ hs[h].refs > 0 /\ hs[h].credit = None =>
        \E f \in Waiting(agenda) : f.op \in OpenOps /\ f.x = {h}

(* What a waiting call needs of the engine slot it comes back to.          *)
Needs(f) ==
    /\ f.op = "open_rest" => f.x = {f.at} /\ es[f.at].kind = "RESERVED"
    /\ f.op = "open_failed" => f.x /= {}
    /\ f.op = "open_failed" /\ ~Over =>
         \/ Head(agenda) = f
         \/ Head(agenda).op = "conn_fatal" /\ \A h \in f.x : es[h].resident
    /\ f.op \in StreamOps => es[f.at].resident /\ es[f.at].kind /= "RESERVED"

Leased == admission =>
    /\ attached \/ ~backend
    /\ \A h \in Slots : Fits(attached, hs[h], es[h], h) /\ InOpen(h)
    /\ Lone(agenda)
    /\ \A f \in Waiting(agenda) : Needs(f)

-----------------------------------------------------------------------------
(* What the invariant has of types and counts, in this state and the next. *)
Typing ==
    /\ hs \in [Slots -> HandleType] /\ es \in [Slots -> StreamType]
    /\ agenda \in Seq(Frame) /\ Waiting(agenda) \subseteq Frame
    /\ attached \in BOOLEAN /\ backend \in BOOLEAN /\ admission \in BOOLEAN
    /\ ~backend => closed
AliveCounted == \A h \in Slots : hs[h].alive => hs[h].refs > 0

LEMMA Typed == IInv => Typing
<1> SUFFICES ASSUME IInv
             PROVE  Typing
  OBVIOUS
<1>1. agenda \in Seq(Frame) /\ hs \in [Slots -> HandleType]
  BY Numbers
<1>2. Waiting(agenda) \subseteq Frame
  BY <1>1 DEF Waiting
<1> QED
  BY <1>1, <1>2 DEF IInv, Types, Accounts, Ending, Typing

LEMMA TypedNext == IInv' => Typing'
BY Typed, PTL

(* The count of a handle covers the library's reference and those of the   *)
(* application, while the session runs.                                    *)
LEMMA Counts ==
    ASSUME IInv, NEW h \in Slots
    PROVE  /\ hs[h].alive => hs[h].refs > 0
           /\ ~Over /\ hs[h].refs = 0 => hs[h].app = 0
<1>1. /\ hs \in [Slots -> HandleType] /\ agenda \in Seq(Frame)
      /\ HandleSound(agenda, hs, told, h)
  BY Typed DEF IInv, Accounts, Books, Handles, Typing
<1>2. PICK r, a, b, c :
        /\ r = hs[h] /\ r \in HandleType /\ a = M(agenda, "committed", h)
        /\ b = M(agenda, "slot_release", h) /\ c = Holds(agenda, h)
  BY <1>1
<1>3. /\ M(agenda, "committed", h) \in Nat
      /\ M(agenda, "slot_release", h) \in Nat
      /\ M(agenda, "drop", h) \in Nat /\ M(agenda, "commit_end", h) \in Nat
  BY <1>1, CountRange, Zenon
<1>4. a \in Nat /\ b \in Nat /\ c \in Nat
  BY <1>2, <1>3 DEF Holds
<1>5. \/ Balanced(r.refs, r.app, r.alive, a, b, c)
      \/ Over /\ ~r.alive
  BY <1>1, <1>2 DEF HandleSound, Sound, Settled
<1>6. r.refs \in Nat /\ r.app \in Nat /\ r.alive \in BOOLEAN
  BY <1>2 DEF HandleType
<1>7. Balanced(r.refs, r.app, r.alive, a, b, c) =>
        /\ r.alive => r.refs > 0
        /\ r.refs = 0 => r.app = 0
  <2> PICK n \in Nat, m \in Nat, t \in {0, 1} :
        n = r.refs /\ m = r.app /\ t = Bit(r.alive)
    BY <1>6 DEF Bit
  <2>1. r.alive => t = 1
    BY DEF Bit
  <2>2. n >= m + t + 2 * a + b + c => (t = 1 => n > 0) /\ (n = 0 => m = 0)
    BY <1>4
  <2> QED
    BY <2>1, <2>2 DEF Balanced
<1> QED
  BY <1>2, <1>5, <1>7

LEMMA AliveHeld == IInv => AliveCounted
BY Counts DEF AliveCounted

LEMMA AliveHeldNext == IInv' => AliveCounted'
BY AliveHeld, PTL

-----------------------------------------------------------------------------
(* Steps that only let go.                                                 *)

(* A stack that comes of this one by calls that open nothing.              *)
Passed(q) ==
    /\ Lone(q)
    /\ ~Over' => \A f \in Waiting(agenda) : f.op \in OpenOps => f \in Waiting(q)
    /\ \A f \in Waiting(q) : f.op \in OpenOps \cup StreamOps =>
         \/ f \in Waiting(agenda)
         \/ f.op \in StreamOps /\ f.at \in Slots /\ es[f.at].kind = "WT"

(* A slot lets go of what it had, or keeps it: r and s become n and m.     *)
LetsGo(r, n, s, m, h) ==
    /\ n.es \in {r.es, None} /\ (n.alive => r.alive)
    /\ n.credit = r.credit \/ n.credit = None
    /\ n.refs = 0 => n.credit = None
    /\ n.refs > 0 /\ n.credit = None /\ ~Over' => r.refs > 0 /\ r.credit = None
    /\ n.alive => n.credit = r.credit
    /\ m.user \in {s.user, None} /\ (n.alive /\ n.es = h => m.user = s.user)
    /\ m.kind \in {s.kind, "FREE"} /\ (s.kind = "RESERVED" => m.kind = s.kind)
    /\ m.resident = s.resident
    /\ m.lease = s.lease \/ n.credit = None
LetGo == \A h \in Slots : LetsGo(hs[h], hs'[h], es[h], es'[h], h)

LEMMA FitsOn ==
    ASSUME NEW r \in HandleType, NEW n \in HandleType, NEW s \in StreamType,
           NEW m \in StreamType, NEW h \in Slots, NEW a,
           Fits(a, r, s, h), LetsGo(r, n, s, m, h)
    PROVE  Fits(a, n, m, h)
<1>1. h /= None
  BY ApiAssumption
<1>2. n.es \in {None, h} /\ n.credit \in {None, h} /\ m.user \in {None, h}
  BY DEF Fits, LetsGo
<1>3. m.kind /= "FREE" => m.resident
  BY DEF Fits, LetsGo
<1>4. n.alive /\ n.es = h => m.kind = "FREE" \/ (m.kind = "WT" /\ m.user = h)
  BY <1>1 DEF Fits, LetsGo
<1>5. n.refs = 0 => n.credit = None
  BY DEF LetsGo
<1>6. a /\ n.credit = h => m.lease /\ m.resident /\ m.kind /= "RESERVED"
  BY <1>1 DEF Fits, LetsGo
<1>7. a /\ n.alive /\ n.es = h => n.credit = h
  BY <1>1 DEF Fits, LetsGo
<1> QED
  BY <1>2, <1>3, <1>4, <1>5, <1>6, <1>7 DEF Fits

(* Slots that let go still fit.                                            *)
LEMMA FitsNext ==
    ASSUME IInv, IInv', Leased, admission, attached' = attached, LetGo
    PROVE  \A h \in Slots : Fits(attached, hs[h], es[h], h)'
<1> SUFFICES ASSUME NEW h \in Slots
             PROVE  Fits(attached, hs[h], es[h], h)'
  OBVIOUS
<1>1. Typing /\ Typing'
  BY Typed, TypedNext
<1>2. hs[h] \in HandleType /\ hs'[h] \in HandleType
      /\ es[h] \in StreamType /\ es'[h] \in StreamType
  BY <1>1 DEF Typing
<1>3. Fits(attached, hs[h], es[h], h)
  BY DEF Leased
<1>4. LetsGo(hs[h], hs'[h], es[h], es'[h], h)
  BY DEF LetGo
<1>5. Fits(attached, hs'[h], es'[h], h)
  BY <1>2, <1>3, <1>4, FitsOn
<1> QED
  BY <1>5 DEF Fits

(* A step that lets go, and passes the open calls on, keeps the leases.    *)
LEMMA Carry ==
    ASSUME IInv, IInv', Leased, UNCHANGED <<admission, attached, backend>>,
           Over => Over', Passed(agenda'), LetGo,
           \/ Over' \/ agenda = <<>>
           \/ Head(agenda).op \notin OpenOps \cup {"conn_fatal"}
    PROVE  Leased'
<1> SUFFICES ASSUME admission
             PROVE  Leased'
  BY DEF Leased
<1>1. Typing /\ Typing'
  BY Typed, TypedNext
<1>2. attached' \/ ~backend'
  BY DEF Leased
<1>3. \A h \in Slots : Fits(attached, hs[h], es[h], h)'
  BY FitsNext
<1>4. ASSUME NEW h \in Slots
      PROVE  InOpen(h)'
  <2> SUFFICES ASSUME attached', ~Over', hs'[h].refs > 0, hs'[h].credit = None
               PROVE  \E f \in Waiting(agenda') : f.op \in OpenOps /\ f.x = {h}
    BY DEF InOpen
  <2>1. hs[h].refs > 0 /\ hs[h].credit = None /\ attached /\ ~Over
    BY DEF LetGo, LetsGo
  <2>2. InOpen(h)
    BY Zenon DEF Leased
  <2>3. PICK f \in Waiting(agenda) : f.op \in OpenOps /\ f.x = {h}
    BY <2>1, <2>2 DEF InOpen
  <2>4. f \in Waiting(agenda')
    BY <2>3 DEF Passed
  <2> QED
    BY <2>3, <2>4
<1>5. Lone(agenda)'
  BY DEF Passed, Lone
<1>6. ASSUME NEW f \in Waiting(agenda')
      PROVE  Needs(f)'
  <2>1. f \in Frame /\ (f.op \in HandleOps \cup StreamOps \cup {"open_rest"}
                          => f.at \in Slots)
        /\ (f.op = "open_failed" => f.x \subseteq Slots)
    BY <1>1 DEF Typing, Frame, SlotSetOps
  <2>2. CASE f.op = "open_rest"
    <3>1. f \in Waiting(agenda)
      BY <2>2 DEF Passed, OpenOps, StreamOps
    <3>2. f.x = {f.at} /\ es[f.at].kind = "RESERVED"
      BY <2>2, <3>1 DEF Leased, Needs
    <3>3. es'[f.at].kind = "RESERVED"
      BY <2>1, <2>2, <3>2 DEF LetGo, LetsGo
    <3> QED
      BY <2>2, <3>2, <3>3 DEF Needs, StreamOps
  <2>3. CASE f.op = "open_failed"
    <3>1. f \in Waiting(agenda)
      BY <2>3 DEF Passed, OpenOps, StreamOps
    <3>2. agenda /= <<>>
      <4>1. CASE agenda = <<>>
        <5>1. Waiting(agenda) = {}
          BY <4>1, EmptyStack
        <5> QED
          BY <3>1, <5>1
      <4> QED
        BY <4>1
    <3>3. ~Over => \/ Head(agenda) = f
                   \/ Head(agenda).op = "conn_fatal"
      BY <2>3, <3>1 DEF Leased, Needs
    <3>4. Over'
      BY <2>3, <3>2, <3>3 DEF OpenOps
    <3>5. f.x /= {}
      BY <2>3, <3>1 DEF Leased, Needs
    <3> QED
      BY <2>3, <3>4, <3>5 DEF Needs, StreamOps
  <2>4. CASE f.op \in StreamOps
    <3>1. /\ es[f.at].resident /\ es[f.at].kind /= "RESERVED"
          /\ f.at \in Slots
      <4>1. CASE f \in Waiting(agenda)
        BY <2>1, <2>4, <4>1 DEF Leased, Needs
      <4>2. CASE f \notin Waiting(agenda)
        <5>1. f.at \in Slots /\ es[f.at].kind = "WT"
          BY <2>4, <4>2 DEF Passed
        <5>2. Fits(attached, hs[f.at], es[f.at], f.at)
          BY <5>1 DEF Leased
        <5> QED
          BY <5>1, <5>2 DEF Fits
      <4> QED
        BY <4>1, <4>2
    <3>2. es'[f.at].resident /\ es'[f.at].kind /= "RESERVED"
      BY <3>1 DEF LetGo, LetsGo
    <3> QED
      BY <2>4, <3>2 DEF Needs, StreamOps
  <2>5. CASE f.op \notin OpenOps \cup StreamOps
    BY <2>5 DEF Needs, OpenOps
  <2> QED
    BY <2>2, <2>3, <2>4, <2>5 DEF OpenOps
<1> QED
  BY <1>2, <1>3, <1>4, <1>5, <1>6 DEF Leased

(* The calls that open nothing.                                            *)
Milds == {f \in Frame : /\ f.op \notin OpenOps \cup {"service"}
                        /\ f.op \in StreamOps => es[f.at].kind = "WT"}

(* Two stacks, one on the other.                                           *)
LEMMA OnEachOther ==
    ASSUME NEW a \in Seq(Frame), NEW q \in Seq(Frame)
    PROVE  /\ a \o q \in Seq(Frame) /\ Len(a \o q) = Len(a) + Len(q)
           /\ \A i \in 1..Len(a) : (a \o q)[i] = a[i]
           /\ \A i \in 1..Len(q) : (a \o q)[Len(a) + i] = q[i]
           /\ Waiting(a \o q) = Waiting(a) \cup Waiting(q)
<1>1. /\ a \o q \in Seq(Frame) /\ Len(a \o q) = Len(a) + Len(q)
      /\ Len(a) \in Nat /\ Len(q) \in Nat
      /\ \A i \in 1..(Len(a) + Len(q)) : (a \o q)[i] =
            IF i <= Len(a) THEN a[i] ELSE q[i - Len(a)]
  BY ConcatProperties
<1>2. \A i \in 1..Len(a) : (a \o q)[i] = a[i]
  BY <1>1
<1>3. ASSUME NEW i \in 1..Len(q)
      PROVE  (a \o q)[Len(a) + i] = q[i]
  <2>1. /\ Len(a) + i \in 1..(Len(a) + Len(q)) /\ ~(Len(a) + i <= Len(a))
        /\ (Len(a) + i) - Len(a) = i
    BY <1>1
  <2> QED
    BY <1>1, <2>1
<1>4. ASSUME NEW f \in Waiting(a \o q) PROVE f \in Waiting(a) \cup Waiting(q)
  <2>1. PICK i \in 1..(Len(a) + Len(q)) : f = (a \o q)[i]
    BY <1>1, <1>4 DEF Waiting
  <2>2. CASE i <= Len(a)
    <3>1. i \in 1..Len(a) /\ f = a[i]
      BY <1>1, <2>1, <2>2
    <3> QED
      BY <3>1 DEF Waiting
  <2>3. CASE ~(i <= Len(a))
    <3>1. i - Len(a) \in 1..Len(q) /\ f = q[i - Len(a)]
      BY <1>1, <2>1, <2>3
    <3> QED
      BY <3>1 DEF Waiting
  <2> QED
    BY <2>2, <2>3
<1>5. ASSUME NEW f \in Waiting(a) PROVE f \in Waiting(a \o q)
  <2>1. PICK i \in 1..Len(a) : f = a[i]
    BY <1>5 DEF Waiting
  <2>2. i \in 1..Len(a \o q) /\ f = (a \o q)[i]
    BY <1>1, <1>2, <2>1
  <2> QED
    BY <2>2 DEF Waiting
<1>6. ASSUME NEW f \in Waiting(q) PROVE f \in Waiting(a \o q)
  <2>1. PICK i \in 1..Len(q) : f = q[i]
    BY <1>6 DEF Waiting
  <2>2. Len(a) + i \in 1..Len(a \o q) /\ f = (a \o q)[Len(a) + i]
    BY <1>1, <1>3, <2>1
  <2> QED
    BY <2>2 DEF Waiting
<1> QED
  BY <1>1, <1>2, <1>3, <1>4, <1>5, <1>6

(* No service comes above another call.                                    *)
LEMMA LoneOn ==
    ASSUME NEW a \in Seq(Frame), NEW q \in Seq(Frame), Lone(q),
           \A f \in Waiting(a) : f.op /= "service"
    PROVE  Lone(a \o q)
<1>1. /\ a \o q \in Seq(Frame) /\ Len(a \o q) = Len(a) + Len(q)
      /\ \A i \in 1..Len(a) : (a \o q)[i] = a[i]
      /\ \A i \in 1..Len(q) : (a \o q)[Len(a) + i] = q[i]
      /\ Len(a) \in Nat /\ Len(q) \in Nat
  BY OnEachOther
<1> SUFFICES ASSUME NEW i \in 1..Len(a \o q), (a \o q)[i].op = "service"
             PROVE  i = Len(a \o q)
  BY DEF Lone
<1>2. CASE i <= Len(a)
  <2>1. i \in 1..Len(a) /\ (a \o q)[i] = a[i]
    BY <1>1, <1>2
  <2>2. a[i] \in Waiting(a)
    BY <2>1 DEF Waiting
  <2> QED
    BY <2>1, <2>2
<1>3. CASE ~(i <= Len(a))
  <2>1. PICK k \in 1..Len(q) : i = Len(a) + k
    <3>1. i - Len(a) \in 1..Len(q) /\ i = Len(a) + (i - Len(a))
      BY <1>1, <1>3
    <3> QED
      BY <3>1
  <2>2. q[k].op = "service"
    BY <1>1, <2>1
  <2>3. k = Len(q)
    BY <2>2 DEF Lone
  <2> QED
    BY <1>1, <2>1, <2>3
<1> QED
  BY <1>2, <1>3

(* What is below the call on top.                                          *)
LEMMA Under ==
    ASSUME IInv, agenda /= <<>>
    PROVE  /\ Tail(agenda) \in Seq(Frame) /\ Head(agenda) \in Frame
           /\ Waiting(agenda) = {Head(agenda)} \cup Waiting(Tail(agenda))
           /\ Lone(agenda) => /\ Lone(Tail(agenda))
                              /\ Head(agenda).op = "service"
                                   => Tail(agenda) = <<>>
<1>1. agenda \in Seq(Frame)
  BY Numbers
<1>2. PICK f \in Frame, q \in Seq(Frame) :
        f = Head(agenda) /\ q = Tail(agenda) /\ agenda = Put(f, q)
  BY OnTop, Zenon
<1>3. Waiting(agenda) = {f} \cup Waiting(q)
  <2>1. Waiting(Put(f, q)) = {f} \cup Waiting(q)
    BY PutFacts
  <2> QED
    BY <1>2, <2>1
<1>4. /\ Len(agenda) = Len(q) + 1 /\ agenda[1] = f
      /\ \A i \in 1..Len(q) : agenda[i + 1] = q[i]
      /\ Len(q) \in Nat
  <2>1. /\ Len(Put(f, q)) = Len(q) + 1 /\ Put(f, q)[1] = f
        /\ \A i \in 1..Len(q) : Put(f, q)[i + 1] = q[i]
    BY PutPlaces
  <2> QED
    BY <1>2, <2>1
<1>5. ASSUME Lone(agenda), NEW i \in 1..Len(q), q[i].op = "service"
      PROVE  i = Len(q)
  <2>1. i + 1 \in 1..Len(agenda) /\ agenda[i + 1].op = "service"
    BY <1>4, <1>5
  <2>2. i + 1 = Len(agenda)
    BY <1>5, <2>1 DEF Lone
  <2> QED
    BY <1>4, <2>2
<1>6. ASSUME Lone(agenda), f.op = "service"
      PROVE  q = <<>>
  <2>1. 1 \in 1..Len(agenda) /\ agenda[1].op = "service"
    BY <1>4, <1>6
  <2>2. 1 = Len(agenda)
    BY <1>6, <2>1, Zenon DEF Lone
  <2>3. Len(q) = 0
    BY <1>4, <2>2
  <2> QED
    BY <2>3, EmptySeq
<1> QED
  BY <1>2, <1>3, <1>5, <1>6 DEF Lone

(* Calls that open nothing come, above the rest of the stack.              *)
LEMMA Pass ==
    ASSUME IInv, Leased, admission, NEW a \in Seq(Milds), NEW q,
           \/ q = agenda
           \/ /\ agenda /= <<>> /\ q = Tail(agenda)
              /\ Over' \/ Head(agenda).op \notin OpenOps,
           agenda' = a \o q
    PROVE  Passed(agenda')
<1>1. a \in Seq(Frame) /\ \A f \in Waiting(a) : f \in Milds
  BY DEF Milds, Waiting
<1>2. agenda \in Seq(Frame) /\ Lone(agenda)
  BY Typed DEF Leased, Typing
<1>3. /\ q \in Seq(Frame) /\ Lone(q)
      /\ \A f \in Waiting(q) : f \in Waiting(agenda)
      /\ ~Over' => \A f \in Waiting(agenda) :
                      f.op \in OpenOps => f \in Waiting(q)
  BY <1>2, Under, Zenon
<1>4. Waiting(agenda') = Waiting(a) \cup Waiting(q)
  BY <1>1, <1>3, OnEachOther
<1>5. Lone(agenda')
  BY <1>1, <1>3, LoneOn DEF Milds
<1>6. ASSUME NEW f \in Waiting(a), f.op \in OpenOps \cup StreamOps
      PROVE  f.op \in StreamOps /\ f.at \in Slots /\ es[f.at].kind = "WT"
  BY <1>1, <1>6 DEF Milds, Frame
<1> QED
  BY <1>3, <1>4, <1>5, <1>6 DEF Passed

(* Slots that a step leaves as they are let go.                            *)
LEMMA Untouched ==
    ASSUME IInv, Leased, admission, UNCHANGED <<hs, es>>
    PROVE  LetGo
<1> SUFFICES ASSUME NEW h \in Slots
             PROVE  LetsGo(hs[h], hs'[h], es[h], es'[h], h)
  BY DEF LetGo
<1>1. Fits(attached, hs[h], es[h], h)
  BY DEF Leased
<1>2. hs'[h] = hs[h] /\ es'[h] = es[h]
  OBVIOUS
<1> QED
  BY <1>1, <1>2 DEF LetsGo, Fits

-----------------------------------------------------------------------------
(* The steps that leave every slot as it is.                               *)

(* The calls a step makes.                                                 *)
LEMMA MildCalls ==
    ASSUME IInv
    PROVE  /\ \A op \in PlainOps : op /= "service" => Call(op) \in Milds
           /\ Exit \in Milds /\ App \in Milds
           /\ \A op \in SlotSetOps, S \in SUBSET Slots :
                op /= "open_failed" => [Call(op) EXCEPT !.x = S] \in Milds
           /\ \A h \in Slots, op \in HandleOps, x \in SUBSET (Slots \cup Marks) :
                OnHandle(op, h, x) \in Milds
           /\ \A e \in Slots, op \in StreamOps, x \in SUBSET (Slots \cup Marks) :
                es[e].kind = "WT" => OnStream(op, e, x) \in Milds
<1>1. hs \in [Slots -> HandleType] /\ es \in [Slots -> StreamType]
  BY Typed DEF Typing
<1>2. ASSUME NEW op \in PlainOps, op /= "service"
      PROVE  Call(op) \in Milds
  <2>1. Call(op) \in Frame /\ Call(op).op = op
    BY Calls
  <2> QED
    BY <1>2, <2>1 DEF Milds, PlainOps, OpenOps, StreamOps
<1>3. Exit \in Milds /\ App \in Milds
  BY <1>2 DEF Exit, App, PlainOps
<1>4. ASSUME NEW op \in SlotSetOps, NEW S \in SUBSET Slots,
             op /= "open_failed"
      PROVE  [Call(op) EXCEPT !.x = S] \in Milds
  <2>1. /\ [Call(op) EXCEPT !.x = S] \in Frame
        /\ [Call(op) EXCEPT !.x = S].op = op
    BY Calls, Zenon
  <2> QED
    BY <1>4, <2>1, Zenon DEF Milds, SlotSetOps, OpenOps, StreamOps
<1>5. ASSUME NEW h \in Slots, NEW op \in HandleOps,
             NEW x \in SUBSET (Slots \cup Marks)
      PROVE  OnHandle(op, h, x) \in Milds
  <2>1. OnHandle(op, h, x) \in Frame /\ OnHandle(op, h, x).op = op
    BY <1>1, HandleCall
  <2> QED
    BY <2>1 DEF Milds, HandleOps, OpenOps, StreamOps
<1>6. ASSUME NEW e \in Slots, NEW op \in StreamOps,
             NEW x \in SUBSET (Slots \cup Marks), es[e].kind = "WT"
      PROVE  OnStream(op, e, x) \in Milds
  <2>1. OnStream(op, e, x) \in Frame /\ OnStream(op, e, x).op = op
    BY <1>1, StreamCall
  <2>2. OnStream(op, e, x).at = e
    BY DEF OnStream
  <2> QED
    BY <1>6, <2>1, <2>2 DEF Milds, StreamOps, OpenOps
<1> QED
  BY <1>2, <1>3, <1>4, <1>5, <1>6

(* Calls on calls.                                                         *)
LEMMA MildStacks ==
    /\ <<>> \in Seq(Milds)
    /\ \A f \in Milds : <<f>> \in Seq(Milds)
    /\ \A f, g \in Milds : <<f, g>> \in Seq(Milds)
    /\ \A f, g, k \in Milds : <<f, g, k>> \in Seq(Milds)
    /\ \A a, b \in Seq(Milds) : a \o b \in Seq(Milds)
OBVIOUS

(* What is put above the rest of the stack, below a delivery.              *)
LEMMA MildBracket ==
    ASSUME IInv
    PROVE  Bracket \in Seq(Milds)
BY MildCalls, MildStacks DEF Bracket

(* The rest of the stack: all of it, or what is below the call on top.     *)
Rest(q) == \/ q = agenda
           \/ /\ agenda /= <<>> /\ q = Tail(agenda)
              /\ Over' \/ Head(agenda).op \notin OpenOps
Ordinary == \/ Over' \/ agenda = <<>>
            \/ Head(agenda).op \notin OpenOps \cup {"conn_fatal"}

(* AppFirst puts calls there, and the application's above them.            *)
LEMMA AppPuts ==
    ASSUME IInv, NEW a \in Seq(Milds), NEW q, AppFirst(a, q)
    PROVE  \E b \in Seq(Milds) : agenda' = b \o q
<1>1. PICK b : /\ b = (IF Len(a \o q) + 1 < MaxDepth THEN <<App>> ELSE <<>>)
                        \o a
  BY Zenon
<1>2. b \in Seq(Milds)
  BY <1>1, MildCalls, MildStacks
<1>3. agenda' = b \o q
  BY <1>1 DEF AppFirst
<1> QED
  BY <1>2, <1>3, Zenon

(* A step that only makes calls, and ends the one on top or leaves it.     *)
LEMMA OnlyCalls ==
    ASSUME IInv, IInv', Leased, UNCHANGED <<admission, attached, backend>>,
           Over => Over', Ordinary, LetGo \/ UNCHANGED <<hs, es>>,
           NEW q, Rest(q), \E a \in Seq(Milds) : agenda' = a \o q
    PROVE  Leased'
<1> SUFFICES ASSUME admission
             PROVE  Leased'
  BY DEF Leased
<1>1. Passed(agenda')
  BY Pass, Zenon DEF Rest
<1>2. LetGo
  BY Untouched
<1> QED
  BY <1>1, <1>2, Carry DEF Ordinary

(* ... behind the call on top, on the stack, and in a delivery.            *)
LEMMA ThenCalls ==
    ASSUME IInv, IInv', Leased, UNCHANGED <<admission, attached, backend>>,
           Over => Over', LetGo \/ UNCHANGED <<hs, es>>,
           agenda /= <<>>, Head(agenda).op \notin OpenOps,
           Over' \/ Head(agenda).op /= "conn_fatal",
           NEW a \in Seq(Milds), Then(a) \/ AppThen(a)
    PROVE  Leased'
<1>1. \E b \in Seq(Milds) : agenda' = b \o Tail(agenda)
  BY AppPuts, Zenon DEF Then, AppThen
<1>2. Rest(Tail(agenda)) /\ Ordinary
  BY DEF Rest, Ordinary
<1> QED
  BY <1>1, <1>2, OnlyCalls, Zenon

LEMMA EnterCalls ==
    ASSUME IInv, IInv', Leased, UNCHANGED <<admission, attached, backend>>,
           Over => Over', LetGo \/ UNCHANGED <<hs, es>>,
           agenda = <<>> \/ Head(agenda).op \notin OpenOps \cup {"conn_fatal"},
           NEW a \in Seq(Milds), Enter(a) \/ AppEnter(a)
    PROVE  Leased'
<1>1. \E b \in Seq(Milds) : agenda' = b \o agenda
  BY AppPuts, Zenon DEF Enter, AppEnter
<1>2. Rest(agenda) /\ Ordinary
  BY DEF Rest, Ordinary
<1> QED
  BY <1>1, <1>2, OnlyCalls, Zenon

LEMMA DeliverCalls ==
    ASSUME IInv, IInv', Leased, UNCHANGED <<admission, attached, backend>>,
           Over => Over', LetGo \/ UNCHANGED <<hs, es>>, Ongoing,
           NEW a \in Seq(Milds), Deliver(a) \/ AppDeliver(a)
    PROVE  Leased'
<1>1. a \o Bracket \in Seq(Milds)
  BY MildBracket, MildStacks
<1>2. \E b \in Seq(Milds) : agenda' = b \o Below
  <2>1. CASE Deliver(a)
    BY <1>1, <2>1, Zenon DEF Deliver
  <2>2. CASE AppDeliver(a)
    <3>1. PICK c : c = a \o Bracket
      BY Zenon
    <3>2. c \in Seq(Milds) /\ AppFirst(c, Below)
      BY <1>1, <2>2, <3>1 DEF AppDeliver
    <3> QED
      BY <3>2, AppPuts, Zenon
  <2> QED
    BY <2>1, <2>2, Zenon
<1>3. Ordinary
  BY DEF Ordinary, Ongoing, OpenOps
<1>4. Rest(Below)
  BY DEF Rest, Below, At, Ongoing, OpenOps
<1> QED
  BY <1>2, <1>3, <1>4, OnlyCalls, Zenon

(* References to the session, and calls that return.                       *)
LEMMA ReturnsLease ==
    ASSUME IInv, IInv', Leased,
           \/ SessionExit \/ AppReturns \/ ResumeDone \/ ServiceDone
           \/ TellSessionClosed \/ TellSessionFailed \/ SendCommitted
    PROVE  Leased'
<1>1. <<>> \in Seq(Milds)
  BY MildStacks
<1>2. CASE \/ SessionExit \/ AppReturns \/ ResumeDone \/ ServiceDone
           \/ TellSessionClosed \/ TellSessionFailed
  <2>1. /\ agenda /= <<>> /\ Head(agenda).op \notin OpenOps
        /\ Head(agenda).op /= "conn_fatal"
    BY <1>2 DEF SessionExit, AppReturns, ResumeDone, ServiceDone,
                TellSessionClosed, TellSessionFailed, At, OpenOps
  <2>2. UNCHANGED <<admission, attached, backend, hs, es, closed, sess>>
    BY <1>2 DEF SessionExit, AppReturns, ResumeDone, ServiceDone,
                TellSessionClosed, TellSessionFailed, count, flags, engine
  <2>3. Then(<<>>) \/ AppThen(<<>>)
    BY <1>2 DEF SessionExit, AppReturns, ResumeDone, ServiceDone,
                TellSessionClosed, TellSessionFailed
  <2> QED
    BY <1>1, <2>1, <2>2, <2>3, ThenCalls, Zenon DEF Over
<1>3. CASE SendCommitted
  <2>1. /\ agenda /= <<>> /\ Head(agenda).op = "committed"
        /\ UNCHANGED <<admission, attached, backend, hs, es, closed, sess>>
    BY <1>3 DEF SendCommitted, At, count, engine
  <2>2. Head(agenda).at \in Slots
    BY <2>1, Under DEF Frame, HandleOps
  <2>3. PICK a : a = ClosedCalls(This.at)
                       \o <<OnHandle("commit_end", This.at, {})>>
    BY Zenon
  <2>4. {} \in SUBSET (Slots \cup Marks)
    OBVIOUS
  <2>5. a \in Seq(Milds)
    BY <2>2, <2>3, <2>4, MildCalls, MildStacks
       DEF ClosedCalls, This, HandleOps
  <2>6. AppThen(a)
    BY <1>3, <2>3 DEF SendCommitted
  <2> QED
    BY <2>1, <2>5, <2>6, ThenCalls DEF Over, OpenOps
<1> QED
  BY <1>2, <1>3

LEMMA SessionRefsLease ==
    ASSUME IInv, IInv', Leased, SessionAddRef \/ SessionRelease
    PROVE  Leased'
<1>1. /\ UNCHANGED <<admission, attached, backend, hs, es, closed, sess>>
      /\ agenda' = agenda
  BY DEF SessionAddRef, SessionRelease, flags, engine
<1>2. agenda = <<>> \/ Head(agenda).op \notin OpenOps \cup {"conn_fatal"}
  BY DEF SessionAddRef, SessionRelease, MayUse, InApp, At, Idle, OpenOps
<1>3. agenda \in Seq(Frame)
  BY Typed DEF Typing
<1>4. Enter(<<>>) /\ <<>> \in Seq(Milds)
  BY <1>1, <1>3, MildStacks, ConcatEmptySeq DEF Enter
<1> QED
  BY <1>1, <1>2, <1>4, EnterCalls, Zenon DEF Over

(* The adapters of the session's end.                                      *)
LEMMA TerminalLease ==
    ASSUME IInv, IInv', Leased,
           AdaptSessionClosed \/ AdaptConnError \/ AdaptFailed
    PROVE  Leased'
<1>1. /\ UNCHANGED <<admission, attached, backend, hs, es, closed>>
      /\ sess' \in {sess, "ended"}
  BY DEF AdaptSessionClosed, AdaptConnError, AdaptFailed, engine
<1>2. /\ agenda /= <<>> /\ Head(agenda).op \notin OpenOps
      /\ Head(agenda).op /= "conn_fatal"
  BY DEF AdaptSessionClosed, AdaptConnError, AdaptFailed, OnceTerminal, At,
         OpenOps
<1>3. Over => Over'
  BY <1>1 DEF Over
<1>4. Slots \in SUBSET Slots
  OBVIOUS
<1>5. /\ Teardown \in Milds /\ Call("tell_closed") \in Milds
      /\ Call("tell_failed") \in Milds /\ Exit \in Milds
  BY <1>4, MildCalls DEF Teardown, SlotSetOps, PlainOps
<1>6. PICK calls : /\ \/ calls = <<Teardown, Call("tell_closed")>>
                      \/ calls = <<Teardown, Call("tell_failed")>>
                      \/ calls = <<Call("tell_failed")>>
                   /\ Then((IF terminal THEN <<>> ELSE calls) \o <<Exit>>)
  BY DEF AdaptSessionClosed, AdaptConnError, AdaptFailed, OnceTerminal
<1>7. PICK a : a = (IF terminal THEN <<>> ELSE calls) \o <<Exit>>
  BY Zenon
<1>8. a \in Seq(Milds) /\ Then(a)
  BY <1>5, <1>6, <1>7, MildStacks
<1> QED
  BY <1>1, <1>2, <1>3, <1>8, ThenCalls

(* conn_fatal, and session_closed of the engine.                           *)
LEMMA EndsLease ==
    ASSUME IInv, IInv', Leased, ConnFatal \/ SessionClosed
    PROVE  Leased'
<1>1. /\ UNCHANGED <<admission, attached, backend, hs, es>>
      /\ agenda /= <<>> /\ Head(agenda).op \notin OpenOps
  BY DEF ConnFatal, SessionClosed, At, OpenOps, count, flags
<1>2. Over => Over'
  BY DEF ConnFatal, SessionClosed, Over
<1>3. Over' \/ Head(agenda).op /= "conn_fatal"
  BY DEF ConnFatal, SessionClosed, Over, At
<1>4. Slots \in SUBSET Slots
  OBVIOUS
<1>5. /\ Call("session_closed") \in Milds /\ Call("session_failed") \in Milds
      /\ Call("on_conn_error") \in Milds /\ Call("on_session_closed") \in Milds
      /\ [Call("engine_teardown") EXCEPT !.x = Slots] \in Milds
  BY <1>4, MildCalls DEF SlotSetOps, PlainOps
<1>6. CASE ConnFatal
  <2>1. PICK b : b = (CASE sess = "active" -> <<Call("session_closed")>>
                        [] sess = "none" -> <<Call("session_failed")>>
                        [] OTHER -> <<>>)
    BY Zenon
  <2>2. b \in Seq(Milds)
    BY <1>5, <2>1, MildStacks
  <2>3. PICK a : a = IF closed THEN <<>> ELSE b \o <<Call("on_conn_error")>>
    BY Zenon
  <2>4. a \in Seq(Milds)
    BY <1>5, <2>2, <2>3, MildStacks
  <2>5. Then(a)
    BY <1>6, <2>1, <2>3 DEF ConnFatal
  <2> QED
    BY <1>1, <1>2, <1>3, <2>4, <2>5, ThenCalls
<1>7. CASE SessionClosed
  <2>1. PICK a : a = IF sess = "active"
                     THEN <<[Call("engine_teardown") EXCEPT !.x = Slots],
                            Call("on_session_closed")>>
                     ELSE <<>>
    BY Zenon
  <2>2. a \in Seq(Milds)
    BY <1>5, <2>1, MildStacks
  <2>3. Then(a)
    BY <1>7, <2>1 DEF SessionClosed
  <2> QED
    BY <1>1, <1>2, <1>3, <2>2, <2>3, ThenCalls
<1> QED
  BY <1>6, <1>7

(* The session's inputs, and wtq_session_close.                            *)
LEMMA SessionInputsLease ==
    ASSUME IInv, IInv', Leased,
           \/ Establish \/ Notify \/ BackendQuits \/ SessionClose
           \/ \E op \in PlainOps : op /= "service" /\ EndingInput(op)
    PROVE  Leased'
<1>1. /\ UNCHANGED <<admission, attached, backend, hs, es>>
      /\ agenda = <<>> \/ Head(agenda).op \notin OpenOps \cup {"conn_fatal"}
  BY Zenon DEF Establish, Notify, BackendQuits, SessionClose, EndingInput,
     Idle,
         MayUse, InApp, At, OpenOps, flags
<1>2. Over => Over'
  BY Zenon DEF Establish, Notify, BackendQuits, SessionClose, EndingInput,
     Over,
         engine
<1>3. Exit \in Milds /\ \A op \in PlainOps :
                           op /= "service" => Call(op) \in Milds
  BY MildCalls
<1>4. PICK a : /\ \/ a = <<Exit>>
                  \/ \E op \in PlainOps :
                       op /= "service" /\ a = <<Call(op), Exit>>
                  \/ a = <<Call("conn_fatal"), Call("backend_release"), Exit>>
               /\ Enter(a) \/ AppEnter(a)
  <2>1. {"conn_fatal", "session_closed"} \subseteq PlainOps
    BY DEF PlainOps
  <2>2. CASE Establish \/ Notify
    BY <2>2 DEF Establish, Notify
  <2>3. CASE BackendQuits
    BY <2>3 DEF BackendQuits
  <2>4. CASE SessionClose
    BY <2>1, <2>4 DEF SessionClose
  <2>5. CASE \E op \in PlainOps : op /= "service" /\ EndingInput(op)
    BY <2>5 DEF EndingInput
  <2> QED
    BY <2>2, <2>3, <2>4, <2>5
<1>5. Call("conn_fatal") \in Milds /\ Call("backend_release") \in Milds
  BY <1>3 DEF PlainOps
<1>6. a \in Seq(Milds)
  BY <1>3, <1>4, <1>5, MildStacks, ZenonT(60)
<1> QED
  BY <1>1, <1>2, <1>4, <1>6, EnterCalls

(* The admission service begins below every other call.                    *)
LEMMA ServiceLease ==
    ASSUME IInv, IInv', Leased, Service
    PROVE  Leased'
<1> SUFFICES ASSUME admission
             PROVE  Leased'
  BY Zenon DEF Leased, Service
<1>1. /\ UNCHANGED <<admission, attached, backend, hs, es>>
      /\ agenda = <<>> /\ (Over => Over')
  BY DEF Service, Idle, Over, engine
<1>2. PICK f : f = Call("service")
  OBVIOUS
<1>3. f \in Frame /\ f.op = "service"
  BY <1>2, Calls DEF PlainOps
<1>4. agenda' = <<f>>
  <2>1. agenda' = <<f>> \o <<>>
    BY <1>1, <1>2 DEF Service, Enter
  <2>2. <<f>> \in Seq(Frame)
    BY <1>3
  <2> QED
    BY <2>1, <2>2, ConcatEmptySeq
<1>5. Waiting(agenda') = {f} /\ Waiting(agenda) = {} /\ Lone(agenda')
  <2>1. Len(<<f>>) = 1 /\ <<f>>[1] = f
    OBVIOUS
  <2> QED
    BY <1>1, <1>4, <2>1, EmptyStack DEF Waiting, Lone
<1>6. Passed(agenda')
  BY <1>3, <1>5 DEF Passed, OpenOps, StreamOps
<1>7. LetGo
  BY <1>1, Untouched
<1> QED
  BY <1>1, <1>6, <1>7, Carry

-----------------------------------------------------------------------------
(* The engine's streams.                                                   *)

(* A stream is in use as it was, or over; a reserved one stays.            *)
Slips(n, s) ==
    /\ n.user = s.user /\ n.resident = s.resident /\ n.lease = s.lease
    /\ n.kind \in {s.kind, "FREE"} /\ (s.kind = "RESERVED" => n.kind = s.kind)

LEMMA KeptSlips ==
    ASSUME NEW n, NEW s, Slips(n, s)
    PROVE  Slips(Kept(n), s)
<1>1. CASE Done(n)
  <2>1. Slips(Released(n), s)
    BY <1>1 DEF Slips, Released, NoStream, Done
  <2> QED
    BY <1>1, <2>1 DEF Kept
<1> QED
  BY <1>1 DEF Kept

LEMMA StreamSlips ==
    ASSUME NEW s \in StreamType
    PROVE  /\ Slips(s, s)
           /\ s.kind /= "RESERVED" => Slips(Released(s), s)
           /\ \A x : Slips(ShutStream(s, x), s)
           /\ \A v : /\ Slips([s EXCEPT !.recv = v, !.drain = v], s)
                     /\ Slips([s EXCEPT !.drain = v], s)
                     /\ Slips([s EXCEPT !.recv = v], s)
           /\ Slips(Torn(s), s)
           /\ Slips([s EXCEPT !.send = FALSE, !.fin = FALSE, !.recv = FALSE,
                              !.drain = FALSE], s)
           /\ Slips([s EXCEPT !.fin = FALSE, !.send = FALSE], s)
           /\ Slips([s EXCEPT !.commit = TRUE], s)
<1>1. Slips(s, s) /\ (s.kind /= "RESERVED" => Slips(Released(s), s))
  BY DEF Slips, Released, NoStream
<1>2. ASSUME NEW x PROVE Slips(ShutStream(s, x), s)
  <2>1. ShutStream(s, x)
          = [s EXCEPT !.send = s.send /\ "send" \notin x,
                      !.fin = s.fin /\ "send" \notin x,
                      !.recv = s.recv /\ "recv" \notin x,
                      !.drain = s.drain \/ "recv" \in x]
    BY DEF ShutStream, StreamType
  <2> QED
    BY <2>1 DEF Slips, StreamType
<1>3. ASSUME NEW v
      PROVE  /\ Slips([s EXCEPT !.recv = v, !.drain = v], s)
             /\ Slips([s EXCEPT !.drain = v], s)
             /\ Slips([s EXCEPT !.recv = v], s)
  BY DEF Slips, StreamType
<1>4. Slips(Torn(s), s)
  BY <1>2, KeptSlips DEF Torn
<1>5. /\ Slips([s EXCEPT !.send = FALSE, !.fin = FALSE, !.recv = FALSE,
                         !.drain = FALSE], s)
      /\ Slips([s EXCEPT !.fin = FALSE, !.send = FALSE], s)
      /\ Slips([s EXCEPT !.commit = TRUE], s)
  BY DEF Slips, StreamType
<1> QED
  BY <1>1, <1>2, <1>3, <1>4, <1>5, Zenon

(* Streams that slip let go.                                               *)
LEMMA SlipsGo ==
    ASSUME IInv, Leased, admission, hs' = hs,
           \A e \in Slots : Slips(es'[e], es[e])
    PROVE  LetGo
<1> SUFFICES ASSUME NEW h \in Slots
             PROVE  LetsGo(hs[h], hs'[h], es[h], es'[h], h)
  BY DEF LetGo
<1>1. Fits(attached, hs[h], es[h], h)
  BY DEF Leased
<1>2. hs'[h] = hs[h] /\ Slips(es'[h], es[h])
  OBVIOUS
<1> QED
  BY <1>1, <1>2 DEF LetsGo, Fits, Slips

(* One stream that slips.                                                  *)
LEMMA OneSlips ==
    ASSUME IInv, NEW e \in Slots, NEW n, Slips(n, es[e]),
           es' = [es EXCEPT ![e] = n]
    PROVE  \A i \in Slots : Slips(es'[i], es[i])
<1>1. es \in [Slots -> StreamType]
  BY Typed DEF Typing
<1> SUFFICES ASSUME NEW i \in Slots
             PROVE  Slips(es'[i], es[i])
  OBVIOUS
<1>2. Slips(es[i], es[i])
  BY <1>1, StreamSlips, Zenon
<1>3. es'[i] = IF i = e THEN n ELSE es[i]
  BY <1>1
<1> QED
  BY <1>2, <1>3

(* The engine's rest behind a callback.                                    *)
LEMMA EngineRestLease ==
    ASSUME IInv, IInv', Leased, EngineRest
    PROVE  Leased'
<1> SUFFICES ASSUME admission
             PROVE  Leased'
  BY Zenon DEF Leased, EngineRest
<1>1. /\ UNCHANGED <<admission, attached, backend, hs, closed, sess>>
      /\ agenda /= <<>> /\ Head(agenda).op = "engine" /\ Then(<<>>)
  BY DEF EngineRest, At, count, flags, engine
<1>2. /\ This \in Frame /\ This.at \in Slots
      /\ This \in Waiting(agenda)
  BY <1>1, Under DEF This, Frame, StreamOps
<1>3. es[This.at] \in StreamType /\ es \in [Slots -> StreamType]
  BY <1>2, Typed DEF Typing
<1>4. es[This.at].kind /= "RESERVED"
  BY <1>1, <1>2 DEF Leased, Needs, StreamOps, This
<1>5. PICK e, x, r, last :
         /\ e = This.at /\ x = This.x /\ r = es[e]
         /\ last = [[r EXCEPT !.sent = TRUE] EXCEPT !.send = FALSE,
                                                    !.fin = r.commit]
  BY Zenon
<1>6. PICK n :
        n = CASE "free" \in x -> Released(r)
              [] "done" \in x -> Kept(r)
              [] ~SameStream(This) -> r
              [] "fin" \in x -> Kept([r EXCEPT !.recv = FALSE,
                                               !.drain = FALSE])
              [] "shut" \in x -> Kept(ShutStream(r, x \cap Halves))
              [] "last" \in x -> Kept(last)
              [] "sent" \in x -> [r EXCEPT !.sent = TRUE]
              [] OTHER -> Kept(r)
  BY Zenon
<1>7. es' = [es EXCEPT ![e] = n]
  BY <1>5, <1>6 DEF EngineRest
<1>8. r \in StreamType /\ r.kind /= "RESERVED"
  BY <1>3, <1>4, <1>5
<1>9. Slips(n, r)
  <2>1. /\ Slips(r, r) /\ Slips(Released(r), r)
        /\ Slips([r EXCEPT !.recv = FALSE, !.drain = FALSE], r)
        /\ Slips(ShutStream(r, x \cap Halves), r)
    BY <1>8, StreamSlips, Zenon
  <2>2. Slips([r EXCEPT !.sent = TRUE], r) /\ Slips(last, r)
    BY <1>5, <1>8 DEF Slips, StreamType
  <2>3. /\ Slips(Kept(r), r) /\ Slips(Kept(last), r)
        /\ Slips(Kept([r EXCEPT !.recv = FALSE, !.drain = FALSE]), r)
        /\ Slips(Kept(ShutStream(r, x \cap Halves)), r)
    BY <2>1, <2>2, KeptSlips
  <2> QED
    BY <1>6, <2>1, <2>2, <2>3
<1>10. \A i \in Slots : Slips(es'[i], es[i])
  BY <1>2, <1>5, <1>7, <1>9, OneSlips, Zenon
<1>11. LetGo
  BY <1>1, <1>10, SlipsGo
<1>12. <<>> \in Seq(Milds)
  BY MildStacks
<1> QED
  BY <1>1, <1>11, <1>12, ThenCalls, Zenon DEF OpenOps, Over

(* session_closed's loop.                                                  *)
LEMMA EngineTeardownLease ==
    ASSUME IInv, IInv', Leased, EngineTeardown
    PROVE  Leased'
<1> SUFFICES ASSUME admission
             PROVE  Leased'
  BY DEF Leased, EngineTeardown
<1>1. /\ UNCHANGED <<admission, attached, backend, hs, closed, sess>>
      /\ agenda /= <<>> /\ Head(agenda).op = "engine_teardown"
  BY DEF EngineTeardown, At, count, flags, engine
<1>2. This \in Frame /\ es \in [Slots -> StreamType]
  BY <1>1, Under, Typed DEF This, Typing
<1>3. PICK todo : todo = {e \in This.x : es[e].kind = "WT"}
  BY Zenon
<1>4. PICK e : e = First(todo)
  OBVIOUS
<1>5. PICK f, next, torn : /\ f = This /\ next = [f EXCEPT !.x = todo \ {e}]
                           /\ torn = OnStream("engine_torn", e, {})
  BY Zenon
<1>6. todo \subseteq Slots /\ next \in Milds
  <2>1. f.op \in SlotSetOps /\ todo \subseteq f.x /\ todo \ {e} \subseteq f.x
        /\ f \in Frame
    BY <1>1, <1>2, <1>3, <1>5 DEF SlotSetOps, This
  <2>2. next \in Frame /\ next.op = f.op /\ f.x \subseteq Slots
    BY <2>1, <1>5, NextSlots, Zenon
  <2>3. next.op = "engine_teardown"
    BY <1>1, <1>5, <2>2 DEF This
  <2> QED
    BY <2>1, <2>2, <2>3 DEF Milds, OpenOps, StreamOps
<1>7. ASSUME todo /= {}
      PROVE  e \in Slots /\ torn \in Milds
  <2>1. e \in Slots /\ es[e].kind = "WT"
    BY <1>3, <1>4, <1>6, <1>7, FirstIn
  <2>2. {} \in SUBSET (Slots \cup Marks)
    OBVIOUS
  <2> QED
    BY <2>1, <2>2, <1>5, MildCalls DEF StreamOps
<1>8. Exit \in Milds /\ Call("conn_fatal") \in Milds
  BY MildCalls DEF PlainOps
<1>9. PICK a : /\ Then(a) \/ AppThen(a)
               /\ \/ /\ a = <<>>
                     /\ es' = [i \in Slots |-> IF i \in todo THEN Torn(es[i])
                                                             ELSE es[i]]
                  \/ /\ todo /= {} /\ a = <<next>>
                     /\ es' = [es EXCEPT ![e] = Torn(es[e])]
                  \/ todo /= {} /\ a = <<Exit, torn, next>> /\ es' = es
                  \/ /\ todo /= {} /\ a = <<Call("conn_fatal"), torn, next>>
                     /\ es' = es
  BY <1>3, <1>4, <1>5, Zenon DEF EngineTeardown
<1>10. a \in Seq(Milds)
  BY <1>6, <1>7, <1>8, <1>9, MildStacks, Zenon
<1>11. \A i \in Slots : Slips(es[i], es[i]) /\ Slips(Torn(es[i]), es[i])
  <2> SUFFICES ASSUME NEW i \in Slots
               PROVE  Slips(es[i], es[i]) /\ Slips(Torn(es[i]), es[i])
    OBVIOUS
  <2>1. es[i] \in StreamType
    BY <1>2
  <2> QED
    BY <2>1, StreamSlips, Zenon
<1>12. \A i \in Slots : Slips(es'[i], es[i])
  <2>1. CASE es' = [i \in Slots |-> IF i \in todo THEN Torn(es[i])
                                                  ELSE es[i]]
    BY <1>11, <2>1
  <2>2. CASE todo /= {} /\ es' = [es EXCEPT ![e] = Torn(es[e])]
    BY <1>7, <1>11, <2>2, OneSlips
  <2>3. CASE es' = es
    BY <1>11, <2>3
  <2> QED
    BY <1>9, <2>1, <2>2, <2>3
<1>13. LetGo
  BY <1>1, <1>12, SlipsGo
<1> QED
  BY <1>1, <1>9, <1>10, <1>13, ThenCalls DEF Over, OpenOps

LEMMA EngineTornLease ==
    ASSUME IInv, IInv', Leased, EngineTorn
    PROVE  Leased'
<1> SUFFICES ASSUME admission
             PROVE  Leased'
  BY DEF Leased, EngineTorn
<1>1. /\ UNCHANGED <<admission, attached, backend, hs, closed, sess>>
      /\ agenda /= <<>> /\ Head(agenda).op = "engine_torn" /\ Then(<<>>)
  BY DEF EngineTorn, At, count, flags, engine
<1>2. This.at \in Slots
  BY <1>1, Under DEF This, Frame, StreamOps
<1>3. es[This.at] \in StreamType
  BY <1>2, Typed DEF Typing
<1>4. Slips(Torn(es[This.at]), es[This.at])
  BY <1>3, StreamSlips, Zenon
<1>5. \A i \in Slots : Slips(es'[i], es[i])
  BY <1>2, <1>4, OneSlips, Zenon DEF EngineTorn
<1>6. LetGo
  BY <1>1, <1>5, SlipsGo
<1>7. <<>> \in Seq(Milds)
  BY MildStacks
<1> QED
  BY <1>1, <1>6, <1>7, ThenCalls, Zenon DEF OpenOps, Over

(* A step beside the stack: nothing is called.                             *)
LEMMA Aside ==
    ASSUME IInv, IInv', Leased,
           UNCHANGED <<admission, attached, backend, closed, sess, agenda>>,
           agenda = <<>> \/ Head(agenda).op \notin OpenOps \cup {"conn_fatal"},
           LetGo
    PROVE  Leased'
<1>1. agenda \in Seq(Frame)
  BY Typed DEF Typing
<1>2. Enter(<<>>) /\ <<>> \in Seq(Milds)
  BY <1>1, MildStacks, ConcatEmptySeq DEF Enter
<1> QED
  BY <1>2, EnterCalls, Zenon DEF Over

(* The FIN that answers a STOP_SENDING.                                    *)
LEMMA DrainedLease ==
    ASSUME IInv, IInv', Leased, NEW e \in Slots, OnDrained(e)
    PROVE  Leased'
<1> SUFFICES ASSUME admission
             PROVE  Leased'
  BY Zenon DEF Leased, OnDrained
<1>1. /\ UNCHANGED <<admission, attached, backend, hs, closed, sess, agenda>>
      /\ agenda = <<>> \/ Head(agenda).op \notin OpenOps \cup {"conn_fatal"}
      /\ es' = [es EXCEPT ![e] = Kept([@ EXCEPT !.drain = FALSE])]
  BY DEF OnDrained, BackendMay, At, Idle, OpenOps, count, flags, engine
<1>2. es[e] \in StreamType
  BY Typed DEF Typing
<1>3. Slips([es[e] EXCEPT !.drain = FALSE], es[e])
  BY <1>2, StreamSlips, Zenon
<1>4. Slips(Kept([es[e] EXCEPT !.drain = FALSE]), es[e])
  BY <1>3, KeptSlips
<1>5. \A i \in Slots : Slips(es'[i], es[i])
  BY <1>1, <1>4, OneSlips, Zenon
<1> QED
  BY <1>1, <1>5, SlipsGo, Aside, Zenon

(* One handle and one stream change.                                       *)
LEMMA OneLetsGo ==
    ASSUME IInv, Leased, admission, NEW h \in Slots, NEW n, NEW e, NEW m,
           hs' = [hs EXCEPT ![h] = n], es' = [es EXCEPT ![e] = m],
           \A i \in Slots : LetsGo(hs[i], IF i = h THEN n ELSE hs[i],
                                   es[i], IF i = e THEN m ELSE es[i], i)
    PROVE  LetGo
<1>1. hs \in [Slots -> HandleType] /\ es \in [Slots -> StreamType]
  BY Typed DEF Typing
<1> SUFFICES ASSUME NEW i \in Slots
             PROVE  LetsGo(hs[i], hs'[i], es[i], es'[i], i)
  BY DEF LetGo
<1>2. /\ hs'[i] = (IF i = h THEN n ELSE hs[i])
      /\ es'[i] = (IF i = e THEN m ELSE es[i])
  BY <1>1
<1> QED
  BY <1>2

(* wtq_stream_enable_send_commit.                                          *)
LEMMA EnableCommitLease ==
    ASSUME IInv, IInv', Leased, NEW h \in Slots, EnableSendCommit(h)
    PROVE  Leased'
<1> SUFFICES ASSUME admission
             PROVE  Leased'
  BY Zenon DEF Leased, EnableSendCommit
<1>1. /\ UNCHANGED <<admission, attached, backend, closed, sess, agenda>>
      /\ agenda = <<>> \/ Head(agenda).op \notin OpenOps \cup {"conn_fatal"}
  BY DEF EnableSendCommit, MayUseStream, InApp, At, Idle, OpenOps, count,
         flags, engine
<1>2. PICK e, n, m : /\ e = Stream(h) /\ n = [hs[h] EXCEPT !.commit = TRUE]
                     /\ m = [es[e] EXCEPT !.commit = TRUE]
  BY Zenon
<1>3. hs' = [hs EXCEPT ![h] = n] /\ es' = [es EXCEPT ![e] = m]
  BY <1>2 DEF EnableSendCommit
<1>4. ASSUME NEW i \in Slots
      PROVE  LetsGo(hs[i], IF i = h THEN n ELSE hs[i],
                    es[i], IF i = e THEN m ELSE es[i], i)
  <2>1. /\ Fits(attached, hs[i], es[i], i)
        /\ hs[i] \in HandleType /\ es[i] \in StreamType
    BY Typed DEF Leased, Typing
  <2>2. Slips(IF i = e THEN m ELSE es[i], es[i])
    BY <2>1, <1>2, StreamSlips, Zenon
  <2>3. PICK r : r = IF i = h THEN n ELSE hs[i]
    OBVIOUS
  <2>4. /\ r.es = hs[i].es /\ r.alive = hs[i].alive /\ r.refs = hs[i].refs
        /\ r.credit = hs[i].credit
    BY <2>1, <2>3, <1>2 DEF HandleType
  <2> QED
    BY <2>1, <2>2, <2>3, <2>4 DEF LetsGo, Fits, Slips
<1>5. LetGo
  BY <1>3, <1>4, OneLetsGo, Zenon
<1> QED
  BY <1>1, <1>5, Aside

-----------------------------------------------------------------------------
(* Inputs for a stream, and operations on one.                             *)

(* A handle with the count, the stream and the lease of another.           *)
Likewise(r, n) ==
    /\ r.refs = n.refs /\ r.alive = n.alive /\ r.es = n.es
    /\ r.credit = n.credit /\ r \in HandleType

LEMMA ShutLikewise ==
    ASSUME NEW n \in HandleType
    PROVE  Likewise(n, n) /\ \A y : Likewise(ShutHandle(n, y), n)
<1> SUFFICES ASSUME NEW y
             PROVE  Likewise(n, n) /\ Likewise(ShutHandle(n, y), n)
  OBVIOUS
<1>1. PICK a, b, c \in BOOLEAN :
        /\ a = (n.send /\ "send" \notin y) /\ b = (n.fin /\ "send" \notin y)
        /\ c = (n.recv /\ "recv" \notin y)
  BY Zenon
<1>2. ShutHandle(n, y) = [n EXCEPT !.send = a, !.fin = b, !.recv = c]
  BY <1>1 DEF ShutHandle, HandleType
<1>3. Likewise([n EXCEPT !.send = a, !.fin = b, !.recv = c], n)
  BY Zenon DEF Likewise, HandleType
<1> QED
  BY <1>2, <1>3 DEF Likewise

(* A handle in use is held, its stream slips or not.                       *)
LEMMA HoldGo ==
    ASSUME IInv, Leased, admission, NEW h \in Slots, hs[h].refs > 0,
           NEW r, Likewise(r, hs[h]), hs' = [hs EXCEPT ![h] = Held(r)],
           \A e \in Slots : Slips(es'[e], es[e])
    PROVE  LetGo
<1> SUFFICES ASSUME NEW i \in Slots
             PROVE  LetsGo(hs[i], hs'[i], es[i], es'[i], i)
  BY DEF LetGo
<1>1. /\ Fits(attached, hs[i], es[i], i)
      /\ hs \in [Slots -> HandleType] /\ hs[i] \in HandleType
      /\ Slips(es'[i], es[i])
  BY Typed DEF Leased, Typing
<1>2. hs'[i] = IF i = h THEN Held(r) ELSE hs[i]
  BY <1>1
<1>3. Held(r).refs = r.refs + 1 /\ r.refs \in Nat /\ Held(r).es = r.es
      /\ Held(r).alive = r.alive /\ Held(r).credit = r.credit
  BY DEF Held, Likewise, HandleType
<1>4. CASE i = h
  <2>1. hs'[i] = Held(r)
    BY <1>2, <1>4
  <2>2. r.refs + 1 > 0 /\ r.refs + 1 /= 0
    BY <1>3
  <2> QED
    BY <1>1, <1>3, <1>4, <2>1, <2>2 DEF LetsGo, Fits, Slips, Likewise
<1>5. CASE i /= h
  <2>1. hs'[i] = hs[i]
    BY <1>2, <1>5
  <2> QED
    BY <1>1, <2>1 DEF LetsGo, Fits, Slips
<1> QED
  BY <1>4, <1>5

(* A handle an engine stream points to is in use.                          *)
LEMMA UserHeld ==
    ASSUME IInv, NEW e \in Slots, es[e].kind = "WT", es[e].user /= None
    PROVE  /\ es[e].user \in Slots /\ hs[es[e].user].refs > 0
           /\ hs[es[e].user] \in HandleType /\ User(e) = hs[es[e].user]
           /\ hs[es[e].user].alive /\ hs[es[e].user].es = e
<1>1. Typing /\ AliveCounted /\ Linked
  BY Typed, AliveHeld DEF IInv
<1>2. es[e].user \in Slots
  BY <1>1 DEF Typing, StreamType
<1> QED
  BY <1>1, <1>2 DEF Typing, AliveCounted, Linked, User

(* The calls an input makes.                                               *)
LEMMA InputMilds ==
    ASSUME IInv, NEW e \in Slots, es[e].kind = "WT", NEW x \in SUBSET Marks
    PROVE  /\ OnStream("engine", e, x) \in Milds
           /\ OnStream("resume", e, x) \in Milds
           /\ <<OnStream("engine", e, x)>> \in Seq(Milds)
           /\ es[e].user /= None =>
                /\ ThenSettle(e, x) \in Seq(Milds)
                /\ OnHandle("settle", es[e].user, x) \in Milds
                /\ OnHandle("drop", es[e].user, {}) \in Milds
<1>1. x \in SUBSET (Slots \cup Marks) /\ {} \in SUBSET (Slots \cup Marks)
  OBVIOUS
<1>2. /\ OnStream("engine", e, x) \in Milds
      /\ OnStream("resume", e, x) \in Milds
  BY <1>1, MildCalls DEF StreamOps
<1>3. ASSUME es[e].user /= None
      PROVE  /\ ThenSettle(e, x) \in Seq(Milds)
             /\ OnHandle("settle", es[e].user, x) \in Milds
             /\ OnHandle("drop", es[e].user, {}) \in Milds
  <2>1. es[e].user \in Slots
    BY <1>3, UserHeld
  <2>2. /\ OnHandle("settle", es[e].user, x) \in Milds
        /\ OnHandle("drop", es[e].user, {}) \in Milds
    BY <1>1, <2>1, MildCalls DEF HandleOps
  <2> QED
    BY <1>3, <2>2, MildStacks DEF ThenSettle
<1> QED
  BY <1>2, <1>3, MildStacks

(* An adapter for a stream callback.                                       *)
LEMMA AdaptLease ==
    ASSUME IInv, IInv', Leased, NEW e \in Slots, es[e].kind = "WT", Ongoing,
           NEW ne, Slips(ne, es[e]), NEW r, NEW todo, NEW rest \in Seq(Milds),
           es[e].user /= None => /\ Likewise(r, hs[es[e].user])
                                 /\ todo \in Seq(Milds),
           Adapt(e, ne, r, todo, rest)
    PROVE  Leased'
<1>1. UNCHANGED <<admission, attached, backend, closed, sess>>
  BY DEF Adapt, flags, engine
<1> SUFFICES ASSUME admission
             PROVE  Leased'
  BY <1>1 DEF Leased
<1>2. \A i \in Slots : Slips(es'[i], es[i])
  BY OneSlips, Zenon DEF Adapt
<1>3. CASE es[e].user = None
  <2>1. hs' = hs /\ Deliver(rest)
    BY <1>3 DEF Adapt
  <2>2. LetGo
    BY <2>1, <1>2, SlipsGo
  <2> QED
    BY <1>1, <2>1, <2>2, DeliverCalls DEF Over
<1>4. CASE es[e].user /= None
  <2>1. PICK h : h = es[e].user
    OBVIOUS
  <2>2. h \in Slots /\ hs[h].refs > 0
    BY <1>4, <2>1, UserHeld
  <2>3. /\ hs' = [hs EXCEPT ![h] = Held(r)] /\ Likewise(r, hs[h])
        /\ AppDeliver(todo \o <<OnHandle("drop", h, {})>> \o rest)
    BY <1>4, <2>1 DEF Adapt
  <2>4. LetGo
    BY <1>2, <2>2, <2>3, HoldGo, Zenon
  <2>5. PICK a : a = todo \o <<OnHandle("drop", h, {})>> \o rest
    BY Zenon
  <2>6. a \in Seq(Milds)
    <3>1. <<OnHandle("drop", h, {})>> \in Seq(Milds) /\ todo \in Seq(Milds)
      BY <1>4, <2>1, InputMilds, MildStacks
    <3> QED
      BY <3>1, <2>5, MildStacks
  <2>7. AppDeliver(a)
    BY <2>3, <2>5
  <2> QED
    BY <1>1, <2>4, <2>6, <2>7, DeliverCalls DEF Over
<1> QED
  BY <1>3, <1>4

LEMMA AdaptTerminalLease ==
    ASSUME IInv, IInv', Leased, NEW e \in Slots, es[e].kind = "WT", Ongoing,
           NEW ne, Slips(ne, es[e]), NEW rest \in Seq(Milds),
           AdaptTerminal(e, ne, rest)
    PROVE  Leased'
<1>1. UNCHANGED <<admission, attached, backend, closed, sess>>
  BY DEF AdaptTerminal, flags, engine
<1> SUFFICES ASSUME admission
             PROVE  Leased'
  BY <1>1 DEF Leased
<1>2. \A i \in Slots : Slips(es'[i], es[i])
  BY OneSlips, Zenon DEF AdaptTerminal
<1>3. CASE es[e].user = None
  <2>1. hs' = hs /\ Deliver(rest)
    BY <1>3 DEF AdaptTerminal
  <2>2. LetGo
    BY <2>1, <1>2, SlipsGo
  <2> QED
    BY <1>1, <2>1, <2>2, DeliverCalls DEF Over
<1>4. CASE es[e].user /= None
  <2>1. PICK h, r : h = es[e].user /\ r = hs[h]
    OBVIOUS
  <2>2. h \in Slots /\ hs[h].refs > 0 /\ r \in HandleType
    BY <1>4, <2>1, UserHeld
  <2>3. /\ hs' = [hs EXCEPT ![h] = Held(r)] /\ Likewise(r, hs[h])
        /\ Deliver(<<OnHandle("settle", h, Halves), OnHandle("drop", h, {})>>
                     \o rest)
    BY <1>4, <2>1, <2>2, ShutLikewise DEF AdaptTerminal
  <2>4. LetGo
    BY <1>2, <2>2, <2>3, HoldGo, Zenon
  <2>5. PICK a : a = <<OnHandle("settle", h, Halves), OnHandle("drop", h, {})>>
                       \o rest
    BY Zenon
  <2>6. a \in Seq(Milds)
    <3>1. Halves \in SUBSET Marks
      BY DEF Halves, Marks
    <3>2. <<OnHandle("settle", h, Halves), OnHandle("drop", h, {})>>
            \in Seq(Milds)
      BY <1>4, <2>1, <3>1, InputMilds, MildStacks, Zenon
    <3> QED
      BY <3>2, <2>5, MildStacks
  <2>7. Deliver(a)
    BY <2>3, <2>5
  <2> QED
    BY <1>1, <2>4, <2>6, <2>7, DeliverCalls DEF Over
<1> QED
  BY <1>3, <1>4

(* Data, resets, STOP_SENDING and room for more.                           *)
LEMMA StreamInputsLease ==
    ASSUME IInv, IInv', Leased, NEW e \in Slots,
           \/ \E fin \in BOOLEAN : OnStreamData(e, fin)
           \/ OnStreamReset(e) \/ OnStopSending(e) \/ OnStreamWritable(e)
    PROVE  Leased'
<1>1. Ongoing /\ es[e].kind = "WT" /\ es[e] \in StreamType
  BY MayDeliver, Typed DEF OnStreamData, OnStreamReset, OnStopSending,
     OnStreamWritable, Open, Typing
<1>2. <<>> \in Seq(Milds)
  BY MildStacks
<1>3. ASSUME NEW x \in SUBSET Marks
      PROVE  /\ <<OnStream("engine", e, x)>> \in Seq(Milds)
             /\ es[e].user /= None => ThenSettle(e, x) \in Seq(Milds)
  BY <1>1, InputMilds
<1>4. {{"recv"}, {"fin"}, {"done"}, {}} \subseteq SUBSET Marks
  BY DEF Marks
<1>5. ASSUME es[e].user /= None
      PROVE  /\ Likewise(User(e), hs[es[e].user])
             /\ \A y : Likewise(ShutHandle(User(e), y), hs[es[e].user])
  BY <1>1, <1>5, UserHeld, ShutLikewise
<1>6. /\ Slips(es[e], es[e]) /\ Slips([es[e] EXCEPT !.recv = FALSE], es[e])
      /\ \A x : Slips(ShutStream(es[e], x), es[e])
  BY <1>1, StreamSlips, Zenon
<1>7. CASE \E fin \in BOOLEAN : OnStreamData(e, fin)
  <2>1. PICK fin \in BOOLEAN : OnStreamData(e, fin)
    BY <1>7
  <2>2. PICK todo, rest :
          /\ todo = IF fin THEN ThenSettle(e, {"recv"}) ELSE <<>>
          /\ rest = IF fin THEN <<OnStream("engine", e, {"fin"})>> ELSE <<>>
    BY Zenon
  <2>3. Adapt(e, es[e], User(e), todo, rest)
    BY <2>1, <2>2 DEF OnStreamData
  <2>4. rest \in Seq(Milds) /\ (es[e].user /= None => todo \in Seq(Milds))
    BY <2>2, <1>2, <1>3, <1>4
  <2> QED
    BY <2>3, <2>4, <1>1, <1>5, <1>6, AdaptLease
<1>8. CASE OnStreamReset(e)
  <2>1. PICK todo, rest : /\ todo = ThenSettle(e, {"recv"})
                          /\ rest = <<OnStream("engine", e, {"done"})>>
    BY Zenon
  <2>2. Adapt(e, [es[e] EXCEPT !.recv = FALSE], User(e), todo, rest)
    BY <1>8, <2>1 DEF OnStreamReset
  <2>3. rest \in Seq(Milds) /\ (es[e].user /= None => todo \in Seq(Milds))
    BY <2>1, <1>3, <1>4
  <2> QED
    BY <2>2, <2>3, <1>1, <1>5, <1>6, AdaptLease
<1>9. CASE OnStopSending(e)
  <2>1. PICK x, y, todo, rest :
          /\ x = IF es[e].commit THEN {"send"} ELSE {}
          /\ y = IF User(e).commit THEN {"send"} ELSE {}
          /\ todo = IF User(e).commit THEN ThenSettle(e, {}) ELSE <<>>
          /\ rest = IF es[e].commit THEN <<OnStream("engine", e, {})>>
                                    ELSE <<>>
    BY Zenon
  <2>2. Adapt(e, ShutStream(es[e], x), ShutHandle(User(e), y), todo, rest)
    BY <1>9, <2>1 DEF OnStopSending
  <2>3. rest \in Seq(Milds) /\ (es[e].user /= None => todo \in Seq(Milds))
    BY <2>1, <1>2, <1>3, <1>4
  <2> QED
    BY <2>2, <2>3, <1>1, <1>5, <1>6, AdaptLease
<1>10. CASE OnStreamWritable(e)
  <2>1. PICK todo : todo = <<>>
    OBVIOUS
  <2>2. Adapt(e, es[e], User(e), todo, todo) /\ todo \in Seq(Milds)
    BY <1>2, <1>10, <2>1 DEF OnStreamWritable
  <2> QED
    BY <2>2, <1>1, <1>5, <1>6, AdaptLease
<1> QED
  BY <1>7, <1>8, <1>9, <1>10

(* The native stream is over.                                              *)
LEMMA StreamTerminalLease ==
    ASSUME IInv, IInv', Leased, NEW e \in Slots, OnStreamTerminal(e)
    PROVE  Leased'
<1>1. Ongoing /\ es[e].kind = "WT" /\ es[e] \in StreamType
  BY MayDeliver, Typed DEF OnStreamTerminal, Open, Typing
<1>2. PICK over : over = [es[e] EXCEPT !.send = FALSE, !.fin = FALSE,
                                       !.recv = FALSE, !.drain = FALSE]
  OBVIOUS
<1>3. Slips(over, es[e])
  BY <1>1, <1>2, StreamSlips, Zenon
<1>4. CASE AdaptTerminal(e, over, <<OnStream("engine", e, {"free"})>>)
  <2>1. PICK rest : rest = <<OnStream("engine", e, {"free"})>>
    BY Zenon
  <2>2. {"free"} \in SUBSET Marks
    BY DEF Marks
  <2>3. rest \in Seq(Milds)
    BY <1>1, <2>1, <2>2, InputMilds
  <2> QED
    BY <1>1, <1>3, <1>4, <2>1, <2>3, AdaptTerminalLease
<1>5. CASE /\ es' = [es EXCEPT ![e] = Released(over)] /\ ~At("resume")
           /\ UNCHANGED <<admission, count, flags, engine, hs, streams,
                          agenda, history>>
  <2>1. Slips(Released(over), es[e])
    BY <1>1, <1>3 DEF Slips, Released, NoStream
  <2>2. /\ UNCHANGED <<admission, attached, backend, hs, closed, sess, agenda>>
        /\ agenda = <<>> \/ Head(agenda).op \notin OpenOps \cup {"conn_fatal"}
    BY <1>1, <1>5 DEF Ongoing, OpenOps, count, flags, engine
  <2> SUFFICES ASSUME admission
               PROVE  Leased'
    BY <2>2 DEF Leased
  <2>3. \A i \in Slots : Slips(es'[i], es[i])
    BY <1>5, <2>1, OneSlips, Zenon
  <2>4. LetGo
    BY <2>2, <2>3, SlipsGo
  <2> QED
    BY <2>2, <2>4, Aside
<1> QED
  BY <1>2, <1>4, <1>5 DEF OnStreamTerminal

(* The stream of a live handle that was given out.                         *)
LEMMA GivenStream ==
    ASSUME IInv, NEW h \in Slots, MayUseStream(h), hs[h].alive
    PROVE  Stream(h) \in Slots /\ hs[h].refs > 0
<1>1. Typing /\ AliveCounted /\ Linked
  BY Typed, AliveHeld DEF IInv
<1>2. hs[h].es \in Slots \cup {None} /\ hs[h].app \in Nat
  BY <1>1 DEF Typing, HandleType
<1> QED
  BY <1>1, <1>2 DEF Linked, AliveCounted, MayUseStream, Usable, Stream

(* wtq_stream_resume_receive.                                              *)
LEMMA ResumeLease ==
    ASSUME IInv, IInv', Leased, NEW h \in Slots, Resume(h)
    PROVE  Leased'
<1>1. PICK e : e = Stream(h)
  OBVIOUS
<1>2. Ongoing /\ es[e].kind = "WT" /\ e \in Slots
  BY <1>1, MayDeliver, GivenStream DEF Resume, Open
<1>3. es[e] \in StreamType
  BY <1>2, Typed DEF Typing
<1>4. /\ OnStream("resume", e, {}) \in Milds /\ Exit \in Milds
      /\ OnStream("engine", e, {"fin"}) \in Milds
      /\ es[e].user /= None => ThenSettle(e, {"recv"}) \in Seq(Milds)
  <2>1. {{"recv"}, {"fin"}, {}} \subseteq SUBSET Marks
    BY DEF Marks
  <2> QED
    BY <2>1, <1>2, InputMilds, MildCalls
<1>5. CASE Adapt(e, es[e], User(e), ThenSettle(e, {"recv"}),
                 <<OnStream("engine", e, {"fin"}), OnStream("resume", e, {})>>)
  <2>1. PICK todo, rest :
          /\ todo = ThenSettle(e, {"recv"})
          /\ rest = <<OnStream("engine", e, {"fin"}), OnStream("resume", e, {})>>
    BY Zenon
  <2>2. rest \in Seq(Milds) /\ (es[e].user /= None => todo \in Seq(Milds))
    BY <1>4, <2>1, MildStacks
  <2>3. es[e].user /= None => Likewise(User(e), hs[es[e].user])
    BY <1>2, UserHeld, ShutLikewise
  <2>4. Slips(es[e], es[e])
    BY <1>3, StreamSlips, Zenon
  <2> QED
    BY <1>2, <1>5, <2>1, <2>2, <2>3, <2>4, AdaptLease, Zenon
<1>6. CASE /\ Enter(<<OnStream("resume", e, {}), Exit>>)
           /\ cbDepth' = cbDepth + 1
           /\ UNCHANGED <<admission, refs, freed, backend, appRefs, flags,
                          engine, hs, es, streams, history>>
  <2>1. PICK a : a = <<OnStream("resume", e, {}), Exit>>
    BY Zenon
  <2>2. a \in Seq(Milds) /\ Enter(a)
    BY <1>4, <1>6, <2>1, MildStacks
  <2>3. UNCHANGED <<admission, attached, backend, hs, es, closed, sess>>
    BY <1>6 DEF flags, engine
  <2>4. agenda = <<>> \/ Head(agenda).op \notin OpenOps \cup {"conn_fatal"}
    BY <1>2 DEF Ongoing, OpenOps
  <2> QED
    BY <2>2, <2>3, <2>4, EnterCalls DEF Over
<1> QED
  BY <1>1, <1>5, <1>6 DEF Resume

(* Sends and shutdowns.                                                    *)
LEMMA OperateLease ==
    ASSUME IInv, IInv', Leased, NEW h \in Slots, hs[h].refs > 0, Ongoing,
           NEW rest \in Seq(Milds), Operate(h, rest)
    PROVE  Leased'
<1>1. UNCHANGED <<admission, attached, backend, closed, sess, es>>
  BY DEF Operate, flags, engine
<1> SUFFICES ASSUME admission
             PROVE  Leased'
  BY <1>1 DEF Leased
<1>2. hs[h] \in HandleType /\ \A i \in Slots : es[i] \in StreamType
  BY Typed DEF Typing
<1>3. \A i \in Slots : Slips(es'[i], es[i])
  BY <1>1, <1>2, StreamSlips, Zenon
<1>4. PICK r : r = hs[h]
  OBVIOUS
<1>5. hs' = [hs EXCEPT ![h] = Held(r)] /\ Likewise(r, hs[h])
  BY <1>2, <1>4, ShutLikewise DEF Operate
<1>6. LetGo
  BY <1>3, <1>5, HoldGo, Zenon
<1>7. PICK a : a = <<Exit>> \o rest \o <<OnHandle("drop", h, {})>>
  BY Zenon
<1>8. a \in Seq(Milds)
  <2>1. {} \in SUBSET (Slots \cup Marks)
    OBVIOUS
  <2>2. Exit \in Milds /\ OnHandle("drop", h, {}) \in Milds
    BY <2>1, MildCalls DEF HandleOps
  <2> QED
    BY <2>2, <1>7, MildStacks
<1>9. AppEnter(a)
  BY <1>7 DEF Operate
<1>10. agenda = <<>> \/ Head(agenda).op \notin OpenOps \cup {"conn_fatal"}
  BY DEF Ongoing, OpenOps
<1> QED
  BY <1>1, <1>6, <1>8, <1>9, <1>10, EnterCalls DEF Over

LEMMA OperationsLease ==
    ASSUME IInv, IInv', Leased, NEW h \in Slots,
           \/ \E fin \in BOOLEAN : StreamSend(h, fin)
           \/ \E x \in SUBSET Halves : StreamShut(h, x)
    PROVE  Leased'
<1>1. PICK e : e = Stream(h)
  OBVIOUS
<1>2. /\ e \in Slots /\ hs[h].refs > 0 /\ Ongoing /\ es[e].kind = "WT"
  BY <1>1, GivenStream, MayDeliver, Zenon DEF StreamSend, StreamShut, Open
<1>3. ASSUME NEW x \in SUBSET Marks
      PROVE  /\ OnStream("engine", e, x) \in Milds
             /\ OnHandle("settle", h, x) \in Milds
             /\ Call("conn_fatal") \in Milds
  <2>1. x \in SUBSET (Slots \cup Marks)
    OBVIOUS
  <2> QED
    BY <2>1, <1>2, InputMilds, MildCalls DEF HandleOps, PlainOps
<1>4. CASE \E fin \in BOOLEAN : StreamSend(h, fin)
  <2>1. PICK fin \in BOOLEAN : StreamSend(h, fin)
    BY <1>4
  <2>2. PICK rest :
          rest = IF fin THEN <<OnStream("engine", e, {"last"}),
                               OnHandle("settle", h, {"last"})>>
                        ELSE <<OnStream("engine", e, {"sent"})>>
    BY Zenon
  <2>3. {{"last"}, {"sent"}} \subseteq SUBSET Marks
    BY DEF Marks
  <2>4. rest \in Seq(Milds)
    BY <1>3, <2>2, <2>3, MildStacks
  <2>5. Operate(h, rest)
    BY <1>1, <2>1, <2>2 DEF StreamSend
  <2> QED
    BY <1>2, <2>4, <2>5, OperateLease
<1>5. CASE \E x \in SUBSET Halves : StreamShut(h, x)
  <2>1. PICK x \in SUBSET Halves : StreamShut(h, x)
    BY <1>5
  <2>2. x \in SUBSET Marks /\ {"shut"} \cup (x \cap Live(e)) \in SUBSET Marks
    BY Zenon DEF Halves, Marks
  <2>3. PICK rest :
          /\ Operate(h, rest)
          /\ \/ rest = <<OnStream("engine", e, {"shut"} \cup (x \cap Live(e))),
                         OnHandle("settle", h, x)>>
             \/ rest = <<Call("conn_fatal")>>
    BY <1>1, <2>1 DEF StreamShut
  <2>4. rest \in Seq(Milds)
    BY <1>3, <2>2, <2>3, MildStacks, Zenon
  <2> QED
    BY <1>2, <2>3, <2>4, OperateLease
<1> QED
  BY <1>4, <1>5

-----------------------------------------------------------------------------
(* References and ends.                                                    *)

(* One slot's handle changes, and nothing of another slot's stream.        *)
LEMMA SlotGoes ==
    ASSUME IInv, Leased, admission, NEW h \in Slots, NEW n,
           hs' = [hs EXCEPT ![h] = n],
           \A i \in Slots : i /= h => es'[i] = es[i],
           LetsGo(hs[h], n, es[h], es'[h], h)
    PROVE  LetGo
<1> SUFFICES ASSUME NEW i \in Slots
             PROVE  LetsGo(hs[i], hs'[i], es[i], es'[i], i)
  BY DEF LetGo
<1>1. /\ Fits(attached, hs[i], es[i], i)
      /\ hs \in [Slots -> HandleType]
  BY Typed DEF Leased, Typing
<1>2. CASE i = h
  BY <1>1, <1>2
<1>3. CASE i /= h
  <2>1. hs'[i] = hs[i] /\ es'[i] = es[i]
    BY <1>1, <1>3
  <2> QED
    BY <1>1, <2>1 DEF LetsGo, Fits
<1> QED
  BY <1>2, <1>3

(* What a slot has of its own.                                             *)
LEMMA Own ==
    ASSUME IInv, Leased, admission, NEW h \in Slots
    PROVE  /\ hs[h] \in HandleType /\ es[h] \in StreamType
           /\ hs \in [Slots -> HandleType] /\ es \in [Slots -> StreamType]
           /\ Fits(attached, hs[h], es[h], h)
           /\ hs[h].es \in {None, h} /\ hs[h].credit \in {None, h}
           /\ es[h].user \in {None, h} /\ h /= None
<1>1. /\ hs[h] \in HandleType /\ es[h] \in StreamType
      /\ hs \in [Slots -> HandleType] /\ es \in [Slots -> StreamType]
      /\ Fits(attached, hs[h], es[h], h)
  BY Typed DEF Leased, Typing
<1> QED
  BY <1>1, ApiAssumption DEF Fits

(* wtq_stream_add_ref.                                                     *)
LEMMA StreamAddRefLease ==
    ASSUME IInv, IInv', Leased, NEW h \in Slots, StreamAddRef(h)
    PROVE  Leased'
<1>1. /\ UNCHANGED <<admission, attached, backend, closed, sess, agenda, es>>
      /\ agenda = <<>> \/ Head(agenda).op \notin OpenOps \cup {"conn_fatal"}
      /\ hs[h].refs > 0
  BY DEF StreamAddRef, MayUseStream, InApp, At, Idle, OpenOps, flags, engine
<1> SUFFICES ASSUME admission
             PROVE  Leased'
  BY <1>1 DEF Leased
<1>2. PICK n : n = [hs[h] EXCEPT !.refs = @ + 1, !.app = @ + 1]
  OBVIOUS
<1>3. hs[h] \in HandleType /\ Fits(attached, hs[h], es[h], h)
  BY Own
<1>4. /\ n.refs = hs[h].refs + 1 /\ hs[h].refs \in Nat /\ n.es = hs[h].es
      /\ n.alive = hs[h].alive /\ n.credit = hs[h].credit
  BY <1>2, <1>3 DEF HandleType
<1>5. n.refs /= 0
  BY <1>4
<1>6. LetsGo(hs[h], n, es[h], es'[h], h)
  BY <1>1, <1>3, <1>4, <1>5 DEF LetsGo, Fits
<1>7. hs' = [hs EXCEPT ![h] = n]
  BY <1>2, Zenon DEF StreamAddRef
<1>8. LetGo
  BY <1>1, <1>6, <1>7, SlotGoes, Zenon
<1> QED
  BY <1>1, <1>8, Aside

(* stream_credit_release: a handle's count changes, and with the last      *)
(* reference the handle is emptied and its lease ends.                     *)
LEMMA CountGo ==
    ASSUME IInv, Leased, admission, NEW h \in Slots, NEW r,
           r.es = hs[h].es, r.alive = hs[h].alive, r.credit = hs[h].credit,
           r.refs > 0 => r.refs /= 0,
           r.refs > 0 /\ ~Over' => hs[h].refs > 0,
           hs' = [hs EXCEPT ![h] = Uncredited(r)], es' = CreditRelease(r)
    PROVE  LetGo
<1>1. /\ es \in [Slots -> StreamType] /\ es[h] \in StreamType
      /\ Fits(attached, hs[h], es[h], h) /\ r.credit \in {None, h}
      /\ h /= None
  BY Own
<1>2. PICK n : n = Uncredited(r)
  OBVIOUS
<1>3. \A i \in Slots : i /= h => es'[i] = es[i]
  BY <1>1 DEF CreditRelease
<1>4. LetsGo(hs[h], n, es[h], es'[h], h)
  <2>1. CASE r.refs = 0
    <3>1. /\ n.es = None /\ n.alive = FALSE /\ n.credit = None /\ n.refs = 0
      BY <1>2, <2>1 DEF Uncredited, NoHandle
    <3>2. /\ es'[h].user = es[h].user /\ es'[h].kind = es[h].kind
          /\ es'[h].resident = es[h].resident
      BY <1>1 DEF CreditRelease, StreamType
    <3>3. ~(n.refs > 0)
      BY <3>1
    <3> QED
      BY <3>1, <3>2, <3>3 DEF LetsGo
  <2>2. CASE r.refs /= 0
    <3>1. n = r /\ es' = es
      BY <1>2, <2>2 DEF Uncredited, CreditRelease
    <3> QED
      BY <1>1, <2>2, <3>1 DEF LetsGo, Fits
  <2> QED
    BY <2>1, <2>2
<1> QED
  BY <1>2, <1>3, <1>4, SlotGoes, Zenon

(* stream_drop.                                                            *)
LEMMA DropGo ==
    ASSUME IInv, Leased, admission, NEW h \in Slots, DropRef(h)
    PROVE  LetGo
<1>1. PICK r : r = OneLess(hs[h])
  OBVIOUS
<1>2. hs[h] \in HandleType
  BY Own
<1>3. /\ r.es = hs[h].es /\ r.alive = hs[h].alive /\ r.credit = hs[h].credit
      /\ r.refs = (IF hs[h].refs > 0 THEN hs[h].refs - 1 ELSE hs[h].refs)
      /\ hs[h].refs \in Nat
  BY <1>1, <1>2 DEF OneLess, HandleType
<1>4. (r.refs > 0 => r.refs /= 0) /\ (r.refs > 0 => hs[h].refs > 0)
  BY <1>3
<1>5. hs' = [hs EXCEPT ![h] = Uncredited(r)] /\ es' = CreditRelease(r)
  BY <1>1 DEF DropRef
<1> QED
  BY <1>3, <1>4, <1>5, CountGo, Zenon

LEMMA DropsLease ==
    ASSUME IInv, IInv', Leased, DropAndExit \/ SlotRelease \/ CommitEnd
    PROVE  Leased'
<1>1. /\ UNCHANGED <<admission, attached, backend, closed, sess>>
      /\ agenda /= <<>> /\ Head(agenda).op \notin OpenOps \cup {"conn_fatal"}
      /\ Head(agenda).op \in HandleOps /\ DropRef(This.at)
  BY DEF DropAndExit, SlotRelease, CommitEnd, At, OpenOps, HandleOps, count,
         flags, engine
<1> SUFFICES ASSUME admission
             PROVE  Leased'
  BY <1>1 DEF Leased
<1>2. This.at \in Slots
  BY <1>1, Under DEF This, Frame
<1>3. LetGo
  BY <1>1, <1>2, DropGo
<1>4. <<>> \in Seq(Milds) /\ <<Exit>> \in Seq(Milds)
  BY MildStacks, MildCalls
<1>5. \/ Then(<<>>)
      \/ AppThen(<<Exit>>)
  BY Zenon DEF DropAndExit, SlotRelease, CommitEnd
<1> QED
  BY <1>1, <1>3, <1>4, <1>5, ThenCalls, Zenon DEF Over

(* wtq_stream_release: behind the session's end the count may underflow.   *)
LEMMA StreamReleaseLease ==
    ASSUME IInv, IInv', Leased, NEW h \in Slots, StreamRelease(h)
    PROVE  Leased'
<1>1. /\ UNCHANGED <<admission, attached, backend, closed, sess, agenda>>
      /\ agenda = <<>> \/ Head(agenda).op \notin OpenOps \cup {"conn_fatal"}
      /\ hs[h].app > 0
  BY DEF StreamRelease, InApp, At, Idle, OpenOps, flags, engine
<1> SUFFICES ASSUME admission
             PROVE  Leased'
  BY <1>1 DEF Leased
<1>2. PICK r : r = [hs[h] EXCEPT !.app = @ - 1,
                      !.refs = IF @ = 0 THEN RefMod - 1 ELSE @ - 1]
  OBVIOUS
<1>3. hs[h] \in HandleType
  BY Own
<1>4. /\ r.es = hs[h].es /\ r.alive = hs[h].alive /\ r.credit = hs[h].credit
      /\ hs[h].refs \in Nat /\ hs[h].app \in Nat
  BY <1>2, <1>3 DEF HandleType
<1>5. hs[h].refs = 0 => Over
  BY <1>1, <1>4, Counts
<1>6. r.refs > 0 /\ ~Over' => hs[h].refs > 0
  BY <1>1, <1>4, <1>5 DEF Over
<1>7. hs' = [hs EXCEPT ![h] = Uncredited(r)] /\ es' = CreditRelease(r)
  BY <1>2 DEF StreamRelease
<1>8. r.refs > 0 => r.refs /= 0
  OBVIOUS
<1>9. LetGo
  BY <1>4, <1>6, <1>7, <1>8, CountGo, Zenon
<1> QED
  BY <1>1, <1>9, Aside

(* stream_unlink.                                                          *)
LEMMA UnlinkGo ==
    ASSUME IInv, Leased, admission, NEW h \in Slots, NEW r,
           Likewise(r, hs[h]), NEW m, Slips(m, es[h]),
           \A i \in Slots : i /= h => es'[i] = es[i],
           es'[h] = m \/ es'[h] = [m EXCEPT !.user = None], m \in StreamType,
           NEW n, n.alive = FALSE, n.es = None, n.credit = r.credit,
           n.refs = r.refs \/ (n.refs = r.refs + 1 /\ hs[h].refs > 0),
           hs' = [hs EXCEPT ![h] = n]
    PROVE  LetGo
<1>1. Fits(attached, hs[h], es[h], h) /\ hs[h] \in HandleType
  BY Own
<1>2. /\ es'[h].user \in {es[h].user, None}
      /\ es'[h].kind = m.kind /\ es'[h].resident = m.resident
      /\ es'[h].lease = m.lease
  BY DEF Slips, StreamType
<1>3. r.refs \in Nat /\ (n.refs = 0 => hs[h].refs = 0)
      /\ (n.refs > 0 => hs[h].refs > 0)
  BY DEF Likewise, HandleType
<1>4. LetsGo(hs[h], n, es[h], es'[h], h)
  BY <1>1, <1>2, <1>3 DEF LetsGo, Fits, Slips, Likewise
<1> QED
  BY <1>4, SlotGoes, Zenon

LEMMA StreamUnlinkGo ==
    ASSUME IInv, Leased, admission, NEW h \in Slots, NEW r,
           Likewise(r, hs[h]), StreamUnlink(h, r)
    PROVE  LetGo
<1>1. /\ es \in [Slots -> StreamType] /\ es[h] \in StreamType
      /\ r.es \in {None, h} /\ h /= None /\ r \in HandleType
  BY Own DEF Likewise
<1>2. PICK n, m : n = [r EXCEPT !.alive = FALSE, !.es = None] /\ m = es[h]
  OBVIOUS
<1>3. n.alive = FALSE /\ n.es = None /\ n.credit = r.credit /\ n.refs = r.refs
  BY <1>1, <1>2 DEF HandleType
<1>4. /\ hs' = [hs EXCEPT ![h] = n]
      /\ es' = IF r.es = None THEN es ELSE [es EXCEPT ![r.es].user = None]
  BY <1>2 DEF StreamUnlink
<1>5. /\ \A i \in Slots : i /= h => es'[i] = es[i]
      /\ es'[h] = m \/ es'[h] = [m EXCEPT !.user = None]
  <2>1. CASE r.es = None
    BY <1>2, <1>4, <2>1
  <2>2. CASE r.es = h
    BY <1>1, <1>2, <1>4, <2>2
  <2> QED
    BY <1>1, <2>1, <2>2
<1>6. m \in StreamType /\ Slips(m, es[h])
  BY <1>1, <1>2, StreamSlips, Zenon
<1> QED
  BY <1>3, <1>4, <1>5, <1>6, UnlinkGo, Zenon

(* The halves of a handle change.                                          *)
LEMMA AlikeGo ==
    ASSUME IInv, Leased, admission, NEW h \in Slots, NEW r,
           Likewise(r, hs[h]), hs' = [hs EXCEPT ![h] = r], es' = es
    PROVE  LetGo
<1>1. Fits(attached, hs[h], es[h], h)
  BY Own
<1>2. LetsGo(hs[h], r, es[h], es'[h], h)
  BY <1>1 DEF LetsGo, Fits, Likewise
<1> QED
  BY <1>2, SlotGoes, Zenon

LEMMA ClosedMilds ==
    ASSUME IInv, NEW h \in Slots
    PROVE  /\ ClosedCalls(h) \in Seq(Milds)
           /\ OnHandle("committed", h, {}) \in Milds
<1>1. {} \in SUBSET (Slots \cup Marks)
  OBVIOUS
<1>2. /\ OnHandle("slot_release", h, {}) \in Milds
      /\ OnHandle("committed", h, {}) \in Milds
  BY <1>1, MildCalls DEF HandleOps
<1> QED
  BY <1>2, MildStacks DEF ClosedCalls

(* stream_maybe_terminal.                                                  *)
LEMMA SettleLease ==
    ASSUME IInv, IInv', Leased, Settle
    PROVE  Leased'
<1>1. /\ UNCHANGED <<admission, attached, backend, closed, sess>>
      /\ agenda /= <<>> /\ Head(agenda).op = "settle"
  BY DEF Settle, At, count, flags, engine
<1> SUFFICES ASSUME admission
             PROVE  Leased'
  BY <1>1 DEF Leased
<1>2. PICK h, x, r0 : h = This.at /\ x = This.x /\ r0 = hs[h]
  OBVIOUS
<1>3. h \in Slots
  BY <1>1, <1>2, Under DEF This, Frame, HandleOps
<1>4. r0 \in HandleType
  BY <1>2, <1>3, Own
<1>5. PICK r : r = (CASE ~r0.alive -> r0
                      [] "last" \in x -> [r0 EXCEPT !.send = FALSE,
                                                    !.fin = r0.commit]
                      [] OTHER -> ShutHandle(r0, x))
  OBVIOUS
<1>6. Likewise(r, hs[h])
  <2>1. Likewise(r0, r0) /\ Likewise(ShutHandle(r0, x), r0)
    BY <1>4, ShutLikewise
  <2>2. Likewise([r0 EXCEPT !.send = FALSE, !.fin = r0.commit], r0)
    BY <1>4, Zenon DEF Likewise, HandleType
  <2> QED
    BY <2>1, <2>2, <1>2, <1>5
<1>7. SettleHandle(h, r)
  BY <1>2, <1>5 DEF Settle
<1>8. CASE HandleOver(r)
  <2>1. StreamUnlink(h, r) /\ AppThen(ClosedCalls(h))
    BY <1>7, <1>8 DEF SettleHandle
  <2>2. LetGo
    BY <2>1, <1>3, <1>6, StreamUnlinkGo
  <2>3. PICK a : a = ClosedCalls(h)
    OBVIOUS
  <2>4. a \in Seq(Milds) /\ AppThen(a)
    BY <2>1, <2>3, <1>3, ClosedMilds
  <2> QED
    BY <1>1, <2>2, <2>4, ThenCalls DEF Over, OpenOps
<1>9. CASE ~HandleOver(r)
  <2>1. hs' = [hs EXCEPT ![h] = r] /\ es' = es /\ Then(<<>>)
    BY <1>7, <1>9 DEF SettleHandle
  <2>2. LetGo
    BY <2>1, <1>3, <1>6, AlikeGo, Zenon
  <2> QED
    BY <1>1, <2>1, <2>2, MildStacks, ThenCalls, Zenon DEF Over, OpenOps
<1> QED
  BY <1>8, <1>9

(* streams_teardown.                                                       *)
LEMMA StreamsTeardownLease ==
    ASSUME IInv, IInv', Leased, StreamsTeardown
    PROVE  Leased'
<1>1. /\ UNCHANGED <<admission, attached, backend, closed, sess>>
      /\ agenda /= <<>> /\ Head(agenda).op = "streams_teardown"
  BY DEF StreamsTeardown, At, count, flags, engine
<1> SUFFICES ASSUME admission
             PROVE  Leased'
  BY <1>1 DEF Leased
<1>2. PICK f, todo : /\ f = This
                     /\ todo = {h \in f.x : hs[h].refs > 0 /\ hs[h].alive}
  BY Zenon
<1>3. PICK h, next : h = First(todo) /\ next = [f EXCEPT !.x = todo \ {h}]
  BY Zenon
<1>4. todo \subseteq Slots /\ next \in Milds
  <2>1. f.op \in SlotSetOps /\ todo \subseteq f.x /\ todo \ {h} \subseteq f.x
        /\ f \in Frame
    BY <1>1, <1>2, Under DEF SlotSetOps, This
  <2>2. next \in Frame /\ next.op = f.op /\ f.x \subseteq Slots
    BY <2>1, <1>3, NextSlots
  <2>3. next.op = "streams_teardown"
    BY <1>1, <1>2, <2>2 DEF This
  <2> QED
    BY <2>1, <2>2, <2>3 DEF Milds, OpenOps, StreamOps
<1>5. CASE todo = {} /\ Then(<<>>) /\ UNCHANGED <<hs, es, told>>
  BY <1>1, <1>5, MildStacks, ThenCalls, Zenon DEF Over, OpenOps
<1>6. CASE /\ todo /= {} /\ StreamUnlink(h, ShutHandle(hs[h], Halves))
           /\ AppThen(ClosedCalls(h) \o <<next>>)
  <2>1. h \in Slots
    BY <1>3, <1>4, <1>6, FirstIn
  <2>2. PICK r : r = ShutHandle(hs[h], Halves)
    OBVIOUS
  <2>3. Likewise(r, hs[h])
    BY <2>1, <2>2, Own, ShutLikewise
  <2>4. LetGo
    BY <2>1, <2>2, <2>3, <1>6, StreamUnlinkGo
  <2>5. PICK a : a = ClosedCalls(h) \o <<next>>
    BY Zenon
  <2>6. a \in Seq(Milds) /\ AppThen(a)
    BY <2>1, <2>5, <1>4, <1>6, ClosedMilds, MildStacks
  <2> QED
    BY <1>1, <2>4, <2>6, ThenCalls DEF Over, OpenOps
<1> QED
  BY <1>2, <1>3, <1>5, <1>6 DEF StreamsTeardown

(* A commit stream's send half is over.                                    *)
LEMMA SendShutdownLease ==
    ASSUME IInv, IInv', Leased, NEW e \in Slots, NEW graceful \in BOOLEAN,
           OnSendShutdown(e, graceful)
    PROVE  Leased'
<1>1. /\ UNCHANGED <<admission, attached, backend, closed, sess>>
      /\ Ongoing /\ es[e].kind = "WT"
  BY MayDeliver DEF OnSendShutdown, Open, AdaptTerminal, flags, engine
<1> SUFFICES ASSUME admission
             PROVE  Leased'
  BY <1>1 DEF Leased
<1>2. PICK h, ne, rest :
        /\ h = es[e].user
        /\ ne = [es[e] EXCEPT !.fin = FALSE, !.send = FALSE]
        /\ rest = <<OnStream("engine", e, {})>>
  BY Zenon
<1>3. /\ es[e] \in StreamType /\ ne \in StreamType /\ Slips(ne, es[e])
      /\ es \in [Slots -> StreamType]
  <2>1. es[e] \in StreamType /\ es \in [Slots -> StreamType]
    BY Own
  <2>2. ne \in StreamType
    BY <2>1, <1>2, Zenon DEF StreamType
  <2> QED
    BY <2>1, <2>2, <1>2, StreamSlips, Zenon
<1>4. rest \in Seq(Milds)
  <2>1. {} \in SUBSET Marks
    OBVIOUS
  <2> QED
    BY <1>1, <1>2, <2>1, InputMilds
<1>5. CASE AdaptTerminal(e, ne, rest)
  BY <1>1, <1>3, <1>4, <1>5, AdaptTerminalLease
<1>6. CASE /\ h /= None
           /\ hs' = [hs EXCEPT ![h] = [Held(ShutHandle(@, {"send"}))
                        EXCEPT !.alive = FALSE, !.es = None]]
           /\ es' = [es EXCEPT ![e] = [ne EXCEPT !.user = None]]
           /\ AppDeliver(<<OnHandle("committed", h, {})>> \o rest)
  <2>1. /\ h \in Slots /\ hs[h].refs > 0 /\ hs[h] \in HandleType /\ h = e
    BY <1>1, <1>2, <1>6, UserHeld, Own
  <2>2. PICK r : r = ShutHandle(hs[h], {"send"})
    OBVIOUS
  <2>3. Likewise(r, hs[h]) /\ r \in HandleType
    BY <2>1, <2>2, ShutLikewise DEF Likewise
  <2>4. PICK n : n = [Held(r) EXCEPT !.alive = FALSE, !.es = None]
    OBVIOUS
  <2>5. /\ n.alive = FALSE /\ n.es = None /\ n.credit = r.credit
        /\ n.refs = r.refs + 1
    BY <2>3, <2>4 DEF Held, HandleType
  <2>6. hs' = [hs EXCEPT ![h] = n]
    BY <1>6, <2>1, <2>2, <2>4
  <2>7. /\ es'[h] = [ne EXCEPT !.user = None]
        /\ \A i \in Slots : i /= h => es'[i] = es[i]
    BY <1>3, <1>6, <2>1
  <2>8. LetGo
    BY <2>1, <2>3, <2>5, <2>6, <2>7, <1>3, UnlinkGo, Zenon
  <2>9. PICK a : a = <<OnHandle("committed", h, {})>> \o rest
    BY Zenon
  <2>10. a \in Seq(Milds) /\ AppDeliver(a)
    BY <2>1, <2>9, <1>4, <1>6, ClosedMilds, MildStacks
  <2> QED
    BY <1>1, <2>8, <2>10, DeliverCalls DEF Over
<1> QED
  BY <1>2, <1>5, <1>6, Zenon DEF OnSendShutdown

-----------------------------------------------------------------------------
(* Slots that are given out and given back.                                *)

(* A step that changes one slot, and what waits.                           *)
LEMMA CarrySlot ==
    ASSUME IInv, IInv', Leased, admission,
           UNCHANGED <<admission, attached, backend, closed, sess>>,
           NEW h \in Slots,
           \A i \in Slots : i /= h => hs'[i] = hs[i] /\ es'[i] = es[i],
           Fits(attached, hs'[h], es'[h], h), InOpen(h)', Lone(agenda'),
           \A f \in Waiting(agenda) :
              f.op \in OpenOps /\ f.x /= {h} => f \in Waiting(agenda'),
           \A f \in Waiting(agenda') :
              f.op \in OpenOps \cup StreamOps => Needs(f)'
    PROVE  Leased'
<1>1. attached' \/ ~backend'
  BY DEF Leased
<1>2. ASSUME NEW i \in Slots
      PROVE  Fits(attached, hs[i], es[i], i)' /\ InOpen(i)'
  <2>1. CASE i = h
    BY <2>1 DEF Fits
  <2>2. CASE i /= h
    <3>1. hs'[i] = hs[i] /\ es'[i] = es[i]
      BY <2>2
    <3>2. Fits(attached, hs[i], es[i], i) /\ InOpen(i)
      BY DEF Leased
    <3>3. Fits(attached, hs[i], es[i], i)'
      BY <3>1, <3>2 DEF Fits
    <3>4. {i} /= {h}
      BY <2>2
    <3>5. InOpen(i)'
      <4> SUFFICES ASSUME attached', ~Over', hs'[i].refs > 0,
                          hs'[i].credit = None
                   PROVE  \E f \in Waiting(agenda') :
                            f.op \in OpenOps /\ f.x = {i}
        BY DEF InOpen
      <4>1. attached /\ ~Over /\ hs[i].refs > 0 /\ hs[i].credit = None
        BY <3>1 DEF Over
      <4>2. PICK f \in Waiting(agenda) : f.op \in OpenOps /\ f.x = {i}
        BY <3>2, <4>1 DEF InOpen
      <4> QED
        BY <3>4, <4>2
    <3> QED
      BY <3>3, <3>5
  <2> QED
    BY <2>1, <2>2
<1>3. \A f \in Waiting(agenda') : Needs(f)'
  BY DEF Needs, OpenOps
<1>4. Lone(agenda)'
  BY DEF Lone
<1> QED
  BY <1>1, <1>2, <1>3, <1>4 DEF Leased

(* What waits does not need that slot.                                     *)
LEMMA NeedStays ==
    ASSUME IInv, Leased, admission, UNCHANGED <<closed, sess>>,
           NEW h \in Slots, \A i \in Slots : i /= h => es'[i] = es[i],
           NEW f \in Waiting(agenda),
           f.op \in StreamOps \cup {"open_rest"} => f.at /= h,
           f.op = "open_failed" => Over
    PROVE  Needs(f)'
<1>1. Needs(f)
  BY DEF Leased
<1>2. f.op \in StreamOps \cup {"open_rest"} => f.at \in Slots
  BY Typed DEF Typing, Frame
<1>3. f.op \in StreamOps \cup {"open_rest"} => es'[f.at] = es[f.at]
  BY <1>2
<1>4. f.op = "open_failed" => Over'
  BY DEF Over
<1> QED
  BY <1>1, <1>3, <1>4 DEF Needs

(* Where nothing but the service waits.                                    *)
LEMMA AtBase ==
    ASSUME IInv, Leased, admission, agenda = <<>> \/ At("service")
    PROVE  \A f \in Waiting(agenda) : f.op = "service"
<1>1. CASE agenda = <<>>
  BY <1>1, EmptyStack
<1>2. CASE At("service")
  <2>1. agenda /= <<>> /\ Head(agenda).op = "service"
    BY <1>2 DEF At
  <2>2. Waiting(agenda) = {Head(agenda)} \cup Waiting(Tail(agenda))
        /\ Tail(agenda) = <<>>
    BY <2>1, Under DEF Leased
  <2>3. Waiting(Tail(agenda)) = {}
    BY <2>2, EmptyStack, Zenon
  <2> QED
    BY <2>1, <2>2, <2>3
<1> QED
  BY <1>1, <1>2

(* The backend collects a finished native stream.                          *)
LEMMA RetireLease ==
    ASSUME IInv, IInv', Leased, NEW e \in Slots, Retire(e)
    PROVE  Leased'
<1>1. /\ UNCHANGED <<admission, attached, backend, closed, sess, agenda, hs>>
      /\ agenda = <<>> \/ At("service")
      /\ attached /\ es[e].kind = "FREE" /\ ~es[e].lease
      /\ es' = [es EXCEPT ![e].resident = FALSE]
  BY DEF Retire, Idle, count, flags, engine
<1> SUFFICES ASSUME admission
             PROVE  Leased'
  BY <1>1, Zenon DEF Leased
<1>2. /\ Fits(attached, hs[e], es[e], e) /\ e /= None
      /\ es \in [Slots -> StreamType] /\ es[e] \in StreamType
      /\ InOpen(e) /\ Lone(agenda)
  BY Own DEF Leased
<1>3. /\ es'[e] = [es[e] EXCEPT !.resident = FALSE]
      /\ \A i \in Slots : i /= e => hs'[i] = hs[i] /\ es'[i] = es[i]
  BY <1>1, <1>2
<1>4. /\ es'[e].kind = "FREE" /\ es'[e].user = es[e].user
      /\ es'[e].lease = es[e].lease
  BY <1>1, <1>2, <1>3 DEF StreamType
<1>5. Fits(attached, hs'[e], es'[e], e)
  BY <1>1, <1>2, <1>4 DEF Fits
<1>6. InOpen(e)'
  BY <1>1, <1>2 DEF InOpen, Over
<1>7. \A f \in Waiting(agenda') : f.op \notin OpenOps \cup StreamOps
  BY <1>1, AtBase DEF OpenOps, StreamOps
<1> QED
  BY <1>1, <1>2, <1>3, <1>5, <1>6, <1>7, CarrySlot, Zenon

(* LeaseKeepsSlot, slot by slot.                                           *)
LEMMA SpareFree ==
    ASSUME IInv, Leased, admission, ~Over, ~At("open_failed"),
           NEW e \in Slots, es[e].kind = "FREE", ~es[e].resident
    PROVE  hs[e].refs = 0 /\ attached
<1>1. /\ Fits(attached, hs[e], es[e], e) /\ InOpen(e)
      /\ hs[e] \in HandleType /\ hs[e].credit \in {None, e} /\ attached
  BY Typed, Own DEF Leased, Typing, Over
<1>2. hs[e].credit = None
  BY <1>1 DEF Fits
<1> SUFFICES ASSUME hs[e].refs > 0
             PROVE  FALSE
  BY <1>1 DEF HandleType
<1>3. PICK f \in Waiting(agenda) : f.op \in OpenOps /\ f.x = {e}
  BY <1>1, <1>2 DEF InOpen
<1>4. Needs(f)
  BY DEF Leased
<1>5. CASE f.op = "open_rest"
  <2>1. f.at = e /\ es[f.at].kind = "RESERVED"
    BY <1>3, <1>4, <1>5 DEF Needs
  <2> QED
    BY <2>1
<1>6. CASE f.op = "open_failed"
  <2>1. agenda /= <<>>
    <3>1. CASE agenda = <<>>
      BY <3>1, EmptyStack
    <3> QED
      BY <3>1
  <2>2. Head(agenda).op /= "open_failed"
    BY <2>1 DEF At
  <2>3. \A h \in f.x : es[h].resident
    BY <1>4, <1>6, <2>2 DEF Needs
  <2> QED
    BY <1>3, <2>3
<1> QED
  BY <1>3, <1>5, <1>6 DEF OpenOps

(* A slot that no call needs.                                              *)
LEMMA Unneeded ==
    ASSUME IInv, Leased, admission, ~Over,
           agenda = <<>> \/ Head(agenda).op \notin {"open_failed", "conn_fatal"},
           NEW e \in Slots, es[e].kind = "FREE", ~es[e].resident,
           NEW f \in Waiting(agenda)
    PROVE  /\ f.op \in StreamOps \cup {"open_rest"} => f.at /= e
           /\ f.op /= "open_failed"
<1>1. Needs(f)
  BY DEF Leased
<1>2. agenda /= <<>>
  <2>1. CASE agenda = <<>>
    BY <2>1, EmptyStack
  <2> QED
    BY <2>1
<1>3. f.op \in StreamOps \cup {"open_rest"} => f.at /= e
  BY <1>1 DEF Needs
<1>4. f.op /= "open_failed"
  <2> SUFFICES ASSUME f.op = "open_failed"
               PROVE  FALSE
    OBVIOUS
  <2>1. Head(agenda) = f \/ Head(agenda).op = "conn_fatal"
    BY <1>1 DEF Needs
  <2> QED
    BY <1>2, <2>1
<1> QED
  BY <1>3, <1>4

(* The backend lets go: the leases end.                                    *)
LEMMA BackendReleaseLease ==
    ASSUME IInv, IInv', Leased, BackendRelease
    PROVE  Leased'
<1>1. /\ UNCHANGED <<admission, closed, sess, es>> /\ ~attached' /\ ~backend'
      /\ agenda /= <<>> /\ Then(<<>>)
      /\ hs' = [i \in Slots |-> [hs[i] EXCEPT !.credit = None]]
  BY DEF BackendRelease, At, engine
<1> SUFFICES ASSUME admission
             PROVE  Leased'
  BY <1>1, Zenon DEF Leased
<1>2. agenda' = Tail(agenda)
  BY <1>1, ThenNone
<1>3. Lone(agenda') /\ Waiting(agenda') \subseteq Waiting(agenda)
  BY <1>1, <1>2, Under DEF Leased
<1>4. Over'
  BY <1>1, TypedNext DEF Typing, Over
<1>5. ASSUME NEW h \in Slots
      PROVE  Fits(attached, hs[h], es[h], h)' /\ InOpen(h)'
  <2>1. Fits(attached, hs[h], es[h], h) /\ hs[h] \in HandleType
    BY Own
  <2>2. hs'[h] = [hs[h] EXCEPT !.credit = None] /\ es'[h] = es[h]
    BY <1>1
  <2>3. /\ hs'[h].es = hs[h].es /\ hs'[h].alive = hs[h].alive
        /\ hs'[h].refs = hs[h].refs /\ hs'[h].credit = None
    BY <2>1, <2>2 DEF HandleType
  <2> QED
    BY <2>1, <2>2, <2>3, <1>1 DEF Fits, InOpen
<1>6. ASSUME NEW f \in Waiting(agenda')
      PROVE  Needs(f)'
  <2>1. Needs(f)
    BY <1>3 DEF Leased
  <2> QED
    BY <2>1, <1>1, <1>4 DEF Needs
<1> QED
  BY <1>1, <1>3, <1>5, <1>6 DEF Leased, Lone

(* The calls on a stack that the step put there, and those below.          *)
LEMMA OnStack ==
    ASSUME IInv, Leased, admission, NEW a \in Seq(Frame),
           \A f \in Waiting(a) : f.op /= "service", agenda' = a \o agenda
    PROVE  /\ Waiting(agenda') = Waiting(a) \cup Waiting(agenda)
           /\ Lone(agenda')
<1>1. agenda \in Seq(Frame) /\ Lone(agenda)
  BY Typed DEF Typing, Leased
<1> QED
  BY <1>1, OnEachOther, LoneOn

LEMMA Listed ==
    ASSUME NEW f, NEW g
    PROVE  /\ Waiting(<<f>>) = {f} /\ Waiting(<<f, g>>) = {f, g}
<1>1. /\ Len(<<f>>) = 1 /\ <<f>>[1] = f
      /\ Len(<<f, g>>) = 2 /\ <<f, g>>[1] = f /\ <<f, g>>[2] = g
  OBVIOUS
<1>2. \A i : i \in 1..2 <=> i = 1 \/ i = 2
  OBVIOUS
<1> QED
  BY <1>1, <1>2 DEF Waiting

(* AppFirst, call by call.                                                 *)
LEMMA AppListed ==
    ASSUME NEW f \in Frame, NEW q \in Seq(Frame), AppFirst(<<f>>, q)
    PROVE  \E a \in Seq(Frame) : agenda' = a \o q
                                 /\ f \in Waiting(a)
                                 /\ Waiting(a) \subseteq {App, f}
<1>1. App \in Frame
  BY Calls
<1>2. \/ agenda' = (<<App>> \o <<f>>) \o q
      \/ agenda' = (<<>> \o <<f>>) \o q
  BY Zenon DEF AppFirst
<1>3. <<App>> \o <<f>> = <<App, f>> /\ <<>> \o <<f>> = <<f>>
  <2>1. <<f>> \in Seq(Frame)
    OBVIOUS
  <2>2. <<>> \o <<f>> = <<f>>
    BY <2>1, ConcatEmptySeq
  <2>3. PICK g \in Frame : g = App
    BY <1>1
  <2>4. /\ <<g>> \o <<f>> \in Seq(Frame) /\ Len(<<g>> \o <<f>>) = 2
        /\ (<<g>> \o <<f>>)[1] = g /\ (<<g>> \o <<f>>)[2] = f
    OBVIOUS
  <2>5. <<g, f>> \in Seq(Frame) /\ Len(<<g, f>>) = 2
        /\ \A i \in 1..2 : (<<g>> \o <<f>>)[i] = <<g, f>>[i]
    BY <2>4
  <2>6. <<g>> \o <<f>> = <<g, f>>
    BY <2>4, <2>5, SeqEqual, Zenon
  <2> QED
    BY <2>2, <2>3, <2>6
<1>4. <<App, f>> \in Seq(Frame) /\ <<f>> \in Seq(Frame)
  BY <1>1
<1>5. CASE agenda' = <<App, f>> \o q
  BY <1>4, <1>5, Listed, Zenon
<1>6. CASE agenda' = <<f>> \o q
  <2>1. Waiting(<<f>>) = {f}
    BY Listed, Zenon
  <2> QED
    BY <1>4, <1>6, <2>1, Zenon
<1> QED
  BY <1>2, <1>3, <1>5, <1>6, Zenon

(* The service admits a peer's stream.                                     *)
LEMMA PeerOpenedLease ==
    ASSUME IInv, IInv', Leased, NEW bidi \in BOOLEAN, OnPeerOpened(bidi)
    PROVE  Leased'
<1>1. /\ UNCHANGED <<admission, attached, backend, closed, sess>>
      /\ ~closed /\ sess = "active"
  BY DEF OnPeerOpened, flags, engine
<1> SUFFICES ASSUME admission
             PROVE  Leased'
  BY <1>1 DEF Leased
<1>2. At("service") /\ agenda /= <<>> /\ Head(agenda).op = "service"
  BY DEF OnPeerOpened, At
<1>3. PICK n : n = streams + 1
  OBVIOUS
<1>4. PICK e \in Spare \cap PeerSlots :
        LET r == NewStream(bidi, FALSE, n)
            h == First({e} \cap FreeHandles)
        IN  /\ {e} \cap FreeHandles /= {}
            /\ hs' = [hs EXCEPT ![h] = Acquired(e, bidi, FALSE, n)]
            /\ es' = [es EXCEPT ![e] = [r EXCEPT !.user = h,
                                                 !.lease = attached]]
            /\ AppDeliver(<<Exit>>)
  BY <1>3, Zenon DEF OnPeerOpened
<1>5. /\ e \in Slots /\ es[e].kind = "FREE" /\ ~es[e].resident
      /\ {e} \cap FreeHandles = {e} /\ First({e}) = e
  <2>1. e \in Slots
    BY <1>4 DEF Spare, Pool
  <2> QED
    BY <1>4, <2>1, OneSlot DEF Spare
<1>6. PICK r, m : /\ r = Acquired(e, bidi, FALSE, n)
                  /\ m = [NewStream(bidi, FALSE, n) EXCEPT !.user = e,
                                                           !.lease = attached]
  BY Zenon
<1>7. /\ hs' = [hs EXCEPT ![e] = r] /\ es' = [es EXCEPT ![e] = m]
      /\ AppDeliver(<<Exit>>)
  BY <1>4, <1>5, <1>6, Zenon
<1>8. /\ hs'[e] = r /\ es'[e] = m
      /\ \A i \in Slots : i /= e => hs'[i] = hs[i] /\ es'[i] = es[i]
  BY <1>5, <1>7, Own
<1>9. /\ r.es = e /\ r.alive /\ r.refs = 1
      /\ r.credit = IF attached THEN e ELSE None
  BY <1>6 DEF Acquired, NoHandle
<1>10. /\ m.kind = "WT" /\ m.user = e /\ m.lease = attached /\ m.resident
  BY <1>6 DEF NewStream, NoStream
<1>11. Fits(attached, hs'[e], es'[e], e)
  BY <1>8, <1>9, <1>10 DEF Fits
<1>12. InOpen(e)'
  <2>1. e /= None
    BY <1>5, Own
  <2> QED
    BY <1>1, <1>8, <1>9, <2>1 DEF InOpen
<1>13. Below = agenda /\ Bracket = <<>> /\ Exit \in Frame /\ Exit.op = "exit"
       /\ agenda \in Seq(Frame)
  BY <1>2, Calls, Typed DEF Below, Bracket, InCall, At, Typing
<1>14. AppFirst(<<Exit>>, agenda)
  <2>1. <<Exit>> \o <<>> = <<Exit>>
    BY <1>13
  <2> QED
    BY <2>1, <1>7, <1>13 DEF AppDeliver
<1>15. PICK a \in Seq(Frame) : /\ agenda' = a \o agenda
                               /\ Waiting(a) \subseteq {App, Exit}
  BY <1>13, <1>14, AppListed, Zenon
<1>16. App.op = "app" /\ Exit.op = "exit"
  BY Calls
<1>17. Waiting(agenda') = Waiting(a) \cup Waiting(agenda) /\ Lone(agenda')
  BY <1>15, <1>16, OnStack
<1>18. \A f \in Waiting(agenda') : f.op \notin OpenOps \cup StreamOps
  BY <1>2, <1>15, <1>16, <1>17, AtBase, Zenon DEF OpenOps, StreamOps
<1> QED
  BY <1>1, <1>5, <1>8, <1>11, <1>12, <1>17, <1>18, CarrySlot

(* session_open up to the driver's open: the handle it reserves is that of *)
(* the engine slot it takes.                                               *)
LEMMA SessionOpenLease ==
    ASSUME IInv, IInv', Leased, NEW bidi \in BOOLEAN, SessionOpen(bidi)
    PROVE  Leased'
<1>1. /\ UNCHANGED <<admission, attached, backend, closed, sess>>
      /\ ~Over /\ MayUse
  BY DEF SessionOpen, Over, flags, engine
<1> SUFFICES ASSUME admission
             PROVE  Leased'
  BY <1>1 DEF Leased
<1>2. /\ agenda = <<>> \/ Head(agenda).op \notin {"open_failed", "conn_fatal"}
      /\ ~At("open_failed")
  BY <1>1 DEF MayUse, InApp, At, Idle
<1>3. PICK pool : pool = Spare \cap LocalSlots
  BY Zenon
<1>4. pool /= {} /\ pool \subseteq Slots
  BY <1>3 DEF SessionOpen, Spare, Pool
<1>5. \A i \in pool : hs[i].refs = 0 /\ attached
  BY <1>1, <1>2, <1>3, <1>4, SpareFree DEF Spare
<1>6. pool \cap FreeHandles = pool /\ attached
  <2>1. \A i \in pool : i \in FreeHandles
    BY <1>3, <1>5 DEF FreeHandles, Spare
  <2> QED
    BY <2>1, <1>4, <1>5
<1>7. PICK e, n : e = First(pool) /\ n = streams + 1
  OBVIOUS
<1>8. /\ e \in Slots /\ es[e].kind = "FREE" /\ ~es[e].resident
  <2>1. e \in pool
    BY <1>4, <1>7, FirstIn
  <2> QED
    BY <2>1, <1>3, <1>4 DEF Spare
<1>9. PICK g : g = [op |-> "open_rest", at |-> e, gen |-> n, x |-> {e}]
  BY Zenon
<1>10. PICK r, m : /\ r = [Acquired(None, bidi, TRUE, n) EXCEPT !.credit = None]
                   /\ m = [NoStream EXCEPT !.bidi = bidi, !.gen = n,
                              !.kind = IF admission THEN "RESERVED" ELSE "FREE",
                              !.resident = admission]
  BY Zenon
<1>11. /\ hs' = [hs EXCEPT ![e] = r] /\ es' = [es EXCEPT ![e] = m]
       /\ AppEnter(<<g>>)
  BY <1>3, <1>6, <1>7, <1>9, <1>10, Zenon DEF SessionOpen
<1>12. /\ hs'[e] = r /\ es'[e] = m
       /\ \A i \in Slots : i /= e => hs'[i] = hs[i] /\ es'[i] = es[i]
  BY <1>8, <1>11, Own
<1>13. r.es = None /\ r.alive /\ r.refs = 1 /\ r.credit = None /\ e /= None
  BY <1>8, <1>10, Own DEF Acquired, NoHandle
<1>14. m.kind = "RESERVED" /\ m.user = None /\ m.resident
  BY <1>10 DEF NoStream
<1>15. Fits(attached, hs'[e], es'[e], e)
  BY <1>12, <1>13, <1>14 DEF Fits
<1>16. g \in Frame /\ g.op = "open_rest" /\ g.at = e /\ g.x = {e}
  <2>1. n \in Nat
    BY <1>7 DEF IInv, Types
  <2> QED
    BY <2>1, <1>8, <1>9
       DEF Frame, Ops, HandleOps, StreamOps, SlotSetOps, PlainOps
<1>17. agenda \in Seq(Frame) /\ AppFirst(<<g>>, agenda)
  BY <1>11, Typed DEF AppEnter, Typing
<1>18. PICK a \in Seq(Frame) : /\ agenda' = a \o agenda /\ g \in Waiting(a)
                               /\ Waiting(a) \subseteq {App, g}
  BY <1>16, <1>17, AppListed, Zenon
<1>19. App.op = "app"
  BY Calls
<1>20. Waiting(agenda') = Waiting(a) \cup Waiting(agenda) /\ Lone(agenda')
  BY <1>16, <1>18, <1>19, OnStack, Zenon
<1>21. InOpen(e)'
  BY <1>16, <1>18, <1>20 DEF InOpen, OpenOps
<1>22. ASSUME NEW f \in Waiting(agenda'), f.op \in OpenOps \cup StreamOps
       PROVE  Needs(f)'
  <2>1. CASE f = g
    <3>1. es'[f.at].kind = "RESERVED"
      BY <2>1, <1>12, <1>14, <1>16
    <3> QED
      BY <2>1, <3>1, <1>16 DEF Needs, StreamOps
  <2>2. CASE f \in Waiting(agenda)
    <3>1. /\ f.op \in StreamOps \cup {"open_rest"} => f.at /= e
          /\ f.op /= "open_failed"
      BY <2>2, <1>1, <1>2, <1>8, Unneeded
    <3> QED
      BY <2>2, <3>1, <1>1, <1>8, <1>12, NeedStays
  <2> QED
    BY <2>1, <2>2, <1>18, <1>19, <1>20, <1>22 DEF OpenOps, StreamOps
<1>23. \A f \in Waiting(agenda) : f \in Waiting(agenda')
  BY <1>20
<1> QED
  BY <1>1, <1>8, <1>12, <1>15, <1>20, <1>21, <1>22, <1>23, CarrySlot

(* The open calls below one that has reserved a handle, and the next stack. *)
LEMMA OtherOpens ==
    ASSUME IInv, agenda /= <<>>, Head(agenda).op \in OpenOps,
           Head(agenda).x /= {}, NEW g \in Waiting(Tail(agenda)),
           g.op \in OpenOps
    PROVE  g.x \cap Head(agenda).x = {}
<1>1. PICK f \in Frame, q \in Seq(Frame) :
        f = Head(agenda) /\ q = Tail(agenda) /\ agenda = Put(f, q)
  BY OnTop, Zenon
<1>2. Stacked(admission, Put(f, q))
  BY <1>1 DEF IInv, Accounts, Books, Handles
<1>3. Above(admission, f, g)
  BY <1>1, <1>2, PutStacked, Zenon
<1> QED
  BY <1>1, <1>3 DEF Above

LEMMA OpenUnder ==
    ASSUME IInv, Leased, admission, At("open_rest"), NEW a \in Seq(Frame),
           \A f \in Waiting(a) : f.op /= "service", Then(a)
    PROVE  /\ Waiting(agenda') = Waiting(a) \cup Waiting(Tail(agenda))
           /\ Waiting(agenda) = {Head(agenda)} \cup Waiting(Tail(agenda))
           /\ Lone(agenda')
<1>1. agenda /= <<>>
  BY DEF At
<1>2. /\ Tail(agenda) \in Seq(Frame) /\ Lone(Tail(agenda))
      /\ Waiting(agenda) = {Head(agenda)} \cup Waiting(Tail(agenda))
  BY <1>1, Under DEF Leased
<1>3. agenda' = a \o Tail(agenda)
  BY DEF Then
<1> QED
  BY <1>2, <1>3, OnEachOther, LoneOn, Zenon

LEMMA Single ==
    ASSUME NEW f
    PROVE  Waiting(<<f>>) = {f}
BY Listed, Zenon

(* Behind the driver's open, the engine slot is still the handle's own: a  *)
(* failure gives the slot back, before the handle; a success leases it.    *)
LEMMA OpenRestLease ==
    ASSUME IInv, IInv', Leased, OpenRest
    PROVE  Leased'
<1>1. /\ UNCHANGED <<admission, attached, backend, closed, sess>>
      /\ At("open_rest") /\ agenda /= <<>> /\ Head(agenda).op = "open_rest"
  BY DEF OpenRest, At, count, flags, engine
<1> SUFFICES ASSUME admission
             PROVE  Leased'
  BY <1>1 DEF Leased
<1>2. PICK f : f = Head(agenda)
  OBVIOUS
<1>3. /\ f \in Waiting(agenda) /\ f \in Frame /\ f.op = "open_rest"
      /\ Needs(f) /\ Relies(hs, told, f)
  <2>1. f \in Waiting(agenda) /\ f \in Frame
    BY <1>1, <1>2, Under
  <2> QED
    BY <2>1, <1>1, <1>2 DEF Leased, IInv, Accounts, Books, Handles
<1>4. PICK e, n : e = f.at /\ n = f.gen
  OBVIOUS
<1>5. /\ e \in Slots /\ f.x = {e} /\ es[e].kind = "RESERVED"
      /\ Reserved(hs[e], told[e])
  <2>1. e \in Slots /\ f.x = {e} /\ es[e].kind = "RESERVED"
    BY <1>3, <1>4 DEF Needs, Frame
  <2>2. PICK h \in Slots : f.x = {h} /\ Reserved(hs[h], told[h])
    BY <1>3, <2>1 DEF Relies, OpenOps
  <2>3. h = e
    BY <2>1, <2>2
  <2> QED
    BY <2>1, <2>2, <2>3
<1>6. /\ hs[e] \in HandleType /\ es[e] \in StreamType /\ e /= None
      /\ hs \in [Slots -> HandleType] /\ es \in [Slots -> StreamType]
      /\ Fits(attached, hs[e], es[e], e) /\ First({e}) = e
  BY <1>5, Own, OneSlot
<1>7. /\ ~(hs[e].alive /\ hs[e].es = e) /\ (attached => hs[e].credit = None)
      /\ hs[e].es \in {None, e} /\ hs[e].credit \in {None, e}
      /\ es[e].user \in {None, e} /\ es[e].resident
      /\ (hs[e].refs = 0 => hs[e].credit = None)
  BY <1>5, <1>6 DEF Fits
<1>8. PICK g, live, dead :
        /\ g = [Call("open_failed") EXCEPT !.x = {e}]
        /\ live = NewStream(es[e].bidi, TRUE, n)
        /\ dead = (closed \/ sess /= "active")
  BY Zenon
<1>9. /\ g \in Frame /\ g.op = "open_failed" /\ g.x = {e}
      /\ Call("conn_fatal") \in Frame /\ Call("conn_fatal").op = "conn_fatal"
      /\ Exit \in Frame /\ Exit.op = "exit"
  <2>1. {e} \in SUBSET Slots
    BY <1>5
  <2>2. g \in Frame /\ g.op = "open_failed" /\ g.x = {e}
    BY <2>1, <1>8, Calls, Zenon DEF SlotSetOps
  <2> QED
    BY <2>2, Calls DEF PlainOps
<1>10. \/ /\ hs' = hs /\ es' = [es EXCEPT ![e] = NoStream] /\ Then(<<g>>)
       \/ /\ hs' = hs /\ es' = [es EXCEPT ![e] = Released(es[e])]
          /\ Then(<<g>>)
       \/ /\ hs' = hs /\ es' = [es EXCEPT ![e] = Released(live)] /\ ~dead
          /\ Then(<<Call("conn_fatal"), g>>)
       \/ /\ hs' = [hs EXCEPT ![e] = [@ EXCEPT !.es = e, !.credit = e]]
          /\ es' = [es EXCEPT ![e] = [live EXCEPT !.user = e,
                                                  !.lease = attached]]
          /\ ~dead /\ Then(<<Exit>>)
  <2>1. f.x /= {}
    BY <1>5
  <2> QED
    BY <2>1, <1>2, <1>4, <1>5, <1>6, <1>8, ZenonT(60) DEF OpenRest, This
<1>11. \A i \in Slots : i /= e => hs'[i] = hs[i] /\ es'[i] = es[i]
  BY <1>5, <1>6, <1>10
(* The calls below need neither slot nor handle.                           *)
<1>12. ASSUME NEW c \in Waiting(Tail(agenda)),
              c.op \in OpenOps \cup StreamOps
       PROVE  Needs(c)'
  <2>1. c \in Waiting(agenda)
    BY <1>1, Under
  <2>2. Needs(c)
    BY <2>1 DEF Leased
  <2>3. c.op \in OpenOps => c.x \cap {e} = {}
    BY <1>1, <1>2, <1>5, OtherOpens DEF OpenOps
  <2>4. c.op \in StreamOps \cup {"open_rest"} => c.at /= e
    BY <2>2, <2>3, <1>5 DEF Needs, OpenOps
  <2>5. c.op = "open_failed" => Over
    BY <2>2, <1>1 DEF Needs
  <2> QED
    BY <2>1, <2>4, <2>5, <1>1, <1>5, <1>11, NeedStays
(* The open failed.                                                        *)
<1>13. ASSUME NEW a \in Seq(Frame), Then(a), hs' = hs, NEW m,
              Waiting(a) = {g} \/ (/\ a = <<Call("conn_fatal"), g>>
                                   /\ m.resident),
              a = <<g>> \/ a = <<Call("conn_fatal"), g>>,
              es' = [es EXCEPT ![e] = m], m.kind = "FREE",
              m.user \in {None, e}
       PROVE  Leased'
  <2>1. Waiting(a) \subseteq {g, Call("conn_fatal")} /\ g \in Waiting(a)
    <3>1. /\ Waiting(<<g>>) = {g}
          /\ Waiting(<<Call("conn_fatal"), g>>) = {Call("conn_fatal"), g}
      BY Single, Listed, Zenon
    <3> QED
      BY <3>1, <1>13
  <2>2. /\ Waiting(agenda') = Waiting(a) \cup Waiting(Tail(agenda))
        /\ Waiting(agenda) = {f} \cup Waiting(Tail(agenda))
        /\ Lone(agenda')
    BY <2>1, <1>1, <1>2, <1>9, <1>13, OpenUnder
  <2>3. es'[e] = m /\ hs'[e] = hs[e]
    BY <1>5, <1>6, <1>13
  <2>4. Fits(attached, hs'[e], es'[e], e)
    BY <2>3, <1>6, <1>7, <1>13 DEF Fits
  <2>5. InOpen(e)'
    BY <2>1, <2>2, <1>9 DEF InOpen, OpenOps
  <2>6. \A c \in Waiting(agenda) :
          c.op \in OpenOps /\ c.x /= {e} => c \in Waiting(agenda')
    BY <2>2, <1>5
  <2>7. Needs(g)'
    <3>1. agenda' = a \o Tail(agenda) /\ Tail(agenda) \in Seq(Frame)
      BY <1>1, <1>13, Under DEF Then
    <3>2. CASE a = <<g>>
      <4>1. Head(agenda') = g
        BY <3>1, <3>2, <1>9
      <4> QED
        BY <4>1, <1>9 DEF Needs, StreamOps
    <3>3. CASE a = <<Call("conn_fatal"), g>>
      <4>1. Head(agenda') = Call("conn_fatal")
        BY <3>1, <3>3, <1>9
      <4>2. m.resident
        <5>1. Waiting(a) = {Call("conn_fatal"), g}
          BY <3>3, Listed, Zenon
        <5>2. g /= Call("conn_fatal")
          BY <1>9
        <5> QED
          BY <5>1, <5>2, <1>13
      <4> QED
        BY <4>1, <4>2, <2>3, <1>9 DEF Needs, StreamOps
    <3> QED
      BY <3>2, <3>3, <1>13
  <2>8. ASSUME NEW c \in Waiting(agenda'), c.op \in OpenOps \cup StreamOps
        PROVE  Needs(c)'
    <3>1. c.op /= "conn_fatal"
      BY <2>8 DEF OpenOps, StreamOps
    <3> QED
      BY <3>1, <2>1, <2>2, <2>7, <2>8, <1>9, <1>12
  <2> QED
    BY <2>2, <2>4, <2>5, <2>6, <2>8, <1>1, <1>5, <1>11, CarrySlot
<1>14. CASE hs' = hs /\ es' = [es EXCEPT ![e] = NoStream] /\ Then(<<g>>)
  <2>1. NoStream.kind = "FREE" /\ NoStream.user = None
    BY DEF NoStream
  <2>2. <<g>> \in Seq(Frame) /\ Waiting(<<g>>) = {g}
    BY <1>9, Single
  <2> QED
    BY <2>1, <2>2, <1>13, <1>14, Zenon
<1>15. CASE /\ hs' = hs /\ es' = [es EXCEPT ![e] = Released(es[e])]
            /\ Then(<<g>>)
  <2>1. Released(es[e]).kind = "FREE" /\ Released(es[e]).user = es[e].user
    BY DEF Released, NoStream
  <2>2. <<g>> \in Seq(Frame) /\ Waiting(<<g>>) = {g}
    BY <1>9, Single
  <2> QED
    BY <2>1, <2>2, <1>7, <1>13, <1>15, Zenon
<1>16. CASE /\ hs' = hs /\ es' = [es EXCEPT ![e] = Released(live)]
            /\ Then(<<Call("conn_fatal"), g>>)
  <2>1. /\ Released(live).kind = "FREE" /\ Released(live).user = None
        /\ Released(live).resident
    BY <1>8 DEF Released, NoStream, NewStream
  <2>2. <<Call("conn_fatal"), g>> \in Seq(Frame)
    BY <1>9
  <2> QED
    BY <2>1, <2>2, <1>13, <1>16, Zenon
(* The open succeeded.                                                     *)
<1>17. CASE /\ hs' = [hs EXCEPT ![e] = [@ EXCEPT !.es = e, !.credit = e]]
            /\ es' = [es EXCEPT ![e] = [live EXCEPT !.user = e,
                                                    !.lease = attached]]
            /\ ~dead /\ Then(<<Exit>>)
  <2>1. <<Exit>> \in Seq(Frame) /\ Waiting(<<Exit>>) = {Exit}
    BY <1>9, Single
  <2>2. /\ Waiting(agenda') = {Exit} \cup Waiting(Tail(agenda))
        /\ Waiting(agenda) = {f} \cup Waiting(Tail(agenda))
        /\ Lone(agenda')
    BY <2>1, <1>1, <1>2, <1>9, <1>17, OpenUnder, Zenon
  <2>3. /\ hs'[e].es = e /\ hs'[e].credit = e /\ hs'[e].alive = hs[e].alive
        /\ hs'[e].refs = hs[e].refs
    BY <1>5, <1>6, <1>17 DEF HandleType
  <2>4. /\ es'[e].kind = "WT" /\ es'[e].user = e /\ es'[e].lease = attached
        /\ es'[e].resident
    <3>1. es'[e] = [live EXCEPT !.user = e, !.lease = attached]
      BY <1>5, <1>6, <1>17
    <3> QED
      BY <3>1, <1>8 DEF NewStream, NoStream
  <2>5. hs[e].refs = 1
    BY <1>5, <1>8, <1>17, Zenon DEF Reserved, Over
  <2>6. Fits(attached, hs'[e], es'[e], e)
    BY <2>3, <2>4, <2>5 DEF Fits
  <2>7. InOpen(e)'
    BY <2>3, <1>6 DEF InOpen
  <2>8. \A c \in Waiting(agenda) :
          c.op \in OpenOps /\ c.x /= {e} => c \in Waiting(agenda')
    BY <2>2, <1>5
  <2>9. ASSUME NEW c \in Waiting(agenda'), c.op \in OpenOps \cup StreamOps
        PROVE  Needs(c)'
    <3>1. c.op /= "exit"
      BY <2>9 DEF OpenOps, StreamOps
    <3> QED
      BY <3>1, <2>2, <2>9, <1>9, <1>12
  <2> QED
    BY <2>2, <2>6, <2>7, <2>8, <2>9, <1>1, <1>5, <1>11, CarrySlot
<1> QED
  BY <1>10, <1>14, <1>15, <1>16, <1>17

(* The error path of session_open gives the reserved handle back: nothing  *)
(* else referred to it.                                                    *)
LEMMA OpenFailedLease ==
    ASSUME IInv, IInv', Leased, OpenFailed
    PROVE  Leased'
<1>1. /\ UNCHANGED <<admission, attached, backend, closed, sess>>
      /\ agenda /= <<>> /\ Head(agenda).op = "open_failed" /\ Then(<<>>)
  BY DEF OpenFailed, At, flags, engine
<1> SUFFICES ASSUME admission
             PROVE  Leased'
  BY <1>1 DEF Leased
<1>2. PICK f : f = Head(agenda)
  OBVIOUS
<1>3. /\ f \in Waiting(agenda) /\ f.op = "open_failed"
      /\ Needs(f) /\ Relies(hs, told, f)
      /\ Waiting(agenda) = {f} \cup Waiting(Tail(agenda))
      /\ Lone(Tail(agenda)) /\ Tail(agenda) \in Seq(Frame)
  <2>1. /\ f \in Waiting(agenda) /\ Lone(Tail(agenda))
        /\ Waiting(agenda) = {f} \cup Waiting(Tail(agenda))
        /\ Tail(agenda) \in Seq(Frame)
    BY <1>1, <1>2, Under DEF Leased
  <2> QED
    BY <2>1, <1>1, <1>2 DEF Leased, IInv, Accounts, Books, Handles
<1>4. f.x /= {}
  BY <1>3 DEF Needs
<1>5. PICK h \in Slots : f.x = {h} /\ Reserved(hs[h], told[h])
  BY <1>3, <1>4 DEF Relies, OpenOps
<1>6. DropRef(h)
  <2>1. This.x = {h} /\ First({h}) = h
    BY <1>2, <1>5, OneSlot DEF This
  <2> QED
    BY <2>1 DEF OpenFailed
<1>7. LetGo
  BY <1>6, DropGo
<1>8. agenda' = Tail(agenda)
  BY <1>1, ThenNone
<1>9. CASE Over
  <2>1. Over'
    BY <1>1, <1>9 DEF Over
  <2>2. <<>> \in Seq(Milds)
    BY MildStacks
  <2>3. agenda' = <<>> \o Tail(agenda)
    BY <1>1 DEF Then
  <2>4. Passed(agenda')
    BY <2>1, <2>2, <2>3, <1>1, Pass, Zenon
  <2> QED
    BY <2>1, <2>4, <1>1, <1>7, Carry
<1>10. CASE ~Over
  <2>1. /\ hs[h] \in HandleType /\ hs \in [Slots -> HandleType]
        /\ hs[h].credit \in {None, h} /\ h /= None
        /\ es \in [Slots -> StreamType]
    BY Own
  <2>2. hs[h].refs = 1
    BY <1>5, <1>10 DEF Reserved
  <2>3. PICK r : /\ r = OneLess(hs[h]) /\ r.refs = 0
                 /\ r.credit = hs[h].credit
    <3>1. OneLess(hs[h]) = [hs[h] EXCEPT !.refs = 0]
      BY <2>1, <2>2 DEF OneLess, HandleType
    <3> QED
      BY <3>1, <2>1 DEF HandleType
  <2>4. hs' = [hs EXCEPT ![h] = Uncredited(r)] /\ es' = CreditRelease(r)
    BY <2>3, <1>6 DEF DropRef
  <2>5. \A i \in Slots : i /= h => hs'[i] = hs[i] /\ es'[i] = es[i]
    BY <2>1, <2>3, <2>4 DEF CreditRelease
  <2>6. hs'[h].refs = 0
    BY <2>1, <2>3, <2>4 DEF Uncredited, NoHandle
  <2>7. InOpen(h)'
    BY <2>6 DEF InOpen
  <2>8. Fits(attached, hs'[h], es'[h], h)
    <3>1. Fits(attached, hs[h], es[h], h)'
      BY <1>1, <1>7, FitsNext
    <3> QED
      BY <3>1, <1>1 DEF Fits
  <2>9. \A c \in Waiting(agenda) :
          c.op \in OpenOps /\ c.x /= {h} => c \in Waiting(agenda')
    BY <1>3, <1>5, <1>8
  <2>10. ASSUME NEW c \in Waiting(agenda'), c.op \in OpenOps \cup StreamOps
         PROVE  Needs(c)'
    <3>1. c \in Waiting(Tail(agenda)) /\ c \in Waiting(agenda)
      BY <2>10, <1>3, <1>8
    <3>2. Needs(c) /\ (c.op \in StreamOps \cup {"open_rest"} => c.at \in Slots)
      BY <3>1, Typed DEF Leased, Typing, Frame
    <3>3. c.op /= "open_failed"
      <4> SUFFICES ASSUME c.op = "open_failed"
                   PROVE  FALSE
        OBVIOUS
      <4>1. c.x \cap f.x = {} /\ c.x /= {}
        BY <3>1, <3>2, <1>1, <1>2, <1>4, OtherOpens DEF OpenOps, Needs
      <4>2. c = f
        BY <3>2, <1>1, <1>2, <1>10 DEF Needs
      <4> QED
        BY <4>1, <4>2
    <3>4. c.at \in Slots => LetsGo(hs[c.at], hs'[c.at], es[c.at], es'[c.at], c.at)
      BY <1>7 DEF LetGo
    <3> QED
      BY <3>2, <3>3, <3>4 DEF Needs, LetsGo
  <2>11. Lone(agenda')
    BY <1>3, <1>8
  <2> QED
    BY <2>5, <2>7, <2>8, <2>9, <2>10, <2>11, <1>1, CarrySlot
<1> QED
  BY <1>9, <1>10

-----------------------------------------------------------------------------
(* Every step.                                                             *)

LEMMA InitLeased == Init => Leased
<1> SUFFICES ASSUME Init
             PROVE  Leased
  OBVIOUS
<1>1. /\ attached = admission /\ agenda = <<>> /\ backend
      /\ hs = [h \in Slots |-> NoHandle] /\ es = [e \in Slots |-> NoStream]
  BY DEF Init
<1>2. ASSUME NEW h \in Slots
      PROVE  Fits(attached, hs[h], es[h], h) /\ InOpen(h)
  <2>1. hs[h] = NoHandle /\ es[h] = NoStream /\ h /= None
    BY <1>1, ApiAssumption
  <2> QED
    BY <2>1 DEF NoHandle, NoStream, Fits, InOpen
<1>3. Waiting(agenda) = {} /\ Lone(agenda)
  BY <1>1, EmptyStack DEF Lone
<1> QED
  BY <1>1, <1>2, <1>3, Zenon DEF Leased

LEMMA StuttersLease ==
    ASSUME Leased, UNCHANGED vars
    PROVE  Leased'
<1>1. UNCHANGED <<admission, attached, backend, hs, es, agenda, closed, sess>>
  BY DEF vars, count, flags, engine
<1> QED
  BY <1>1 DEF Leased, Fits, InOpen, Lone, Needs, Over

LEMMA LibraryLeases ==
    ASSUME IInv, IInv', Leased, LibraryStep
    PROVE  Leased'
<1>1. CASE \/ SessionExit \/ ResumeDone \/ ServiceDone
           \/ TellSessionClosed \/ TellSessionFailed \/ SendCommitted
  BY <1>1, ReturnsLease
<1>2. CASE \/ DropAndExit \/ SlotRelease \/ CommitEnd \/ Settle
           \/ StreamsTeardown
  BY <1>2, DropsLease, SettleLease, StreamsTeardownLease
<1>3. CASE \/ AdaptSessionClosed \/ AdaptConnError \/ AdaptFailed
           \/ ConnFatal \/ SessionClosed
  BY <1>3, TerminalLease, EndsLease
<1>4. CASE EngineRest \/ EngineTeardown \/ EngineTorn \/ BackendRelease
  BY <1>4, EngineRestLease, EngineTeardownLease, EngineTornLease,
     BackendReleaseLease
<1>5. CASE OpenRest \/ OpenFailed
  BY <1>5, OpenRestLease, OpenFailedLease
<1> QED
  BY <1>1, <1>2, <1>3, <1>4, <1>5 DEF LibraryStep

LEMMA InputLeases ==
    ASSUME IInv, IInv', Leased, BackendInput
    PROVE  Leased'
<1>1. CASE SessionRefused \/ PeerCloses \/ ConnLost
  <2>1. \E op \in PlainOps : op /= "service" /\ EndingInput(op)
    BY <1>1 DEF SessionRefused, PeerCloses, ConnLost, PlainOps
  <2> QED
    BY <2>1, SessionInputsLease
<1>2. CASE Establish \/ Notify \/ BackendQuits \/ Service
  BY <1>2, SessionInputsLease, ServiceLease
<1>3. CASE \E b \in PeerDirs : OnPeerOpened(b)
  BY <1>3, PeerOpenedLease, ApiAssumption
<1>4. ASSUME NEW e \in Slots,
             \/ OnDrained(e) \/ OnStreamReset(e) \/ OnStopSending(e)
             \/ OnStreamWritable(e) \/ OnStreamTerminal(e) \/ Retire(e)
      PROVE  Leased'
  BY <1>4, DrainedLease, StreamInputsLease, StreamTerminalLease, RetireLease
<1>5. ASSUME NEW e \in Slots, NEW b \in BOOLEAN,
             OnStreamData(e, b) \/ OnSendShutdown(e, b)
      PROVE  Leased'
  BY <1>5, StreamInputsLease, SendShutdownLease
<1> QED
  BY <1>1, <1>2, <1>3, <1>4, <1>5 DEF BackendInput

LEMMA OperationLeases ==
    ASSUME IInv, IInv', Leased, AppOperation
    PROVE  Leased'
<1>1. CASE AppReturns \/ SessionAddRef \/ SessionRelease \/ SessionClose
  BY <1>1, ReturnsLease, SessionRefsLease, SessionInputsLease
<1>2. CASE \E b \in LocalDirs : SessionOpen(b)
  BY <1>2, SessionOpenLease, ApiAssumption
<1>3. ASSUME NEW h \in Slots,
             \/ StreamAddRef(h) \/ StreamRelease(h)
             \/ EnableSendCommit(h) \/ Resume(h)
      PROVE  Leased'
  BY <1>3, StreamAddRefLease, StreamReleaseLease, EnableCommitLease,
     ResumeLease
<1>4. ASSUME NEW h \in Slots, NEW b \in BOOLEAN, StreamSend(h, b)
      PROVE  Leased'
  BY <1>4, OperationsLease
<1>5. ASSUME NEW h \in Slots, NEW x \in SUBSET Halves, StreamShut(h, x)
      PROVE  Leased'
  BY <1>5, OperationsLease
<1> QED
  BY <1>1, <1>2, <1>3, <1>4, <1>5 DEF AppOperation

(* Every behaviour keeps the leases.                                       *)
THEOREM LeasesHold == Spec => []Leased
<1>1. IInv /\ [Next]_vars => IInv'
  BY Stutters, LibrarySteps, BackendInputs, AppOperations DEF Next
<1>2. IInv /\ IInv' /\ Leased /\ [Next]_vars => Leased'
  BY StuttersLease, LibraryLeases, InputLeases, OperationLeases DEF Next
<1> QED
  BY <1>1, <1>2, InitIInv, InitLeased, PTL DEF Spec

(* Handles and engine streams point at each other.                         *)
LEMMA PointBack == IInv /\ Leased => BacklinksAgree
<1> SUFFICES ASSUME IInv, Leased, admission
             PROVE  LinksAgree
  BY DEF BacklinksAgree
<1>1. ASSUME NEW e \in Slots, es[e].kind = "WT", es[e].user /= None
      PROVE  LET r == hs[es[e].user] IN r.refs > 0 /\ r.alive /\ r.es = e
  <2>1. es[e].user \in Slots
    BY <1>1, Own DEF StreamType
  <2>2. hs[es[e].user].alive /\ hs[es[e].user].es = e
    BY <1>1 DEF IInv, Linked
  <2> QED
    BY <2>1, <2>2, Counts
<1>2. ASSUME NEW h \in Slots, hs[h].alive, hs[h].es /= None
      PROVE  es[hs[h].es].kind = "FREE" \/ es[hs[h].es].user = h
  <2>1. hs[h].es = h /\ Fits(attached, hs[h], es[h], h)
    BY <1>2, Own
  <2> QED
    BY <2>1, <1>2 DEF Fits
<1> QED
  BY <1>1, <1>2 DEF LinksAgree

LEMMA SlotsKept == IInv /\ Leased => LeaseKeepsSlot
<1> SUFFICES ASSUME IInv, Leased, admission, ~closed, sess = "active",
                    ~At("open_failed"), NEW e \in Spare
             PROVE  hs[e].refs = 0
  BY DEF LeaseKeepsSlot
<1>1. e \in Slots /\ es[e].kind = "FREE" /\ ~es[e].resident
  BY DEF Spare, Pool
<1>2. ~Over
  BY DEF Over
<1> QED
  BY <1>1, <1>2, SpareFree

(* BacklinksAgree: handle_of and st->es agree in admission mode, so no     *)
(* event of an engine stream reaches the handle of another one.            *)
THEOREM LinksHold == Spec => []BacklinksAgree
BY AccountsHold, LeasesHold, PointBack, PTL

(* LeaseKeepsSlot, the part of HandlesStay about admission_ops.lease: an   *)
(* engine slot that may be given out has no handle in use, so admission    *)
(* and session_open always find the slot's own handle free.                *)
THEOREM LeasedSlotsStay == Spec => []LeaseKeepsSlot
BY AccountsHold, LeasesHold, SlotsKept, PTL
=============================================================================
