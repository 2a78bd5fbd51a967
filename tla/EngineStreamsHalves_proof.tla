-------------------- MODULE EngineStreamsHalves_proof --------------------
(***************************************************************************)
(* Proofs about EngineStreams, for every number of slots and stream        *)
(* objects, in both modes: the two halves of each stream agree between     *)
(* engine, transport and application, no finished stream keeps its slot,   *)
(* a held FIN is never left behind, and the pool bound holds.              *)
(*                                                                         *)
(* The argument is what each call that waits on the stack still owes: a    *)
(* disagreement between the engine's view of a half and the transport's    *)
(* exists only while the call that will end it waits.                      *)
(***************************************************************************)
EXTENDS EngineStreams_proof

(* The calls that wait on the stack, and which of them are about the       *)
(* present stream of slot s.                                               *)
Waiting(q) == {q[i] : i \in 1..Len(q)}
Own(f, s) == f.s = s /\ f.g = slot[s].gen
SendsFin(f) == f.op = "send_done" /\ "fin" \in f.x
Shuts(f, h) == f.op = "shutdown_done" /\ h \in f.x

(* What the calls that wait still have to do to that stream: note that its *)
(* FIN was sent, close a half that was shut down, end its receive half.    *)
FinSent(s) == \E f \in Waiting(agenda) : SendsFin(f) /\ Own(f, s)
TornDue(s) == \E f \in Waiting(agenda) : f.op = "torn" /\ f.s = s
Ends(s, h) == \/ \E f \in Waiting(agenda) : Shuts(f, h) /\ Own(f, s)
              \/ TornDue(s)
FinDue(s) ==
    \E f \in Waiting(agenda) : f.op = "fin_delivered" /\ Own(f, s)
SettleDue(s) ==
    \E f \in Waiting(agenda) : f.s = s /\
        (f.op \in {"settle", "release"} \/ (f.op = "settle_same" /\ Own(f, s)))
ReleaseDue(s) == \E f \in Waiting(agenda) : f.op = "release" /\ Own(f, s)
TeardownDue(s) ==
    \E f \in Waiting(agenda) : f.op = "teardown" /\ s \in f.x
(* The connection is lost, or about to be.                                 *)
Fatal == closed \/ \E f \in Waiting(agenda) : f.op = "conn_fatal"

(* Which call may wait above which.                                        *)
Above(f, g) ==
    /\ f.op \notin {"input", "more"}
    /\ g.op \notin {"input", "input_fin"}
    /\ f.op = "teardown" => g.op \notin {"teardown", "torn"}
    /\ (f.s = g.s /\ f.g = g.g /\ f.s \in Slots) =>
         /\ ~(SendsFin(f) /\ (SendsFin(g) \/ g.op = "release"))
         /\ ~(f.op = "fin_delivered" /\ Shuts(g, "recv"))
         /\ f.op = "wt_open" <=> g.op = "wt_open"
Stacked(q) == \A i, j \in 1..Len(q) : i < j => Above(q[i], q[j])

(* A stream of which the engine knows nothing yet.                         *)
Blank(e) == /\ ~e.local /\ ~e.send /\ ~e.recv /\ ~e.drain /\ ~e.fin
            /\ ~e.commit /\ ~e.paused

(* What a waiting call relies on.                                          *)
OpenOwes(f) ==
    f.op = "wt_open" =>
        /\ Own(f, f.s) /\ Blank(slot[f.s]) /\ slot[f.s].ds = NoDs
        /\ sess /= "ended" => heard[f.s] = {}
        /\ ~Budgeted => sess = "active"
ForStream(f) ==
    (f.op \in SlotOps) =>
        /\ f.g <= slot[f.s].gen
        /\ (f.op /= "wt_open" /\ Own(f, f.s) /\ slot[f.s].kind = "WT")
             => f.d = slot[f.s].ds
StreamOwes(f) ==
    (f.op \in SlotOps /\ Own(f, f.s) /\ slot[f.s].kind = "WT") =>
        LET e == slot[f.s]  d == e.ds IN
        /\ SendsFin(f) => /\ tx[d] \in {"fin", "ended"}
                          /\ (e.commit /\ ~ReleaseDue(f.s)) => e.send
        /\ f.op = "release" => ~e.send
        /\ Shuts(f, "send") => tx[d] = "ended"
        /\ Shuts(f, "recv") =>
             /\ ~e.local \/ e.bidi
             /\ rx[d] /= "open" /\ ~held[d]
             /\ ~Fatal => \/ rx[d] = "stopped"
                          \/ rx[d] = "ended" /\ FinDue(f.s)
        /\ f.op = "fin_delivered" => rx[d] = "ended"
TornOwes(f) ==
    /\ f.op \in {"torn", "teardown"} => sess = "ended"
    /\ (f.op = "torn" /\ slot[f.s].kind = "WT") =>
        LET e == slot[f.s]  d == e.ds IN
        /\ ~closed => ~held[d]
        /\ (~Fatal /\ ~gone[d]) => /\ e.send => tx[d] /= "open"
                                   /\ e.recv => rx[d] /= "open"
Owes(f) == /\ OpenOwes(f) /\ ForStream(f) /\ StreamOwes(f) /\ TornOwes(f)
           /\ f.op = "terminal" => gone[f.d]

(* The slots.                                                              *)
Shape(e) ==
    /\ ~(e.recv /\ e.drain)
    /\ (e.local /\ ~e.bidi) => ~e.recv /\ ~e.drain
    /\ e.commit => e.local /\ ~e.bidi
    /\ e.fin => e.commit
SendSide(s) ==
    LET e == slot[s]  d == e.ds IN
    /\ ~Fatal /\ e.send => \/ tx[d] = "open"
                           \/ tx[d] = "fin" /\ FinSent(s)
                           \/ tx[d] = "ended" /\ Ends(s, "send")
    /\ ~Fatal /\ e.fin => \/ tx[d] = "fin"
                          \/ tx[d] = "ended" /\ Ends(s, "send")
    /\ ~Fatal /\ ~gone[d] /\ ~e.send => tx[d] /= "open"
RecvSide(s) ==
    LET e == slot[s]  d == e.ds IN
    /\ ~Fatal /\ e.recv => \/ rx[d] = "open"
                           \/ rx[d] = "stopped" /\ Ends(s, "recv")
                           \/ rx[d] = "ended" /\ FinDue(s)
    /\ ~Fatal /\ ~gone[d] /\ ~e.recv => rx[d] /= "open"
    /\ ~Fatal /\ ~gone[d] /\ e.drain =>
                           \/ rx[d] = "stopped"
                           \/ rx[d] = "ended" /\ FinDue(s)
    /\ ~Fatal /\ ~gone[d] /\ rx[d] = "stopped" => e.recv \/ e.drain
Told(s) ==
    LET e == slot[s] IN
    /\ e.recv /\ rx[e.ds] = "open" =>
         heard[s] \cap {"fin", "reset", "app_stop"} = {}
    /\ LiveHalves(e) /= {} =>
         heard[s] \cap {"committed", "terminal", "session"} = {}
    /\ (e.send \/ e.fin) => "stop" \notin heard[s]
Lives(s) ==
    /\ Shape(slot[s]) /\ SendSide(s) /\ RecvSide(s) /\ Told(s)
    /\ Done(slot[s]) => SettleDue(s)
    /\ (sess = "ended" /\ LiveHalves(slot[s]) /= {})
         => TornDue(s) \/ TeardownDue(s)
Starts(s) ==
    /\ Blank(slot[s])
    /\ tx[slot[s].ds] = IF slot[s].bidi THEN "open" ELSE "none"
    /\ sess /= "ended" => heard[s] = {}
SlotOK(s) ==
    /\ slot[s].kind = "WT" => Lives(s)
    /\ slot[s].kind = "TYPE" => Starts(s)
    /\ "late" \notin heard[s]
    /\ "session" \in heard[s] => sess = "ended"
    /\ Budgeted /\ slot[s].kind \in InUse => slot[s].resident

(* The stream objects.                                                     *)
ObjectOK(d) ==
    /\ gone[d] => ~(tx[d] = "none" /\ rx[d] = "none")
    /\ gone[d] /\ ~Budgeted => ~held[d]
    /\ ~closed /\ held[d] =>
         /\ rx[d] = "open"
         /\ ectx[d] /= NoSlot => /\ slot[ectx[d]].kind = "WT"
                                 /\ slot[ectx[d]].recv /\ slot[ectx[d]].paused

(* The input that runs next finds its stream receiving.                    *)
InputReady ==
    ((At("input") \/ At("input_fin")) /\ ~closed) =>
        LET d == This.d  s == ectx[d] IN
        (s /= NoSlot /\ slot[s].kind = "WT") =>
            \/ Len(agenda) = 1 /\ ~gone[d] /\ rx[d] \in {"open", "stopped"}
            \/ slot[s].recv /\ ~slot[s].paused /\ rx[d] = "open"

Agreed ==
    /\ Stacked(agenda) /\ InputReady /\ PoolBound
    /\ \A f \in Waiting(agenda) : Owes(f)
    /\ \A s \in Slots : SlotOK(s)
    /\ \A d \in DStreams : ObjectOK(d)

-----------------------------------------------------------------------------
(* The stack as a set of calls.                                            *)

(* A call waits when it is at some place of the stack.                     *)
LEMMA WaitingPlaces ==
    ASSUME NEW q, NEW f
    PROVE  f \in Waiting(q) <=> \E i \in 1..Len(q) : f = q[i]
  BY DEF Waiting

(* The calls of short lists.                                               *)
LEMMA WaitingLists ==
    /\ Waiting(<<>>) = {}
    /\ \A a : Waiting(<<a>>) = {a}
    /\ \A a, b : Waiting(<<a, b>>) = {a, b}
    /\ \A a, b, c : Waiting(<<a, b, c>>) = {a, b, c}
    /\ \A a, b, c, d : Waiting(<<a, b, c, d>>) = {a, b, c, d}
<1>1. Waiting(<<>>) = {}
  BY SMT DEF Waiting
<1>2. ASSUME NEW a PROVE Waiting(<<a>>) = {a}
  BY SMT DEF Waiting
<1>3. ASSUME NEW a, NEW b PROVE Waiting(<<a, b>>) = {a, b}
  <2>1. \A f : f \in Waiting(<<a, b>>) <=> f \in {a, b}
    BY WaitingPlaces, SMT
  <2> QED BY <2>1
<1>4. ASSUME NEW a, NEW b, NEW c PROVE Waiting(<<a, b, c>>) = {a, b, c}
  <2>1. \A f : f \in Waiting(<<a, b, c>>) <=> f \in {a, b, c}
    BY WaitingPlaces, SMT
  <2> QED BY <2>1
<1>5. ASSUME NEW a, NEW b, NEW c, NEW d
      PROVE  Waiting(<<a, b, c, d>>) = {a, b, c, d}
  <2>1. \A f : f \in Waiting(<<a, b, c, d>>) <=> f \in {a, b, c, d}
    BY WaitingPlaces, SMT
  <2> QED BY <2>1
<1> QED BY <1>1, <1>2, <1>3, <1>4, <1>5

(* The calls of a stack with further calls on top, and its order.          *)
LEMMA WaitingOn ==
    ASSUME NEW c \in Seq(Frame), NEW q \in Seq(Frame)
    PROVE  /\ Waiting(c \o q) = Waiting(c) \cup Waiting(q)
           /\ Waiting(c) \subseteq Frame /\ Waiting(q) \subseteq Frame
           /\ (/\ Stacked(c) /\ Stacked(q)
               /\ \A f \in Waiting(c), g \in Waiting(q) : Above(f, g))
              => Stacked(c \o q)
<1>1. /\ c \o q \in Seq(Frame) /\ Len(c \o q) = Len(c) + Len(q)
      /\ \A i \in 1..Len(c) : (c \o q)[i] = c[i]
      /\ \A i \in 1..Len(q) : (c \o q)[Len(c) + i] = q[i]
      /\ Len(c) \in Nat /\ Len(q) \in Nat
  BY ConcatFacts
<1>2. ASSUME NEW i \in 1..Len(c \o q)
      PROVE  \/ i \in 1..Len(c) /\ (c \o q)[i] = c[i]
             \/ /\ i - Len(c) \in 1..Len(q) /\ i \notin 1..Len(c)
                /\ (c \o q)[i] = q[i - Len(c)]
  <2>1. CASE i \in 1..Len(c)
    BY <1>1, <2>1
  <2>2. CASE i \notin 1..Len(c)
    <3>1. i - Len(c) \in 1..Len(q) /\ i = Len(c) + (i - Len(c))
      BY <1>1, <2>2
    <3> QED BY <1>1, <2>2, <3>1
  <2> QED BY <2>1, <2>2
<1>3. Waiting(c \o q) = Waiting(c) \cup Waiting(q)
  <2>1. ASSUME NEW f \in Waiting(c \o q) PROVE f \in Waiting(c) \cup Waiting(q)
    <3>1. PICK i \in 1..Len(c \o q) : f = (c \o q)[i]
      BY WaitingPlaces
    <3>2. \/ i \in 1..Len(c) /\ f = c[i]
          \/ i - Len(c) \in 1..Len(q) /\ f = q[i - Len(c)]
      BY <1>2, <3>1
    <3> QED BY <3>2, WaitingPlaces
  <2>2. ASSUME NEW f \in Waiting(c) PROVE f \in Waiting(c \o q)
    <3>1. PICK i \in 1..Len(c) : f = c[i]
      BY WaitingPlaces
    <3>2. i \in 1..Len(c \o q) /\ f = (c \o q)[i]
      BY <1>1, <3>1
    <3> QED BY <3>2, WaitingPlaces
  <2>3. ASSUME NEW f \in Waiting(q) PROVE f \in Waiting(c \o q)
    <3>1. PICK i \in 1..Len(q) : f = q[i]
      BY WaitingPlaces
    <3>2. Len(c) + i \in 1..Len(c \o q) /\ f = (c \o q)[Len(c) + i]
      BY <1>1, <3>1
    <3> QED BY <3>2, WaitingPlaces
  <2> QED BY <2>1, <2>2, <2>3
<1>4. Waiting(c) \subseteq Frame /\ Waiting(q) \subseteq Frame
  BY WaitingPlaces
<1>5. ASSUME Stacked(c), Stacked(q),
             \A f \in Waiting(c), g \in Waiting(q) : Above(f, g)
      PROVE  Stacked(c \o q)
  <2> SUFFICES ASSUME NEW i \in 1..Len(c \o q), NEW j \in 1..Len(c \o q), i < j
               PROVE  Above((c \o q)[i], (c \o q)[j])
    BY DEF Stacked
  <2>1. CASE i \in 1..Len(c) /\ j \in 1..Len(c)
    BY <1>1, <1>5, <2>1 DEF Stacked
  <2>2. CASE i \in 1..Len(c) /\ j \notin 1..Len(c)
    <3>1. /\ j - Len(c) \in 1..Len(q) /\ (c \o q)[j] = q[j - Len(c)]
          /\ (c \o q)[i] = c[i]
      BY <1>1, <1>2, <2>2
    <3>2. c[i] \in Waiting(c) /\ q[j - Len(c)] \in Waiting(q)
      BY <2>2, <3>1, WaitingPlaces
    <3> QED BY <1>5, <3>1, <3>2
  <2>3. CASE i \notin 1..Len(c)
    <3>1. j \notin 1..Len(c)
      BY <1>1, <2>3
    <3>2. /\ i - Len(c) \in 1..Len(q) /\ (c \o q)[i] = q[i - Len(c)]
          /\ j - Len(c) \in 1..Len(q) /\ (c \o q)[j] = q[j - Len(c)]
      BY <1>2, <2>3, <3>1
    <3>3. i - Len(c) < j - Len(c)
      BY <1>1
    <3> QED BY <1>5, <3>2, <3>3 DEF Stacked
  <2> QED BY <2>1, <2>2, <2>3
<1> QED BY <1>3, <1>4, <1>5

(* The calls of the stack are the running one and those below it.          *)
LEMMA WaitingTail ==
    ASSUME NEW q \in Seq(Frame), q /= <<>>, Stacked(q)
    PROVE  /\ Waiting(q) = {Head(q)} \cup Waiting(Tail(q))
           /\ Tail(q) \in Seq(Frame) /\ Waiting(Tail(q)) \subseteq Frame
           /\ Head(q) \in Frame /\ Head(q) \in Waiting(q)
           /\ \A g \in Waiting(Tail(q)) : Above(Head(q), g)
           /\ Stacked(Tail(q))
<1>1. /\ Tail(q) \in Seq(Frame) /\ Len(Tail(q)) = Len(q) - 1
      /\ \A i \in 1..Len(Tail(q)) : Tail(q)[i] = q[i + 1]
      /\ Len(q) \in Nat \ {0} /\ Head(q) = q[1] /\ q[1] \in Frame
  BY TailFacts
<1>2. ASSUME NEW f \in Waiting(Tail(q))
      PROVE  /\ f \in Waiting(q) /\ Above(Head(q), f) /\ f \in Frame
  <2>1. PICK i \in 1..Len(Tail(q)) : f = Tail(q)[i]
    BY WaitingPlaces
  <2>2. i + 1 \in 1..Len(q) /\ f = q[i + 1] /\ 1 < i + 1 /\ 1 \in 1..Len(q)
    BY <1>1, <2>1
  <2>3. f \in Waiting(q)
    BY <2>2, WaitingPlaces
  <2>4. Above(q[1], q[i + 1])
    BY <2>2 DEF Stacked
  <2>5. f \in Frame
    BY <1>1, <2>1
  <2> QED BY <1>1, <2>2, <2>3, <2>4, <2>5
<1>3. Head(q) \in Waiting(q)
  <2>1. 1 \in 1..Len(q)
    BY <1>1
  <2> QED BY <1>1, <2>1, WaitingPlaces
<1>4. ASSUME NEW f \in Waiting(q), f /= Head(q) PROVE f \in Waiting(Tail(q))
  <2>1. PICK i \in 1..Len(q) : f = q[i]
    BY WaitingPlaces
  <2>2. i /= 1
    BY <1>1, <1>4, <2>1
  <2>3. i - 1 \in 1..Len(Tail(q)) /\ (i - 1) + 1 = i
    BY <1>1, <2>2
  <2>4. f = Tail(q)[i - 1]
    BY <1>1, <2>1, <2>3
  <2> QED BY <2>3, <2>4, WaitingPlaces
<1>5. Stacked(Tail(q))
  <2> SUFFICES ASSUME NEW i \in 1..Len(Tail(q)), NEW j \in 1..Len(Tail(q)), i < j
               PROVE  Above(Tail(q)[i], Tail(q)[j])
    BY DEF Stacked
  <2>1. /\ i + 1 \in 1..Len(q) /\ j + 1 \in 1..Len(q) /\ i + 1 < j + 1
        /\ Tail(q)[i] = q[i + 1] /\ Tail(q)[j] = q[j + 1]
    BY <1>1
  <2> QED BY <2>1 DEF Stacked
<1> QED BY <1>1, <1>2, <1>3, <1>4, <1>5

(* The running call is replaced by the calls c.                            *)
LEMMA Popped ==
    ASSUME IInv, Agreed, agenda /= <<>>, NEW c \in Seq(Frame), Then(c)
    PROVE  /\ Waiting(agenda)' = Waiting(c) \cup Waiting(Tail(agenda))
           /\ Waiting(agenda) = {This} \cup Waiting(Tail(agenda))
           /\ Waiting(c) \subseteq Frame /\ Waiting(Tail(agenda)) \subseteq Frame
           /\ This \in Frame
           /\ \A g \in Waiting(Tail(agenda)) : Above(This, g)
           /\ (/\ Stacked(c)
               /\ \A f \in Waiting(c), g \in Waiting(Tail(agenda)) : Above(f, g))
              => Stacked(agenda)'
<1>1. agenda \in Seq(Frame) /\ Stacked(agenda)
  BY DEF IInv, TypeOK, Agreed
<1>2. agenda' = c \o Tail(agenda)
  BY DEF Then
<1>3. Tail(agenda) \in Seq(Frame)
  BY <1>1, WaitingTail
<1>4. /\ Waiting(agenda) = {This} \cup Waiting(Tail(agenda))
      /\ This \in Frame
      /\ \A g \in Waiting(Tail(agenda)) : Above(This, g)
      /\ Stacked(Tail(agenda))
  BY <1>1, WaitingTail DEF This
<1>5. /\ Waiting(c \o Tail(agenda)) = Waiting(c) \cup Waiting(Tail(agenda))
      /\ Waiting(c) \subseteq Frame /\ Waiting(Tail(agenda)) \subseteq Frame
      /\ (/\ Stacked(c) /\ Stacked(Tail(agenda))
          /\ \A f \in Waiting(c), g \in Waiting(Tail(agenda)) : Above(f, g))
         => Stacked(c \o Tail(agenda))
  BY <1>3, WaitingOn
<1> QED BY <1>2, <1>4, <1>5

(* The calls c are pushed on top of the stack.                             *)
LEMMA Pushed ==
    ASSUME IInv, Agreed, NEW c \in Seq(Frame), Enter(c)
    PROVE  /\ Waiting(agenda)' = Waiting(c) \cup Waiting(agenda)
           /\ Waiting(c) \subseteq Frame /\ Waiting(agenda) \subseteq Frame
           /\ (/\ Stacked(c)
               /\ \A f \in Waiting(c), g \in Waiting(agenda) : Above(f, g))
              => Stacked(agenda)'
<1>1. agenda \in Seq(Frame) /\ Stacked(agenda)
  BY DEF IInv, TypeOK, Agreed
<1> QED BY <1>1, WaitingOn DEF Enter

(* A call that can wait above any other but one on the same stream's open. *)
Light(f) ==
    /\ f.op \notin {"input", "input_fin", "more", "teardown", "fin_delivered",
                     "wt_open"}
    /\ ~SendsFin(f)
    /\ f.s \in Slots => slot[f.s].kind \in InUse

(* Nothing but the bottom of the stack is an input that has yet to start.  *)
LEMMA LightAbove ==
    ASSUME IInv, NEW f, Light(f), NEW g \in Waiting(agenda),
           g.op \notin {"input", "input_fin"}
    PROVE  Above(f, g)
<1>1. ASSUME f.s = g.s, f.s \in Slots PROVE g.op /= "wt_open"
  <2>1. PICK i \in 1..Len(agenda) : g = agenda[i]
    BY WaitingPlaces
  <2> QED BY <1>1, <2>1 DEF IInv, OpensReserved, Light, InUse, Freeish
<1> QED BY <1>1 DEF Above, Light

(* Short lists of light calls are in order.                                *)
LEMMA ShortStacks ==
    /\ Stacked(<<>>)
    /\ \A a : Stacked(<<a>>)
    /\ \A a, b : Above(a, b) => Stacked(<<a, b>>)
    /\ \A a, b, c : Above(a, b) /\ Above(a, c) /\ Above(b, c)
         => Stacked(<<a, b, c>>)
    /\ \A a, b, c, d :
         Above(a, b) /\ Above(a, c) /\ Above(a, d)
         /\ Above(b, c) /\ Above(b, d) /\ Above(c, d)
         => Stacked(<<a, b, c, d>>)
<1>1. Stacked(<<>>)
  BY SMT DEF Stacked
<1>2. ASSUME NEW a PROVE Stacked(<<a>>)
  BY SMT DEF Stacked
<1>3. ASSUME NEW a, NEW b, Above(a, b) PROVE Stacked(<<a, b>>)
  <2> SUFFICES ASSUME NEW i \in 1..2, NEW j \in 1..2, i < j
               PROVE  Above(<<a, b>>[i], <<a, b>>[j])
    BY SMT DEF Stacked
  <2>1. i = 1 /\ j = 2
    BY SMT
  <2> QED BY <1>3, <2>1
<1>4. ASSUME NEW a, NEW b, NEW c, Above(a, b), Above(a, c), Above(b, c)
      PROVE  Stacked(<<a, b, c>>)
  <2> SUFFICES ASSUME NEW i \in 1..3, NEW j \in 1..3, i < j
               PROVE  Above(<<a, b, c>>[i], <<a, b, c>>[j])
    BY SMT DEF Stacked
  <2>1. \/ i = 1 /\ j = 2
        \/ i = 1 /\ j = 3
        \/ i = 2 /\ j = 3
    BY SMT
  <2> DEFINE t == <<a, b, c>>
  <2>2. t[1] = a /\ t[2] = b /\ t[3] = c
    OBVIOUS
  <2> HIDE DEF t
  <2>3. Above(t[i], t[j])
    BY <1>4, <2>1, <2>2
  <2> QED BY <2>3 DEF t
<1>5. ASSUME NEW a, NEW b, NEW c, NEW d, Above(a, b), Above(a, c),
             Above(a, d), Above(b, c), Above(b, d), Above(c, d)
      PROVE  Stacked(<<a, b, c, d>>)
  <2> SUFFICES ASSUME NEW i \in 1..4, NEW j \in 1..4, i < j
               PROVE  Above(<<a, b, c, d>>[i], <<a, b, c, d>>[j])
    BY SMT DEF Stacked
  <2>1. \/ i = 1 /\ j = 2
        \/ i = 1 /\ j = 3
        \/ i = 1 /\ j = 4
        \/ i = 2 /\ j = 3
        \/ i = 2 /\ j = 4
        \/ i = 3 /\ j = 4
    BY SMT
  <2> DEFINE t == <<a, b, c, d>>
  <2>2. t[1] = a /\ t[2] = b /\ t[3] = c /\ t[4] = d
    OBVIOUS
  <2> HIDE DEF t
  <2>3. Above(t[i], t[j])
    BY <1>5, <2>1, <2>2
  <2> QED BY <2>3 DEF t
<1> QED BY <1>1, <1>2, <1>3, <1>4, <1>5

-----------------------------------------------------------------------------
(* What a step leaves alone.                                               *)

(* The calls that wait still do for stream s what they did.                *)
DuesKept(s) ==
    slot[s].kind = "WT" =>
      /\ FinSent(s) => FinSent(s)'
      /\ \A h \in Halves : Ends(s, h) => Ends(s, h)'
      /\ FinDue(s) => FinDue(s)'
      /\ ReleaseDue(s) => ReleaseDue(s)'
      /\ (Done(slot[s]) /\ SettleDue(s)) => SettleDue(s)'
      /\ (TornDue(s) \/ TeardownDue(s)) => TornDue(s)' \/ TeardownDue(s)'

(* A call that does nothing for the stream in slot s.                      *)
Idler(f, s) ==
    slot[s].kind = "WT" =>
      /\ f.op = "teardown" => s \notin f.x
      /\ f.s = s => \/ f.op \in {"more", "wt_open"}
                    \/ f.op = "send_done" /\ "fin" \notin f.x
                    \/ f.op \in {"settle", "settle_same"} /\ ~Done(slot[s])
                    \/ f.op \notin {"torn", "settle", "release"}
                       /\ f.g /= slot[s].gen

(* Only the end of such calls leaves the others' work undisturbed.         *)
LEMMA DuesStay ==
    ASSUME NEW s \in Slots, slot'[s].gen = slot[s].gen,
           \A f \in Waiting(agenda) : f \in Waiting(agenda)' \/ Idler(f, s)
    PROVE  DuesKept(s)
<1> SUFFICES ASSUME slot[s].kind = "WT" PROVE DuesKept(s)
  BY DEF DuesKept
<1> USE DEF Own, Idler
<1>1. FinSent(s) => FinSent(s)'
  BY DEF FinSent, SendsFin
<1>2. TornDue(s) => TornDue(s)'
  BY DEF TornDue
<1>3. \A h \in Halves : Ends(s, h) => Ends(s, h)'
  BY <1>2 DEF Ends, Shuts
<1>4. FinDue(s) => FinDue(s)'
  BY DEF FinDue
<1>5. Done(slot[s]) /\ SettleDue(s) => SettleDue(s)'
  BY DEF SettleDue
<1>6. TeardownDue(s) => TeardownDue(s)'
  BY DEF TeardownDue
<1>7. ReleaseDue(s) => ReleaseDue(s)'
  BY DEF ReleaseDue
<1> QED BY <1>1, <1>2, <1>3, <1>4, <1>5, <1>6, <1>7, Zenon DEF DuesKept

(* A lost connection stays lost.                                           *)
LEMMA FatalStays ==
    ASSUME closed => closed',
           \A f \in Waiting(agenda) :
             f \in Waiting(agenda)' \/ f.op /= "conn_fatal"
    PROVE  Fatal => Fatal'
  BY DEF Fatal

(* The step touches no stream object but d and no slot but s; no other     *)
(* slot uses d.                                                            *)
Elsewhere(s, d) ==
    /\ \A t \in Slots \ {s} : /\ slot'[t] = slot[t] /\ heard'[t] = heard[t]
                              /\ slot[t].kind \in InUse => slot[t].ds /= d
    /\ \A c \in DStreams \ {d} :
         /\ tx'[c] = tx[c] /\ rx'[c] = rx[c] /\ gone'[c] = gone[c]
         /\ held'[c] = held[c] /\ ectx'[c] = ectx[c]

(* The session stays as it is, and what is lost or ended stays so.         *)
Steady ==
    /\ sess' = sess
    /\ closed => closed'
    /\ Fatal => Fatal'
    /\ \A d \in DStreams : gone[d] => gone'[d]

(* A slot that a step does not touch stays in order.                       *)
LEMMA SlotStays ==
    ASSUME NEW t \in Slots, IInv, SlotOK(t), DuesKept(t), Steady,
           slot'[t] = slot[t], heard'[t] = heard[t],
           slot[t].kind \in InUse =>
             /\ tx'[slot[t].ds] = tx[slot[t].ds]
             /\ rx'[slot[t].ds] = rx[slot[t].ds]
             /\ gone'[slot[t].ds] = gone[slot[t].ds]
    PROVE  SlotOK(t)'
<1>1. ASSUME slot[t].kind = "WT" PROVE Lives(t)'
  <2>1. Lives(t)
    BY <1>1 DEF SlotOK
  <2>2. /\ tx'[slot[t].ds] = tx[slot[t].ds] /\ rx'[slot[t].ds] = rx[slot[t].ds]
        /\ gone'[slot[t].ds] = gone[slot[t].ds]
    BY <1>1 DEF InUse
  <2>3. SendSide(t)'
    BY <1>1, <2>1, <2>2 DEF Lives, SendSide, Steady, DuesKept, Halves
  <2>4. RecvSide(t)'
    BY <1>1, <2>1, <2>2 DEF Lives, RecvSide, Steady, DuesKept, Halves
  <2>5. Told(t)'
    BY <2>1, <2>2 DEF Lives, Told, LiveHalves
  <2>6. (sess = "ended" /\ LiveHalves(slot[t]) /= {})
          => (TornDue(t) \/ TeardownDue(t))'
    BY <1>1, <2>1, Zenon DEF Lives, DuesKept
  <2>7. Done(slot[t]) => SettleDue(t)'
    BY <1>1, <2>1 DEF Lives, DuesKept
  <2> QED BY <2>1, <2>3, <2>4, <2>5, <2>6, <2>7 DEF Lives, Steady
<1>2. ASSUME slot[t].kind = "TYPE" PROVE Starts(t)'
  BY <1>2 DEF SlotOK, Starts, Steady, InUse
<1> QED BY <1>1, <1>2 DEF SlotOK, Steady

(* A call that waits for such a slot, or for none, relies on what it did.  *)
LEMMA OwesStays ==
    ASSUME IInv, NEW f \in Frame, Owes(f), Steady,
           f.s \in Slots =>
             /\ slot'[f.s] = slot[f.s] /\ heard'[f.s] = heard[f.s]
             /\ slot[f.s].kind = "WT" =>
                  /\ FinDue(f.s) => FinDue(f.s)'
                  /\ ReleaseDue(f.s) => ReleaseDue(f.s)'
             /\ slot[f.s].kind \in InUse =>
                  /\ tx'[slot[f.s].ds] = tx[slot[f.s].ds]
                  /\ rx'[slot[f.s].ds] = rx[slot[f.s].ds]
                  /\ gone'[slot[f.s].ds] = gone[slot[f.s].ds]
                  /\ held'[slot[f.s].ds] = held[slot[f.s].ds]
    PROVE  Owes(f)'
<1>1. f.op \in SlotOps => f.s \in Slots
  BY DEF Frame, SlotOps, StreamOps, PlainOps
<1>2. OpenOwes(f)'
  BY <1>1 DEF Owes, OpenOwes, Own, Steady, SlotOps
<1>3. ForStream(f)'
  BY <1>1 DEF Owes, ForStream, Own
<1>4. StreamOwes(f)'
  <2> SUFFICES ASSUME f.op \in SlotOps, Own(f, f.s)', slot'[f.s].kind = "WT"
               PROVE  StreamOwes(f)'
    BY DEF StreamOwes
  <2>1. /\ slot'[f.s] = slot[f.s]
        /\ FinDue(f.s) => FinDue(f.s)'
        /\ ReleaseDue(f.s) => ReleaseDue(f.s)'
        /\ tx'[slot[f.s].ds] = tx[slot[f.s].ds]
        /\ rx'[slot[f.s].ds] = rx[slot[f.s].ds]
        /\ held'[slot[f.s].ds] = held[slot[f.s].ds]
    BY <1>1 DEF InUse
  <2> QED BY <1>1, <2>1 DEF Owes, StreamOwes, Own, Steady
<1>5. TornOwes(f)'
  <2>1. CASE f.op = "torn" /\ slot[f.s].kind = "WT"
    <3>1. /\ slot'[f.s] = slot[f.s]
          /\ tx'[slot[f.s].ds] = tx[slot[f.s].ds]
          /\ rx'[slot[f.s].ds] = rx[slot[f.s].ds]
          /\ gone'[slot[f.s].ds] = gone[slot[f.s].ds]
          /\ held'[slot[f.s].ds] = held[slot[f.s].ds]
      BY <1>1, <2>1 DEF InUse, SlotOps
    <3> QED BY <2>1, <3>1 DEF Owes, TornOwes, Steady
  <2>2. CASE ~(f.op = "torn" /\ slot[f.s].kind = "WT")
    BY <1>1, <2>2 DEF Owes, TornOwes, Steady, SlotOps
  <2> QED BY <2>1, <2>2
<1>6. (f.op = "terminal" => gone[f.d])'
  <2> SUFFICES ASSUME f.op = "terminal" PROVE gone'[f.d]
    OBVIOUS
  <2>1. f.d \in DStreams /\ gone[f.d]
    BY DEF Owes, Frame, StreamOps, SlotOps, PlainOps
  <2> QED BY <2>1 DEF Steady
<1> QED BY <1>2, <1>3, <1>4, <1>5, <1>6 DEF Owes

(* A stream object that a step does not touch, nor its slot.               *)
LEMMA ObjectStays ==
    ASSUME NEW c \in DStreams, ObjectOK(c), IInv, closed => closed',
           tx'[c] = tx[c], rx'[c] = rx[c], gone'[c] = gone[c],
           held'[c] = held[c], ectx'[c] = ectx[c],
           ectx[c] /= NoSlot => slot'[ectx[c]] = slot[ectx[c]]
    PROVE  ObjectOK(c)'
  BY DEF ObjectOK

(* What remains to be shown of a step that touches slot s and object d.    *)
LEMMA OneTouched ==
    ASSUME IInv, Agreed, Steady, NEW s \in Slots, NEW d \in DStreams \cup {NoDs},
           Elsewhere(s, d),
           \A t \in Slots \ {s} : DuesKept(t),
           Stacked(agenda)', InputReady', PoolBound',
           SlotOK(s)', d \in DStreams => ObjectOK(d)',
           slot[s].kind \in InUse => slot[s].ds = d,
           \A f \in Waiting(agenda)' :
             \/ f \in Waiting(agenda) /\ f.s /= s
             \/ Owes(f)'
    PROVE  Agreed'
<1>1. ASSUME NEW t \in Slots, t /= s
      PROVE  /\ slot'[t] = slot[t] /\ heard'[t] = heard[t]
             /\ slot[t].kind \in InUse =>
                  /\ tx'[slot[t].ds] = tx[slot[t].ds]
                  /\ rx'[slot[t].ds] = rx[slot[t].ds]
                  /\ gone'[slot[t].ds] = gone[slot[t].ds]
                  /\ held'[slot[t].ds] = held[slot[t].ds]
  <2>1. slot[t].kind \in InUse => slot[t].ds \in DStreams \ {d}
    BY <1>1 DEF Elsewhere, IInv, LinkIntegrity
  <2> QED BY <1>1, <2>1 DEF Elsewhere
<1>2. \A t \in Slots : SlotOK(t)'
  <2> SUFFICES ASSUME NEW t \in Slots, t /= s PROVE SlotOK(t)'
    OBVIOUS
  <2>1. SlotOK(t) /\ DuesKept(t)
    BY DEF Agreed
  <2> QED BY <1>1, <2>1, SlotStays
<1>3. \A f \in Waiting(agenda)' : Owes(f)'
  <2> SUFFICES ASSUME NEW f \in Waiting(agenda), f.s /= s PROVE Owes(f)'
    OBVIOUS
  <2>1. Owes(f) /\ f \in Frame
    <3>1. agenda \in Seq(Frame)
      BY DEF IInv, TypeOK
    <3> QED BY <3>1, WaitingPlaces DEF Agreed
  <2>2. f.s \in Slots => DuesKept(f.s)
    OBVIOUS
  <2>3. f.s \in Slots =>
          (slot[f.s].kind = "WT" => /\ FinDue(f.s) => FinDue(f.s)'
                                    /\ ReleaseDue(f.s) => ReleaseDue(f.s)')
    BY <2>2 DEF DuesKept
  <2> QED BY <1>1, <2>1, <2>3, OwesStays
<1>4. \A c \in DStreams : ObjectOK(c)'
  <2> SUFFICES ASSUME NEW c \in DStreams, c /= d PROVE ObjectOK(c)'
    OBVIOUS
  <2>1. ectx[c] /= s
    BY SlotAssumption DEF IInv, LinkIntegrity, Linked, InUse
  <2>2. ectx[c] /= NoSlot => ectx[c] \in Slots \ {s}
    BY <2>1 DEF IInv, TypeOK
  <2>3. ectx[c] /= NoSlot => slot'[ectx[c]] = slot[ectx[c]]
    BY <1>1, <2>2
  <2>4. ObjectOK(c)
    BY DEF Agreed
  <2> QED BY <2>3, <2>4, ObjectStays DEF Elsewhere, Steady
<1> QED BY <1>2, <1>3, <1>4 DEF Agreed

(* What remains to be shown of a step that touches no slot and no object.  *)
LEMMA NoneChanged ==
    ASSUME IInv, Agreed, Steady,
           UNCHANGED <<slot, ectx, wire, heard>>,
           \A t \in Slots : DuesKept(t),
           Stacked(agenda)', InputReady',
           \A f \in Waiting(agenda)' : f \in Waiting(agenda) \/ Owes(f)'
    PROVE  Agreed'
<1>1. \A t \in Slots : SlotOK(t)'
  <2> SUFFICES ASSUME NEW t \in Slots PROVE SlotOK(t)'
    OBVIOUS
  <2>1. SlotOK(t) /\ DuesKept(t)
    BY DEF Agreed
  <2> QED BY <2>1, SlotStays DEF wire
<1>2. \A f \in Waiting(agenda)' : Owes(f)'
  <2> SUFFICES ASSUME NEW f \in Waiting(agenda) PROVE Owes(f)'
    OBVIOUS
  <2>1. Owes(f) /\ f \in Frame
    <3>1. agenda \in Seq(Frame)
      BY DEF IInv, TypeOK
    <3> QED BY <3>1, WaitingPlaces DEF Agreed
  <2>2. f.s \in Slots =>
          (slot[f.s].kind = "WT" => /\ FinDue(f.s) => FinDue(f.s)'
                                    /\ ReleaseDue(f.s) => ReleaseDue(f.s)')
    BY DEF DuesKept
  <2> QED BY <2>1, <2>2, OwesStays DEF wire
<1>3. \A c \in DStreams : ObjectOK(c)'
  BY ObjectStays DEF Agreed, wire, Steady
<1>4. PoolBound'
  BY DEF Agreed, PoolBound, wire
<1> QED BY <1>1, <1>2, <1>3, <1>4 DEF Agreed

-----------------------------------------------------------------------------
(* Ways to change the stack.                                               *)

(* No input waits when an event comes in or the application runs.          *)
LEMMA NoInputs ==
    ASSUME IInv, Agreed, Idle \/ At("app"), NEW g \in Waiting(agenda)
    PROVE  g \in Frame /\ g.op \notin {"input", "input_fin"}
<1>1. agenda \in Seq(Frame) /\ Stacked(agenda)
  BY DEF IInv, TypeOK, Agreed
<1>2. ~Idle
  BY WaitingLists DEF Idle
<1>3. This.op = "app" /\ agenda /= <<>>
  BY <1>2 DEF At, This, Idle
<1>4. g = This \/ Above(This, g)
  BY <1>1, <1>3, WaitingTail DEF This
<1> QED BY <1>1, <1>3, <1>4, WaitingTail DEF Above, This

(* What is on top of a stack waits on it.                                  *)
LEMMA TopWaits ==
    ASSUME IInv', NEW op, At(op)'
    PROVE  \E f \in Waiting(agenda)' : f.op = op
<1>1. agenda' \in Seq(Frame) /\ agenda' /= <<>> /\ Head(agenda').op = op
  BY DEF IInv, TypeOK, At
<1>2. Head(agenda') = agenda'[1] /\ 1 \in 1..Len(agenda')
  BY <1>1, TailFacts
<1> QED BY <1>1, <1>2, WaitingPlaces

(* Calls pushed by an event or by the application.                         *)
LEMMA EnterSteady ==
    ASSUME IInv, IInv', Agreed, Idle \/ At("app"), NEW c \in Seq(Frame),
           Enter(c), Stacked(c), \A f \in Waiting(c) : Light(f),
           closed => closed'
    PROVE  /\ Stacked(agenda)' /\ InputReady'
           /\ Fatal => Fatal'
           /\ \A t \in Slots : slot'[t].gen = slot[t].gen => DuesKept(t)
           /\ Waiting(agenda)' = Waiting(c) \cup Waiting(agenda)
<1>1. /\ Waiting(agenda)' = Waiting(c) \cup Waiting(agenda)
      /\ (\A f \in Waiting(c), g \in Waiting(agenda) : Above(f, g))
           => Stacked(agenda)'
  BY Pushed
<1>2. \A g \in Waiting(agenda) : g.op \notin {"input", "input_fin"}
  BY NoInputs
<1>3. Stacked(agenda)'
  BY <1>1, <1>2, LightAbove
<1>4. InputReady'
  BY <1>1, <1>2, TopWaits DEF InputReady, Light
<1>5. Fatal => Fatal'
  BY <1>1, FatalStays
<1>6. \A t \in Slots : slot'[t].gen = slot[t].gen => DuesKept(t)
  BY <1>1, DuesStay
<1> QED BY <1>1, <1>3, <1>4, <1>5, <1>6

(* Calls that take the place of the running one.                           *)
LEMMA ThenSteady ==
    ASSUME IInv, IInv', Agreed, agenda /= <<>>, NEW c \in Seq(Frame),
           Then(c), Stacked(c), \A f \in Waiting(c) : Light(f),
           closed => closed', This.op /= "conn_fatal" \/ closed'
    PROVE  /\ Stacked(agenda)' /\ InputReady'
           /\ Fatal => Fatal'
           /\ \A t \in Slots : slot'[t].gen = slot[t].gen /\ Idler(This, t)
                => DuesKept(t)
           /\ Waiting(agenda)' = Waiting(c) \cup Waiting(Tail(agenda))
           /\ Waiting(agenda) = {This} \cup Waiting(Tail(agenda))
<1>1. /\ Waiting(agenda)' = Waiting(c) \cup Waiting(Tail(agenda))
      /\ Waiting(agenda) = {This} \cup Waiting(Tail(agenda))
      /\ \A g \in Waiting(Tail(agenda)) : Above(This, g)
      /\ (\A f \in Waiting(c), g \in Waiting(Tail(agenda)) : Above(f, g))
           => Stacked(agenda)'
  BY Popped
<1>2. \A g \in Waiting(Tail(agenda)) : g.op \notin {"input", "input_fin"}
  BY <1>1 DEF Above
<1>3. Stacked(agenda)'
  BY <1>1, <1>2, LightAbove
<1>4. InputReady'
  BY <1>1, <1>2, TopWaits DEF InputReady, Light
<1>5. Fatal => Fatal'
  <2>1. CASE closed'
    BY <2>1 DEF Fatal
  <2>2. CASE ~closed'
    BY <1>1, <2>2, FatalStays
  <2> QED BY <2>1, <2>2
<1>6. \A t \in Slots : slot'[t].gen = slot[t].gen /\ Idler(This, t)
        => DuesKept(t)
  BY <1>1, DuesStay
<1> QED BY <1>1, <1>3, <1>4, <1>5, <1>6

(* The stack may stay as it is.                                            *)
LEMMA StaysSteady ==
    ASSUME IInv, IInv', Agreed, Idle \/ At("app"), agenda' = agenda,
           closed => closed'
    PROVE  /\ Stacked(agenda)' /\ InputReady'
           /\ Fatal => Fatal'
           /\ \A t \in Slots : slot'[t].gen = slot[t].gen => DuesKept(t)
           /\ Waiting(agenda)' = Waiting(agenda)
<1>1. Waiting(agenda)' = Waiting(agenda)
  OBVIOUS
<1>2. InputReady'
  BY <1>1, NoInputs, TopWaits DEF InputReady
<1>3. Fatal => Fatal'
  BY <1>1, FatalStays
<1>4. \A t \in Slots : slot'[t].gen = slot[t].gen => DuesKept(t)
  BY <1>1, DuesStay
<1> QED BY <1>1, <1>2, <1>3, <1>4 DEF Agreed

(* The calls without a slot.                                               *)
LEMMA PlainCalls ==
    /\ App \in Frame /\ Call("conn_fatal") \in Frame
    /\ Call("session_closed") \in Frame
    /\ Light(App) /\ Light(Call("conn_fatal")) /\ Light(Call("session_closed"))
    /\ App.op = "app" /\ Call("conn_fatal").op = "conn_fatal"
    /\ Call("session_closed").op = "session_closed"
    /\ App.s = NoSlot /\ Call("conn_fatal").s = NoSlot
    /\ Call("session_closed").s = NoSlot
<1>1. /\ App \in Frame /\ Call("conn_fatal") \in Frame
      /\ Call("session_closed") \in Frame
  BY DEF App, Call, Frame, PlainOps
<1> QED BY <1>1, SlotAssumption DEF App, Call, Light, SendsFin

(* They rely on nothing.                                                   *)
LEMMA PlainOwes ==
    ASSUME NEW f, f.op \in {"app", "conn_fatal", "session_closed",
                            "input", "input_fin"}
    PROVE  Owes(f)'
  BY DEF Owes, OpenOwes, ForStream, StreamOwes, TornOwes, SlotOps

(* A call for the stream in a slot in use.                                 *)
LEMMA SlotCalls ==
    ASSUME IInv, NEW s \in Slots, slot[s].kind \in InUse,
           NEW x \in SUBSET (Slots \cup Halves \cup {"fin"}),
           NEW op \in {"torn", "settle", "settle_same", "release",
                       "send_done", "shutdown_done"},
           op = "send_done" => "fin" \notin x
    PROVE  /\ CallOn(op, s, x) \in Frame /\ Light(CallOn(op, s, x))
           /\ CallOn(op, s, x).op = op /\ CallOn(op, s, x).s = s
           /\ CallOn(op, s, x).g = slot[s].gen
           /\ CallOn(op, s, x).d = slot[s].ds /\ CallOn(op, s, x).x = x
<1>1. /\ CallOn(op, s, x).op = op /\ CallOn(op, s, x).s = s
      /\ CallOn(op, s, x).g = slot[s].gen
      /\ CallOn(op, s, x).d = slot[s].ds /\ CallOn(op, s, x).x = x
  BY DEF CallOn
<1>2. CallOn(op, s, x) \in Frame
  BY SlotFrames DEF IInv, TypeOK, SlotOps, Pushables
<1>3. Light(CallOn(op, s, x))
  BY <1>1 DEF Light, SendsFin
<1> QED BY <1>1, <1>2, <1>3

(* Short lists of calls.                                                   *)
LEMMA Lists ==
    /\ <<>> \in Seq(Frame)
    /\ \A a \in Frame : <<a>> \in Seq(Frame)
    /\ \A a, b \in Frame : <<a, b>> \in Seq(Frame)
    /\ \A a, b, c \in Frame : <<a, b, c>> \in Seq(Frame)
    /\ \A a, b, c, d \in Frame : <<a, b, c, d>> \in Seq(Frame)
  BY SMT

(* Calls without a slot wait above anything but an input.                  *)
LEMMA PlainAbove ==
    ASSUME NEW f, f.op \in {"app", "conn_fatal", "session_closed"},
           f.s \notin Slots, NEW g, g.op \notin {"input", "input_fin"}
    PROVE  Above(f, g)
  BY DEF Above

(* A list of calls in order, and its members.                              *)
LEMMA ListOfTwo ==
    ASSUME NEW a \in Frame, NEW b \in Frame, Above(a, b)
    PROVE  /\ <<a, b>> \in Seq(Frame) /\ Stacked(<<a, b>>)
           /\ Waiting(<<a, b>>) = {a, b}
  BY Lists, ShortStacks, WaitingLists

(* Three calls.                                                            *)
LEMMA ListOfThree ==
    ASSUME NEW a \in Frame, NEW b \in Frame, NEW c \in Frame,
           Above(a, b), Above(a, c), Above(b, c)
    PROVE  /\ <<a, b, c>> \in Seq(Frame) /\ Stacked(<<a, b, c>>)
           /\ Waiting(<<a, b, c>>) = {a, b, c}
<1>1. <<a, b, c>> \in Seq(Frame)
  BY Lists
<1>2. Stacked(<<a, b, c>>)
  BY ShortStacks, Zenon
<1>3. Waiting(<<a, b, c>>) = {a, b, c}
  BY WaitingLists
<1> QED BY <1>1, <1>2, <1>3

(* Four calls.                                                             *)
LEMMA ListOfFour ==
    ASSUME NEW a \in Frame, NEW b \in Frame, NEW c \in Frame, NEW d \in Frame,
           Above(a, b), Above(a, c), Above(a, d),
           Above(b, c), Above(b, d), Above(c, d)
    PROVE  /\ <<a, b, c, d>> \in Seq(Frame) /\ Stacked(<<a, b, c, d>>)
           /\ Waiting(<<a, b, c, d>>) = {a, b, c, d}
<1>1. <<a, b, c, d>> \in Seq(Frame)
  BY SMT
<1>2. Stacked(<<a, b, c, d>>)
  BY ShortStacks, Zenon
<1>3. Waiting(<<a, b, c, d>>) = {a, b, c, d}
  BY WaitingLists
<1> QED BY <1>1, <1>2, <1>3

-----------------------------------------------------------------------------
(* The steps that touch no stream.                                         *)

(* A running call that is about no slot does nothing for any stream.       *)
LEMMA PlainIdles ==
    ASSUME This \in Frame, This.op \in (StreamOps \cup PlainOps) \ {"teardown"},
           NEW t \in Slots
    PROVE  Idler(This, t)
<1>1. This.s = NoSlot
  BY DEF Frame, SlotOps, StreamOps, PlainOps
<1> QED BY <1>1, SlotAssumption DEF Idler, PlainOps

(* A call that ends without having done anything.                          *)
LEMMA EndsQuietly ==
    ASSUME IInv, IInv', Agreed, agenda /= <<>>, Then(<<>>),
           This.op /= "conn_fatal" \/ closed',
           closed => closed', sess' = sess, UNCHANGED <<slot, ectx, wire, heard>>,
           \A t \in Slots : Idler(This, t)
    PROVE  Agreed'
<1>1. /\ <<>> \in Seq(Frame) /\ Stacked(<<>>) /\ Waiting(<<>>) = {}
  BY Lists, ShortStacks, WaitingLists
<1>2. /\ Stacked(agenda)' /\ InputReady' /\ (Fatal => Fatal')
      /\ \A t \in Slots : DuesKept(t)
      /\ Waiting(agenda)' \subseteq Waiting(agenda)
  BY <1>1, ThenSteady
<1>3. Steady
  BY <1>2 DEF Steady, wire
<1> QED BY <1>2, <1>3, NoneChanged

(* A call without a slot is pushed.                                        *)
LEMMA EntersQuietly ==
    ASSUME IInv, IInv', Agreed, Idle \/ At("app"),
           NEW c \in {App, Call("conn_fatal"), Call("session_closed")},
           Enter(<<c>>), UNCHANGED <<connVars, slot, ectx, wire, heard>>
    PROVE  Agreed'
<1>1. /\ c \in Frame /\ Light(c)
      /\ c.op \in {"app", "conn_fatal", "session_closed"}
  BY PlainCalls
<1>2. /\ <<c>> \in Seq(Frame) /\ Stacked(<<c>>) /\ Waiting(<<c>>) = {c}
  BY <1>1, Lists, ShortStacks, WaitingLists
<1>3. /\ Stacked(agenda)' /\ InputReady' /\ (Fatal => Fatal')
      /\ \A t \in Slots : DuesKept(t)
      /\ Waiting(agenda)' = {c} \cup Waiting(agenda)
  BY <1>1, <1>2, EnterSteady DEF connVars
<1>4. Steady
  BY <1>3 DEF Steady, wire, connVars
<1>5. Owes(c)'
  BY <1>1, PlainOwes
<1> QED BY <1>3, <1>4, <1>5, NoneChanged

(* The application returns from a callback.                                *)
LEMMA AppReturnsAgrees ==
    ASSUME IInv, IInv', Agreed, AppReturns PROVE Agreed'
<1>1. /\ agenda /= <<>> /\ This.op = "app" /\ Then(<<>>)
      /\ UNCHANGED <<connVars, slot, ectx, wire, heard>>
  BY DEF AppReturns, At, This
<1>2. This \in Frame
  BY <1>1, TopFrame DEF IInv, TypeOK
<1>3. \A t \in Slots : Idler(This, t)
  BY <1>1, <1>2, PlainIdles DEF PlainOps
<1> QED BY <1>1, <1>3, EndsQuietly DEF connVars

(* The session's CONNECT is answered.                                      *)
LEMMA EstablishAgrees ==
    ASSUME IInv, IInv', Agreed, Establish PROVE Agreed'
<1>1. /\ Idle /\ ~closed /\ sess = "none" /\ sess' = "active"
      /\ UNCHANGED <<closed, slot, ectx, dgen, wire, agenda, heard>>
  BY DEF Establish
<1>2. Waiting(agenda) = {} /\ Waiting(agenda)' = {}
  BY <1>1, WaitingLists DEF Idle
<1>3. Stacked(agenda)' /\ InputReady'
  BY <1>1, StaysSteady
<1>4. PoolBound'
  BY <1>1 DEF Agreed, PoolBound, wire
<1>5. \A s \in Slots : SlotOK(s)'
  <2> SUFFICES ASSUME NEW s \in Slots PROVE SlotOK(s)'
    OBVIOUS
  <2>1. SlotOK(s)
    BY DEF Agreed
  <2>2. ASSUME slot[s].kind = "WT" PROVE Lives(s)'
    <3>1. Lives(s)
      BY <2>1, <2>2 DEF SlotOK
    <3>2. SendSide(s)'
      BY <1>1, <1>2, <3>1 DEF Lives, SendSide, wire, Fatal, FinSent, Ends, TornDue
    <3>3. RecvSide(s)'
      BY <1>1, <1>2, <3>1 DEF Lives, RecvSide, wire, Fatal, FinDue, Ends, TornDue
    <3>4. Told(s)'
      BY <1>1, <1>2, <3>1 DEF Lives, Told, wire, LiveHalves
    <3> QED BY <1>1, <1>2, <3>1, <3>2, <3>3, <3>4 DEF Lives, SettleDue
  <2>3. ASSUME slot[s].kind = "TYPE" PROVE Starts(s)'
    BY <1>1, <2>1, <2>3 DEF SlotOK, Starts, wire
  <2> QED BY <1>1, <2>1, <2>2, <2>3 DEF SlotOK
<1>6. \A d \in DStreams : ObjectOK(d)'
  BY <1>1, ObjectStays DEF Agreed, wire
<1> QED BY <1>2, <1>3, <1>4, <1>5, <1>6 DEF Agreed

(* The transport is lost.                                                  *)
LEMMA OnConnLostAgrees ==
    ASSUME IInv, IInv', Agreed, OnConnLost PROVE Agreed'
  BY EntersQuietly DEF OnConnLost

(* The session starts to end.                                              *)
LEMMA SessionEndsAgrees ==
    ASSUME IInv, IInv', Agreed, SessionEnds PROVE Agreed'
  BY EntersQuietly DEF SessionEnds, AppMay

(* The connection fails: nothing is claimed of a lost connection.          *)
LEMMA ConnFatalAgrees ==
    ASSUME IInv, IInv', Agreed, ConnFatal PROVE Agreed'
<1>1. /\ agenda /= <<>> /\ This.op = "conn_fatal" /\ closed' = TRUE
      /\ sess' = sess /\ UNCHANGED <<slot, ectx, wire, heard>>
      /\ Then(IF closed THEN <<>> ELSE <<Call("session_closed")>>)
  BY DEF ConnFatal, At, This
<1>2. This \in Frame
  BY <1>1, TopFrame DEF IInv, TypeOK
<1>3. \A t \in Slots : Idler(This, t)
  BY <1>1, <1>2, PlainIdles DEF PlainOps
<1>4. CASE closed
  BY <1>1, <1>3, <1>4, EndsQuietly
<1>5. CASE ~closed
  <2> DEFINE c == Call("session_closed")
  <2>1. /\ c \in Frame /\ Light(c) /\ c.op = "session_closed"
    BY PlainCalls
  <2>2. Then(<<c>>)
    BY <1>1, <1>5
  <2> HIDE DEF c
  <2>3. /\ <<c>> \in Seq(Frame) /\ Stacked(<<c>>) /\ Waiting(<<c>>) = {c}
    BY <2>1, Lists, ShortStacks, WaitingLists
  <2>4. /\ Stacked(agenda)' /\ InputReady' /\ (Fatal => Fatal')
        /\ \A t \in Slots : DuesKept(t)
        /\ Waiting(agenda)' \subseteq {c} \cup Waiting(agenda)
    BY <1>1, <1>3, <2>1, <2>2, <2>3, ThenSteady
  <2>5. Steady
    BY <1>1, <2>4 DEF Steady, wire
  <2>6. Owes(c)'
    BY <2>1, PlainOwes
  <2> QED BY <1>1, <2>4, <2>5, <2>6, NoneChanged
<1> QED BY <1>4, <1>5

(* The backend reports a stream's end.                                     *)
LEMMA ReportTerminalAgrees ==
    ASSUME IInv, IInv', Agreed, NEW d \in DStreams, ReportTerminal(d)
    PROVE  Agreed'
<1> DEFINE c == CallFor("terminal", d)
<1>1. /\ Idle /\ gone[d] /\ Enter(<<c>>)
      /\ UNCHANGED <<connVars, slot, ectx, dgen, wire, heard>>
  BY DEF ReportTerminal
<1>2. /\ c \in Frame /\ c.op = "terminal" /\ c.s = NoSlot /\ c.d = d
  BY DEF CallFor, Frame, StreamOps
<1> HIDE DEF c
<1>3. /\ <<c>> \in Seq(Frame) /\ Stacked(<<c>>) /\ Waiting(<<c>>) = {c}
  BY <1>2, Lists, ShortStacks, WaitingLists
<1>4. Light(c)
  BY <1>2, SlotAssumption DEF Light, SendsFin
<1>5. /\ Stacked(agenda)' /\ InputReady' /\ (Fatal => Fatal')
      /\ \A t \in Slots : DuesKept(t)
      /\ Waiting(agenda)' = {c} \cup Waiting(agenda)
  BY <1>1, <1>3, <1>4, EnterSteady DEF connVars
<1>6. Steady
  BY <1>1, <1>5 DEF Steady, wire, connVars
<1>7. Owes(c)'
  BY <1>1, <1>2 DEF Owes, OpenOwes, ForStream, StreamOwes, TornOwes, SlotOps, wire
<1> QED BY <1>1, <1>5, <1>6, <1>7, NoneChanged

(* Stream data or a FIN comes in.                                          *)
LEMMA OnStreamBytesAgrees ==
    ASSUME IInv, IInv', Agreed, NEW d \in DStreams, OnStreamBytes(d)
    PROVE  Agreed'
<1>1. /\ Idle /\ Receiving(d)
      /\ UNCHANGED <<connVars, slot, ectx, dgen, wire, heard>>
  BY DEF OnStreamBytes
<1>2. PICK op \in {"input", "input_fin"} : Enter(<<CallFor(op, d)>>)
  BY DEF OnStreamBytes
<1> DEFINE c == CallFor(op, d)
<1>3. /\ c \in Frame /\ c.op = op /\ c.s = NoSlot /\ c.d = d
  BY DEF CallFor, Frame, StreamOps
<1>4. Enter(<<c>>)
  BY <1>2
<1> HIDE DEF c
<1>5. agenda' = <<c>>
  BY <1>1, <1>4 DEF Enter, Idle
<1>6. Stacked(agenda)' /\ Waiting(agenda)' = {c} /\ Waiting(agenda) = {}
  BY <1>1, <1>5, ShortStacks, WaitingLists DEF Idle
<1>7. /\ (Fatal => Fatal') /\ \A t \in Slots : DuesKept(t)
  BY <1>1, <1>6, FatalStays, DuesStay DEF connVars
<1>8. Steady
  BY <1>1, <1>7 DEF Steady, wire, connVars
<1>9. Owes(c)'
  BY <1>3, PlainOwes
<1>10. InputReady'
  <2>1. Head(agenda') = c /\ Len(agenda') = 1
    BY <1>5
  <2>2. This' = c
    BY <2>1 DEF This
  <2> QED BY <1>1, <1>3, <2>1, <2>2 DEF InputReady, Receiving, wire
<1> QED BY <1>1, <1>6, <1>7, <1>8, <1>9, <1>10, NoneChanged

-----------------------------------------------------------------------------
(* The session's end.                                                      *)

(* Every call on the stack is a frame, and owes what it owes.              *)
LEMMA Waiters ==
    ASSUME IInv, Agreed, NEW f \in Waiting(agenda)
    PROVE  f \in Frame /\ Owes(f)
<1>1. agenda \in Seq(Frame)
  BY DEF IInv, TypeOK
<1> QED BY <1>1, WaitingPlaces DEF Agreed

(* In the shared pool an open is never below another call.                 *)
LEMMA OpenOnTop ==
    ASSUME IInv, Agreed, ~Budgeted, agenda /= <<>>,
           NEW f \in Waiting(Tail(agenda))
    PROVE  f.op /= "wt_open"
<1>1. agenda \in Seq(Frame)
  BY DEF IInv, TypeOK
<1>2. PICK i \in 1..Len(Tail(agenda)) : f = Tail(agenda)[i]
  BY WaitingPlaces
<1>3. i + 1 \in 2..Len(agenda) /\ f = agenda[i + 1]
  BY <1>1, <1>2, TailFacts
<1> QED BY <1>3 DEF IInv, OpensDistinct

(* Nothing waits for a slot's first opening once it is in use.             *)
LEMMA NoOpenInUse ==
    ASSUME IInv, NEW f \in Waiting(agenda), f.s \in Slots,
           slot[f.s].kind \in InUse
    PROVE  f.op /= "wt_open"
<1>1. PICK i \in 1..Len(agenda) : f = agenda[i]
  BY WaitingPlaces
<1> QED BY <1>1 DEF IInv, OpensReserved, InUse, Freeish

(* The session is over: every stream's teardown is due.                    *)
LEMMA SessionClosedAgrees ==
    ASSUME IInv, IInv', Agreed, SessionClosed PROVE Agreed'
<1>1. /\ agenda /= <<>> /\ This.op = "session_closed"
      /\ UNCHANGED <<closed, slot, gens, ectx, dgen, wire, heard>>
  BY DEF SessionClosed, At, This
<1>2. This \in Frame
  BY <1>1, TopFrame DEF IInv, TypeOK
<1>3. \A t \in Slots : Idler(This, t)
  BY <1>1, <1>2, PlainIdles DEF PlainOps
<1>4. CASE sess /= "active"
  <2>1. Then(<<>>) /\ sess' = sess
    BY <1>4 DEF SessionClosed
  <2> QED BY <1>1, <1>3, <2>1, EndsQuietly
<1>5. CASE sess = "active"
  <2> DEFINE c == [Call("teardown") EXCEPT !.x = Slots]
  <2>1. sess' = "ended" /\ Then(<<c>>)
    BY <1>5 DEF SessionClosed
  <2>2. c.op = "teardown" /\ c.s = NoSlot /\ c.x = Slots
    BY DEF Call
  <2>3. c \in Frame
    BY PlainFrames DEF Pushables
  <2> HIDE DEF c
  <2>4. /\ <<c>> \in Seq(Frame) /\ Stacked(<<c>>) /\ Waiting(<<c>>) = {c}
    BY <2>3, Lists, ShortStacks, WaitingLists
  <2>5. /\ Waiting(agenda)' = {c} \cup Waiting(Tail(agenda))
        /\ Waiting(agenda) = {This} \cup Waiting(Tail(agenda))
        /\ \A g \in Waiting(Tail(agenda)) : Above(This, g)
        /\ (\A g \in Waiting(Tail(agenda)) : Above(c, g)) => Stacked(agenda)'
    BY <1>1, <2>1, <2>4, Popped
  <2>6. ASSUME NEW g \in Waiting(Tail(agenda)) PROVE Above(c, g)
    <3>1. g.op \notin {"teardown", "torn"}
      BY <1>5, <2>5, Waiters DEF Owes, TornOwes
    <3> QED BY <2>2, <2>5, <3>1, SlotAssumption DEF Above
  <2>7. Stacked(agenda)'
    BY <2>5, <2>6
  <2>8. InputReady'
    BY <2>2, <2>5, TopWaits DEF InputReady, Above
  <2>9. Fatal => Fatal'
    BY <1>1, <2>5, FatalStays
  <2>10. ASSUME NEW t \in Slots PROVE DuesKept(t)
    BY <1>1, <1>3, <2>5, DuesStay
  <2>11. ASSUME NEW t \in Slots PROVE TeardownDue(t)'
    BY <2>2, <2>5 DEF TeardownDue
  <2>12. ASSUME NEW t \in Slots PROVE SlotOK(t)'
    <3>1. SlotOK(t) /\ DuesKept(t)
      BY <2>10 DEF Agreed
    <3>2. ASSUME slot[t].kind = "WT" PROVE Lives(t)'
      <4>1. Lives(t)
        BY <3>1, <3>2 DEF SlotOK
      <4>2. SendSide(t)'
        BY <1>1, <2>9, <3>1, <3>2, <4>1 DEF Lives, SendSide, DuesKept, Halves, wire
      <4>3. RecvSide(t)'
        BY <1>1, <2>9, <3>1, <3>2, <4>1 DEF Lives, RecvSide, DuesKept, Halves, wire
      <4>4. Told(t)'
        BY <1>1, <4>1 DEF Lives, Told, LiveHalves, wire
      <4> QED BY <1>1, <2>11, <3>1, <3>2, <4>1, <4>2, <4>3, <4>4
              DEF Lives, DuesKept
    <3>3. ASSUME slot[t].kind = "TYPE" PROVE Starts(t)'
      BY <1>1, <2>1, <3>1, <3>3 DEF SlotOK, Starts, wire
    <3> QED BY <1>1, <2>1, <3>1, <3>2, <3>3 DEF SlotOK
  <2>13. ASSUME NEW f \in Waiting(agenda)' PROVE Owes(f)'
    <3>1. CASE f = c
      BY <2>1, <2>2, <3>1
         DEF Owes, OpenOwes, ForStream, StreamOwes, TornOwes, SlotOps
    <3>2. CASE f \in Waiting(Tail(agenda))
      <4>1. f \in Frame /\ Owes(f)
        BY <2>5, <3>2, Waiters
      <4>2. f.op \in SlotOps => f.s \in Slots
        BY <4>1 DEF Frame, SlotOps, StreamOps, PlainOps
      <4>3. OpenOwes(f)'
        <5>1. ~Budgeted => f.op /= "wt_open"
          BY <1>1, <3>2, OpenOnTop
        <5> QED BY <1>1, <2>1, <4>1, <5>1 DEF Owes, OpenOwes, Own
      <4>4. ForStream(f)'
        BY <1>1, <4>1 DEF Owes, ForStream, Own
      <4>5. StreamOwes(f)'
        <5>1. (f.s \in Slots /\ slot[f.s].kind = "WT")
               => /\ FinDue(f.s) => FinDue(f.s)'
                  /\ ReleaseDue(f.s) => ReleaseDue(f.s)'
          BY <2>10 DEF DuesKept
        <5> QED BY <1>1, <2>9, <4>1, <4>2, <5>1
                DEF Owes, StreamOwes, Own, wire
      <4>6. TornOwes(f)'
        BY <1>1, <2>1, <2>9, <4>1 DEF Owes, TornOwes, wire
      <4> QED BY <1>1, <4>1, <4>3, <4>4, <4>5, <4>6 DEF Owes, wire
    <3> QED BY <2>5, <3>1, <3>2
  <2>14. \A d \in DStreams : ObjectOK(d)'
    BY <1>1, ObjectStays DEF Agreed, wire
  <2>15. PoolBound'
    BY <1>1 DEF Agreed, PoolBound, wire
  <2> QED BY <2>7, <2>8, <2>12, <2>13, <2>14, <2>15 DEF Agreed
<1> QED BY <1>4, <1>5

(* What a shutdown of live halves leaves of the transport's stream.        *)
LEMMA ShutWire ==
    ASSUME IInv, Agreed, ~closed, NEW s \in Slots, slot[s].kind = "WT",
           NEW h, h \subseteq LiveHalves(slot[s]),
           NEW d, d = slot[s].ds, WireShut(d, h), UNCHANGED <<slot, ectx, sess>>
    PROVE  /\ d \in DStreams /\ ectx[d] = s
           /\ \A c \in DStreams \ {d} :
                /\ tx'[c] = tx[c] /\ rx'[c] = rx[c]
                /\ gone'[c] = gone[c] /\ held'[c] = held[c]
           /\ gone'[d] = gone[d]
           /\ tx'[d] = IF "send" \in h THEN "ended" ELSE tx[d]
           /\ rx'[d] = IF "recv" \in h /\ rx[d] = "open" THEN "stopped"
                                                        ELSE rx[d]
           /\ held'[d] => held[d] /\ "recv" \notin h
           /\ "recv" \in h => ~held'[d]
           /\ ObjectOK(d)' /\ PoolBound'
<1>1. d \in DStreams /\ ectx[d] = s
  BY DEF IInv, LinkIntegrity, InUse
<1>2. \A c \in DStreams \ {d} :
        /\ tx'[c] = tx[c] /\ rx'[c] = rx[c]
        /\ gone'[c] = gone[c] /\ held'[c] = held[c]
  BY <1>1 DEF WireShut, IInv, TypeOK
<1>3. /\ gone'[d] = gone[d]
      /\ tx'[d] = IF "send" \in h THEN "ended" ELSE tx[d]
      /\ rx'[d] = IF "recv" \in h /\ rx[d] = "open" THEN "stopped" ELSE rx[d]
      /\ held'[d] => held[d] /\ "recv" \notin h
      /\ "recv" \in h => ~held'[d]
  BY <1>1 DEF WireShut, IInv, TypeOK
<1>4. ObjectOK(d)'
  <2>1. ObjectOK(d)
    BY <1>1 DEF Agreed
  <2>2. held'[d] => held[d] /\ rx'[d] = rx[d]
    BY <1>3
  <2> QED BY <1>3, <2>1, <2>2 DEF ObjectOK
<1>5. PoolBound'
  <2>1. \A c \in DStreams : tx'[c] /= "none" => tx[c] /= "none" \/ c = d
    BY <1>2
  <2>2. Budgeted => slot[s].resident
    BY DEF Agreed, SlotOK, InUse
  <2> QED BY <2>1, <2>2 DEF Agreed, PoolBound
<1> QED BY <1>1, <1>2, <1>3, <1>4, <1>5

(* It keeps what waiting calls rely on.                                    *)
LEMMA ShutOwes ==
    ASSUME IInv, Agreed, ~closed, Steady, NEW s \in Slots, slot[s].kind = "WT",
           NEW h, h \subseteq LiveHalves(slot[s]),
           NEW d, d = slot[s].ds, WireShut(d, h), UNCHANGED <<slot, ectx, sess>>,
           FinDue(s) => FinDue(s)', ReleaseDue(s) => ReleaseDue(s)',
           NEW f \in Waiting(agenda), f.s = s
    PROVE  Owes(f)'
<1>1. /\ gone'[d] = gone[d]
      /\ tx'[d] = IF "send" \in h THEN "ended" ELSE tx[d]
      /\ rx'[d] = IF "recv" \in h /\ rx[d] = "open" THEN "stopped" ELSE rx[d]
      /\ held'[d] => held[d]
  BY ShutWire
<1>2. f \in Frame /\ Owes(f) /\ f.op /= "wt_open"
  BY Waiters, NoOpenInUse DEF InUse
<1>3. OpenOwes(f)' /\ ForStream(f)'
  BY <1>2 DEF Owes, OpenOwes, ForStream, Own
<1>4. StreamOwes(f)'
  BY <1>1, <1>2 DEF Owes, StreamOwes, Own, Steady
<1>5. TornOwes(f)'
  BY <1>1, <1>2 DEF Owes, TornOwes, Steady
<1>6. f.op /= "terminal"
  BY <1>2, SlotAssumption DEF Frame, StreamOps, SlotOps, PlainOps
<1> QED BY <1>3, <1>4, <1>5, <1>6 DEF Owes

-----------------------------------------------------------------------------
(* One slot is settled, released or rewritten.                             *)

(* No two slots in use have the same stream object.                        *)
LEMMA Alone ==
    ASSUME IInv, NEW s \in Slots, slot[s].kind \in InUse
    PROVE  /\ slot[s].ds \in DStreams /\ ectx[slot[s].ds] = s
           /\ \A t \in Slots \ {s} :
                slot[t].kind \in InUse => slot[t].ds /= slot[s].ds
  BY DEF IInv, LinkIntegrity

(* The running call, about slot s, ends.                                   *)
LEMMA SlotCallEnds ==
    ASSUME IInv, IInv', Agreed, agenda /= <<>>, This.op \in SlotOps,
           NEW s, This.s = s, Then(<<>>), closed' = closed
    PROVE  /\ s \in Slots /\ This \in Frame /\ Owes(This)
           /\ Stacked(agenda)' /\ InputReady'
           /\ Fatal => Fatal'
           /\ \A t \in Slots \ {s} : slot'[t].gen = slot[t].gen => DuesKept(t)
           /\ Waiting(agenda)' = Waiting(Tail(agenda))
           /\ Waiting(agenda) = {This} \cup Waiting(agenda)'
           /\ \A g \in Waiting(agenda)' : Above(This, g)
<1>1. /\ <<>> \in Seq(Frame) /\ Stacked(<<>>) /\ Waiting(<<>>) = {}
  BY Lists, ShortStacks, WaitingLists
<1>2. /\ Waiting(agenda)' = Waiting(Tail(agenda))
      /\ Waiting(agenda) = {This} \cup Waiting(Tail(agenda))
      /\ \A g \in Waiting(Tail(agenda)) : Above(This, g)
      /\ This \in Frame
  BY <1>1, Popped
<1>3. This \in Frame /\ Owes(This) /\ s \in Slots
  BY <1>2, Waiters, TopFrame DEF IInv, TypeOK
<1>4. This.op \notin {"conn_fatal", "teardown"}
  BY DEF SlotOps
<1>5. ASSUME NEW t \in Slots \ {s} PROVE Idler(This, t)
  BY <1>4 DEF Idler
<1>6. /\ Stacked(agenda)' /\ InputReady'
      /\ Fatal => Fatal'
      /\ \A t \in Slots \ {s} : slot'[t].gen = slot[t].gen => DuesKept(t)
  BY <1>1, <1>4, <1>5, ThenSteady
<1> QED BY <1>2, <1>3, <1>6

(* A slot that nobody uses is written to, or its release runs twice.       *)
LEMMA FreeTouched ==
    ASSUME IInv, Agreed, Steady, NEW s \in Slots, slot[s].kind \notin InUse,
           slot'[s].kind \notin InUse, slot'[s].ds = slot[s].ds,
           slot'[s].gen = slot[s].gen, slot'[s].resident = slot[s].resident,
           Blank(slot[s]) => Blank(slot'[s]),
           \A t \in Slots \ {s} : slot'[t] = slot[t],
           UNCHANGED <<ectx, wire, heard>>,
           \A t \in Slots \ {s} : DuesKept(t),
           Stacked(agenda)', InputReady',
           Waiting(agenda)' \subseteq Waiting(agenda)
    PROVE  Agreed'
<1>1. NoDs \in DStreams \cup {NoDs}
  OBVIOUS
<1>2. Elsewhere(s, NoDs)
  BY SlotAssumption DEF Elsewhere, IInv, LinkIntegrity, wire
<1>3. PoolBound'
  <2>1. \A t \in Slots : /\ slot'[t].ds = slot[t].ds
                         /\ slot'[t].resident = slot[t].resident
    OBVIOUS
  <2> QED BY <2>1 DEF Agreed, PoolBound, wire
<1>4. SlotOK(s)'
  BY DEF Agreed, SlotOK, Steady, InUse
<1>5. ASSUME NEW f \in Waiting(agenda), f.s = s PROVE Owes(f)'
  <2>1. f \in Frame /\ Owes(f)
    BY Waiters
  <2>2. OpenOwes(f)'
    BY <1>5, <2>1 DEF Owes, OpenOwes, Own, Steady
  <2>3. ForStream(f)' /\ StreamOwes(f)' /\ TornOwes(f)'
    BY <1>5, <2>1 DEF Owes, ForStream, StreamOwes, TornOwes, Steady, InUse
  <2>4. f.op /= "terminal"
    BY <1>5, <2>1, SlotAssumption DEF Frame, StreamOps, SlotOps, PlainOps
  <2> QED BY <2>2, <2>3, <2>4 DEF Owes
<1> QED BY <1>1, <1>2, <1>3, <1>4, <1>5, SlotAssumption, OneTouched

(* What a step does to stream object d when it touches no other.           *)
OnlyObject(d) ==
    \A c \in DStreams \ {d} : /\ tx'[c] = tx[c] /\ rx'[c] = rx[c]
                              /\ gone'[c] = gone[c] /\ held'[c] = held[c]

(* A slot in use is released.                                              *)
LEMMA Freed ==
    ASSUME IInv, IInv', Agreed, Steady, NEW s \in Slots, slot[s].kind \in InUse,
           NEW e \in Estream, SameUse(e, slot[s]), ReleaseAs(s, e),
           NEW d, d = slot[s].ds, OnlyObject(d), heard' = heard,
           tx'[d] = tx[d], gone'[d] = gone[d], held'[d] = held[d],
           rx'[d] = rx[d] \/ (rx'[d] = "ended" /\ ~held[d]),
           \A t \in Slots \ {s} : DuesKept(t),
           Stacked(agenda)', InputReady',
           \A f \in Waiting(agenda)' : f \in Waiting(agenda) \/ Owes(f)'
    PROVE  Agreed'
<1>1. /\ d \in DStreams /\ ectx[d] = s
      /\ \A t \in Slots \ {s} : slot[t].kind \in InUse => slot[t].ds /= d
  BY Alone
<1>2. /\ slot'[s].kind = "FREE" /\ slot'[s].ds = slot[s].ds
      /\ slot'[s].gen = slot[s].gen /\ slot'[s].resident = slot[s].resident
      /\ \A t \in Slots \ {s} : slot'[t] = slot[t]
  <2> DEFINE f == [e EXCEPT !.kind = "FREE"]
  <2>1. /\ f.kind = "FREE" /\ f.ds = e.ds /\ f.gen = e.gen
        /\ f.resident = e.resident
    BY DEF Estream
  <2>2. slot' = [slot EXCEPT ![s] = f]
    BY DEF ReleaseAs
  <2> HIDE DEF f
  <2> QED BY <2>1, <2>2 DEF SameUse, IInv, TypeOK
<1>3. ectx'[d] = NoSlot /\ \A c \in DStreams \ {d} : ectx'[c] = ectx[c]
  <2>1. e.ds = d /\ e.ds /= NoDs
    BY <1>1, SlotAssumption DEF SameUse
  <2> QED BY <1>1, <2>1 DEF ReleaseAs, Unlink, IInv, TypeOK
<1>4. Elsewhere(s, d)
  BY <1>1, <1>2, <1>3 DEF Elsewhere, OnlyObject
<1>5. PoolBound'
  <2>1. \A t \in Slots : /\ slot'[t].ds = slot[t].ds
                         /\ slot'[t].resident = slot[t].resident
    BY <1>2
  <2>2. \A c \in DStreams : tx'[c] = tx[c]
    BY DEF OnlyObject
  <2> QED BY <2>1, <2>2 DEF Agreed, PoolBound
<1>6. SlotOK(s)'
  BY <1>2 DEF Agreed, SlotOK, Steady, InUse
<1>7. ObjectOK(d)'
  <2>1. ObjectOK(d)
    BY <1>1 DEF Agreed
  <2> QED BY <1>1, <1>3, <2>1 DEF ObjectOK, Steady
<1>8. ASSUME NEW f \in Waiting(agenda), f.s = s PROVE Owes(f)'
  <2>1. f \in Frame /\ Owes(f) /\ f.op /= "wt_open"
    BY <1>8, Waiters, NoOpenInUse
  <2>2. f.op /= "terminal"
    BY <1>8, <2>1, SlotAssumption DEF Frame, StreamOps, SlotOps, PlainOps
  <2> QED BY <1>2, <1>8, <2>1, <2>2
          DEF Owes, OpenOwes, ForStream, StreamOwes, TornOwes, Steady
<1> QED BY <1>1, <1>4, <1>5, <1>6, <1>7, <1>8, OneTouched

(* A stream's halves are written: what waiting calls rely on stays true    *)
(* when halves only end.                                                   *)
LEMMA EndingOwes ==
    ASSUME IInv, Agreed, Steady, NEW s \in Slots, slot[s].kind = "WT",
           SameUse(slot'[s], slot[s]), slot'[s].commit = slot[s].commit,
           slot'[s].local = slot[s].local, slot'[s].bidi = slot[s].bidi,
           slot'[s].send => slot[s].send, slot'[s].recv => slot[s].recv,
           NEW d, d = slot[s].ds, tx'[d] = tx[d] \/ tx'[d] = "ended",
           rx'[d] = rx[d], held'[d] => held[d],
           \/ FinDue(s) => FinDue(s)'
           \/ \A f \in Waiting(agenda)' : ~(Shuts(f, "recv") /\ Own(f, s)),
           ReleaseDue(s) => ReleaseDue(s)',
           (slot[s].commit /\ slot[s].send /\ ~slot'[s].send)
             => ~FinSent(s)' \/ ReleaseDue(s)',
           NEW f \in Waiting(agenda), f \in Waiting(agenda)', f.s = s
    PROVE  Owes(f)'
<1>1. f \in Frame /\ Owes(f) /\ f.op /= "wt_open"
  BY Waiters, NoOpenInUse DEF InUse
<1>2. f.op /= "terminal"
  BY <1>1, SlotAssumption DEF Frame, StreamOps, SlotOps, PlainOps
<1>3. slot'[s].kind = "WT" /\ slot'[s].ds = d /\ slot'[s].gen = slot[s].gen
  BY DEF SameUse
<1>4. OpenOwes(f)' /\ ForStream(f)'
  BY <1>1, <1>3 DEF Owes, OpenOwes, ForStream, Own
<1>5. StreamOwes(f)'
  <2> SUFFICES ASSUME f.op \in SlotOps, Own(f, s)
               PROVE  StreamOwes(f)'
    BY <1>3 DEF StreamOwes, Own
  <2>1. SendsFin(f) => FinSent(s)'
    BY <1>3 DEF FinSent, Own
  <2>2. SendsFin(f) => /\ tx'[d] \in {"fin", "ended"}
                       /\ (slot'[s].commit /\ ~ReleaseDue(s)') => slot'[s].send
    BY <1>1, <2>1 DEF Owes, StreamOwes
  <2>3. Shuts(f, "send") => tx'[d] = "ended"
    BY <1>1 DEF Owes, StreamOwes
  <2>4. Shuts(f, "recv") =>
             /\ ~slot'[s].local \/ slot'[s].bidi
             /\ rx'[d] /= "open" /\ ~held'[d]
             /\ ~Fatal' => \/ rx'[d] = "stopped"
                           \/ rx'[d] = "ended" /\ FinDue(s)'
    BY <1>1 DEF Owes, StreamOwes, Steady
  <2>5. f.op = "fin_delivered" => rx'[d] = "ended"
    BY <1>1 DEF Owes, StreamOwes
  <2>6. f.op = "release" => ~slot'[s].send
    BY <1>1 DEF Owes, StreamOwes
  <2> QED BY <1>3, <2>2, <2>3, <2>4, <2>5, <2>6 DEF StreamOwes
<1>6. TornOwes(f)'
  <2>1. gone[d] => gone'[d]
    BY Alone DEF InUse, Steady
  <2> QED BY <1>1, <1>3, <2>1 DEF Owes, TornOwes, Steady
<1> QED BY <1>2, <1>4, <1>5, <1>6 DEF Owes

(* What remains to be shown when a stream's halves are written.            *)
LEMMA Rewritten ==
    ASSUME IInv, Agreed, Steady, NEW s \in Slots, slot[s].kind \in InUse,
           NEW e \in Estream, SameUse(e, slot[s]),
           slot' = [slot EXCEPT ![s] = e], ectx' = ectx,
           NEW d, d = slot[s].ds, OnlyObject(d),
           \A t \in Slots \ {s} : heard'[t] = heard[t],
           tx'[d] /= "none" => tx[d] /= "none" \/ slot[s].kind = "WT",
           ObjectOK(d)', SlotOK(s)',
           \A t \in Slots \ {s} : DuesKept(t),
           Stacked(agenda)', InputReady',
           \A f \in Waiting(agenda)' :
             \/ f \in Waiting(agenda) /\ f.s /= s
             \/ Owes(f)'
    PROVE  Agreed'
<1>1. /\ d \in DStreams /\ ectx[d] = s
      /\ \A t \in Slots \ {s} : slot[t].kind \in InUse => slot[t].ds /= d
  BY Alone
<1>2. /\ slot'[s] = e /\ \A t \in Slots \ {s} : slot'[t] = slot[t]
  BY DEF IInv, TypeOK
<1>3. Elsewhere(s, d)
  BY <1>1, <1>2 DEF Elsewhere, OnlyObject
<1>4. PoolBound'
  <2>1. \A t \in Slots : /\ slot'[t].ds = slot[t].ds
                         /\ slot'[t].resident = slot[t].resident
    BY <1>2 DEF SameUse
  <2>2. \A c \in DStreams \ {d} : tx'[c] = tx[c]
    BY DEF OnlyObject
  <2>3. Budgeted => slot[s].resident
    BY DEF Agreed, SlotOK
  <2> QED BY <2>1, <2>2, <2>3 DEF Agreed, PoolBound
<1> QED BY <1>1, <1>3, <1>4, OneTouched

-----------------------------------------------------------------------------
(* The teardown of one stream.                                             *)

(* The halves are read again behind the shutdown.                          *)
LEMMA TornFields ==
    ASSUME NEW e \in Estream, NEW f, f = TornSlot(e)
    PROVE  /\ f \in Estream /\ SameUse(f, e)
           /\ ~f.send /\ ~f.fin /\ ~f.recv
           /\ f.drain <=> e.drain \/ e.recv
           /\ f.commit = e.commit /\ f.local = e.local /\ f.bidi = e.bidi
           /\ f.paused = e.paused
<1> DEFINE h == {"send"} \cup IF e.recv THEN {"recv"} ELSE {}
<1>1. "send" \in h /\ ("recv" \in h <=> e.recv)
  OBVIOUS
<1>2. f = Shut(e, h)
  BY DEF TornSlot
<1> HIDE DEF h
<1>3. f \in Estream /\ SameUse(f, e)
  BY HalfUpdates
<1>4. /\ f.send = (e.send /\ "send" \notin h)
      /\ f.fin = (e.fin /\ "send" \notin h)
      /\ f.recv = (e.recv /\ "recv" \notin h)
      /\ f.drain = (e.drain \/ "recv" \in h)
      /\ f.commit = e.commit /\ f.local = e.local /\ f.bidi = e.bidi
      /\ f.paused = e.paused
  BY <1>2 DEF Shut, Estream
<1> QED BY <1>1, <1>3, <1>4

(* Its halves end, or stay as the drain that they became.                  *)
LEMMA TornAgrees ==
    ASSUME IInv, IInv', Agreed, Torn PROVE Agreed'
<1>1. PICK s, e : s = This.s /\ e = TornSlot(slot[s])
  OBVIOUS
<1>2. /\ agenda /= <<>> /\ This.op = "torn" /\ Then(<<>>) /\ Settle(s, e)
      /\ UNCHANGED <<connVars, gens, dgen, wire, heard>>
  BY <1>1 DEF Torn, At, This
<1>3. /\ s \in Slots /\ This \in Frame /\ Owes(This)
      /\ Stacked(agenda)' /\ InputReady'
      /\ Fatal => Fatal'
      /\ \A t \in Slots \ {s} : slot'[t].gen = slot[t].gen => DuesKept(t)
      /\ Waiting(agenda)' = Waiting(Tail(agenda))
      /\ Waiting(agenda) = {This} \cup Waiting(agenda)'
      /\ \A g \in Waiting(agenda)' : Above(This, g)
  BY <1>1, <1>2, SlotCallEnds DEF SlotOps, connVars
<1>4. slot[s] \in Estream
  BY <1>3 DEF IInv, TypeOK
<1>5. /\ e \in Estream /\ SameUse(e, slot[s])
      /\ ~e.send /\ ~e.fin /\ ~e.recv
      /\ e.drain <=> slot[s].drain \/ slot[s].recv
      /\ e.commit = slot[s].commit /\ e.local = slot[s].local
      /\ e.bidi = slot[s].bidi /\ e.paused = slot[s].paused
  BY <1>1, <1>4, TornFields
<1>6. Steady
  BY <1>2, <1>3 DEF Steady, connVars, wire
<1>7. SlotOK(s)
  BY <1>3 DEF Agreed
<1>8. CASE Done(e)
  <2>1. slot[s].kind = "WT" /\ ReleaseAs(s, e)
    BY <1>2, <1>5, <1>8 DEF Done, Settle, SameUse
  <2>2. \A t \in Slots \ {s} : slot'[t] = slot[t]
    BY <1>3, <2>1 DEF ReleaseAs, IInv, TypeOK
  <2>3. PICK d : d = slot[s].ds
    OBVIOUS
  <2>4. /\ OnlyObject(d) /\ heard' = heard
        /\ tx'[d] = tx[d] /\ gone'[d] = gone[d] /\ held'[d] = held[d]
        /\ rx'[d] = rx[d]
    BY <1>2 DEF OnlyObject, wire
  <2>5. \A t \in Slots \ {s} : DuesKept(t)
    BY <1>3, <2>2
  <2>6. slot[s].kind \in InUse
    BY <2>1 DEF InUse
  <2> QED BY <1>3, <1>5, <1>6, <2>1, <2>3, <2>4, <2>5, <2>6, Freed
<1>9. CASE ~Done(e)
  <2>1. /\ slot' = [slot EXCEPT ![s] = e] /\ ectx' = ectx
    BY <1>2, <1>9 DEF Settle
  <2>2. slot'[s] = e /\ \A t \in Slots \ {s} : slot'[t] = slot[t]
    BY <1>3, <2>1 DEF IInv, TypeOK
  <2>3. CASE slot[s].kind \notin InUse
    <3>1. Blank(slot[s]) => Blank(slot'[s])
      BY <1>5, <2>2 DEF Blank
    <3> QED BY <1>2, <1>3, <1>5, <1>6, <2>1, <2>2, <2>3, <3>1, FreeTouched
            DEF SameUse
  <2>4. CASE slot[s].kind \in {"TYPE", "DRAIN"}
    <3>1. SlotOK(s)'
      <4>1. slot'[s].kind = "TYPE" => Starts(s)'
        BY <1>2, <1>5, <1>7, <2>2
           DEF SlotOK, Starts, Blank, SameUse, wire, connVars
      <4> QED BY <1>2, <1>5, <1>7, <2>2, <2>4, <4>1 DEF SlotOK, SameUse, connVars
    <3>2. PICK d : d = slot[s].ds
      OBVIOUS
    <3>3. d \in DStreams /\ ectx[d] = s
      BY <1>3, <2>4, <3>2, Alone DEF InUse
    <3>4. ObjectOK(d)'
      <4>1. ObjectOK(d)
        BY <3>3 DEF Agreed
      <4> QED BY <1>2, <1>3, <2>1, <2>4, <3>3, <4>1, SlotAssumption
              DEF ObjectOK, wire, connVars
    <3>5. ASSUME NEW f \in Waiting(agenda), f.s = s PROVE Owes(f)'
      <4>1. f \in Frame /\ Owes(f) /\ f.op /= "wt_open"
        BY <1>3, <2>4, <3>5, Waiters, NoOpenInUse DEF InUse
      <4>2. f.op /= "terminal"
        BY <1>3, <3>5, <4>1, SlotAssumption DEF Frame, StreamOps, SlotOps, PlainOps
      <4> QED BY <1>5, <1>6, <2>2, <2>4, <3>5, <4>1, <4>2
          DEF Owes, OpenOwes, ForStream, StreamOwes, TornOwes, Steady, SameUse
    <3> QED BY <1>2, <1>3, <1>4, <1>5, <1>6, <2>1, <2>2, <2>4, <3>1, <3>2, <3>4, <3>5,
               Rewritten DEF OnlyObject, InUse, wire
  <2>5. CASE slot[s].kind = "WT"
    <3>1. PICK d : d = slot[s].ds
      OBVIOUS
    <3>2. d \in DStreams /\ ectx[d] = s
      BY <1>3, <2>5, <3>1, Alone DEF InUse
    <3>3. /\ ~closed => ~held[d]
          /\ (~Fatal /\ ~gone[d]) => /\ slot[s].send => tx[d] /= "open"
                                     /\ slot[s].recv => rx[d] /= "open"
      BY <1>1, <1>2, <1>3, <2>5, <3>1 DEF Owes, TornOwes
    <3>4. Lives(s)
      BY <1>7, <2>5 DEF SlotOK
    <3>5. e.drain /\ ~e.commit
      BY <1>5, <1>9, <2>5, <3>4 DEF Done, SameUse, Lives, Shape
    <3>6. /\ FinDue(s) => FinDue(s)'
          /\ ReleaseDue(s) => ReleaseDue(s)'
      BY <1>2, <1>3, <1>5, <2>2 DEF FinDue, ReleaseDue, Own, SameUse
    <3>7. /\ tx'[d] = tx[d] /\ rx'[d] = rx[d] /\ gone'[d] = gone[d]
          /\ held'[d] = held[d] /\ heard'[s] = heard[s]
      BY <1>2 DEF wire
    <3>8. slot'[s].kind = "WT" /\ slot'[s].ds = d
      BY <1>5, <2>2, <2>5, <3>1 DEF SameUse
    <3>9. Lives(s)'
      <4>1. Shape(slot'[s])
        BY <1>5, <2>2, <3>4 DEF Shape, Lives
      <4>2. SendSide(s)'
        BY <1>5, <1>6, <2>2, <3>1, <3>3, <3>4, <3>7, <3>8
           DEF Lives, SendSide, Steady
      <4>3. RecvSide(s)'
        BY <1>5, <1>6, <2>2, <3>1, <3>3, <3>4, <3>6, <3>7, <3>8
           DEF Lives, RecvSide, Steady
      <4>4. Told(s)' /\ LiveHalves(slot'[s]) = {}
        BY <1>5, <2>2 DEF Told, LiveHalves, Halves
      <4>5. ~Done(slot'[s])
        BY <1>9, <2>2
      <4> QED BY <4>1, <4>2, <4>3, <4>4, <4>5 DEF Lives
    <3>10. SlotOK(s)'
      BY <1>2, <1>7, <3>7, <3>8, <3>9, <2>2, <1>5, <2>5
         DEF SlotOK, connVars, SameUse, InUse
    <3>11. ObjectOK(d)'
      <4>1. ObjectOK(d)
        BY <3>2 DEF Agreed
      <4> QED BY <1>2, <3>3, <3>7, <4>1 DEF ObjectOK, connVars
    <3>12. ASSUME NEW f \in Waiting(agenda)', f.s = s PROVE Owes(f)'
      BY <1>3, <1>5, <1>6, <2>2, <2>5, <3>1, <3>5, <3>6, <3>7, <3>12, EndingOwes
    <3> QED BY <1>2, <1>3, <1>4, <1>5, <1>6, <2>1, <2>2, <2>5, <3>1, <3>7, <3>10,
               <3>11, <3>12, Rewritten DEF OnlyObject, InUse, wire
  <2> QED BY <1>3, <1>4, <2>3, <2>4, <2>5 DEF Estream, Kinds, InUse
<1> QED BY <1>8, <1>9

-----------------------------------------------------------------------------
(* The loop of session_closed.                                             *)

(* Its end: the application hears of it when no stream is live.            *)
LEMMA TeardownEnds ==
    ASSUME IInv, IInv', Agreed, At("teardown"),
           \A s \in This.x : slot[s].kind /= "WT",
           heard' = [s \in Slots |-> heard[s] \cup {"session"}],
           Then(<<App>>),
           UNCHANGED <<connVars, slot, gens, ectx, dgen, wire>>
    PROVE  Agreed'
<1>1. agenda /= <<>> /\ This.op = "teardown"
  BY DEF At, This
<1> DEFINE c == App
<1>2. /\ c \in Frame /\ Light(c) /\ c.op = "app"
  BY PlainCalls
<1>3. Then(<<c>>)
  OBVIOUS
<1> HIDE DEF c
<1>4. /\ <<c>> \in Seq(Frame) /\ Stacked(<<c>>) /\ Waiting(<<c>>) = {c}
  BY <1>2, Lists, ShortStacks, WaitingLists
<1>5. /\ This \in Frame /\ \A g \in Waiting(Tail(agenda)) : Above(This, g)
  BY <1>1, <1>3, <1>4, Popped
<1>6. This.s = NoSlot
  BY <1>1, <1>5 DEF Frame, SlotOps, StreamOps, PlainOps
<1>7. \A t \in Slots : Idler(This, t)
  BY <1>1, <1>6, SlotAssumption DEF Idler
<1>8. /\ Stacked(agenda)' /\ InputReady'
      /\ Fatal => Fatal'
      /\ \A t \in Slots : DuesKept(t)
      /\ Waiting(agenda)' = {c} \cup Waiting(Tail(agenda))
      /\ Waiting(agenda) = {This} \cup Waiting(Tail(agenda))
  BY <1>1, <1>2, <1>3, <1>4, <1>7, ThenSteady DEF connVars
<1>9. sess = "ended"
  BY <1>1, <1>8, Waiters DEF Owes, TornOwes
<1>10. Steady
  BY <1>8 DEF Steady, connVars, wire
<1>11. ASSUME NEW t \in Slots, slot[t].kind = "WT"
       PROVE  LiveHalves(slot[t]) = {}
  <2>1. ~TeardownDue(t) /\ ~TornDue(t)
    BY <1>1, <1>5, <1>8, <1>11 DEF TeardownDue, TornDue, Above
  <2>2. Lives(t)
    BY <1>11 DEF Agreed, SlotOK
  <2> QED BY <1>9, <2>1, <2>2 DEF Lives
<1>12. ASSUME NEW t \in Slots PROVE SlotOK(t)'
  <2>1. SlotOK(t) /\ DuesKept(t)
    BY <1>8 DEF Agreed
  <2>2. heard'[t] = heard[t] \cup {"session"}
    OBVIOUS
  <2>3. ASSUME slot[t].kind = "WT" PROVE Lives(t)'
    <3>1. Lives(t) /\ LiveHalves(slot[t]) = {}
      BY <1>11, <2>1, <2>3 DEF SlotOK
    <3>2. SendSide(t)'
      BY <1>10, <2>1, <2>3, <3>1 DEF Lives, SendSide, DuesKept, Halves, wire, Steady
    <3>3. RecvSide(t)'
      BY <1>10, <2>1, <2>3, <3>1 DEF Lives, RecvSide, DuesKept, Halves, wire, Steady
    <3>4. ~slot[t].send /\ ~slot[t].fin /\ ~slot[t].recv
      BY <3>1 DEF LiveHalves, Halves
    <3>5. Told(t)'
      BY <3>1, <3>4 DEF Told
    <3>6. Done(slot[t]) => SettleDue(t)'
      BY <2>1, <2>3, <3>1 DEF Lives, DuesKept
    <3> QED BY <3>1, <3>2, <3>3, <3>5, <3>6 DEF Lives
  <2>4. ASSUME slot[t].kind = "TYPE" PROVE Starts(t)'
    BY <1>9, <2>1, <2>4 DEF SlotOK, Starts, wire, connVars
  <2> QED BY <1>9, <2>1, <2>2, <2>3, <2>4 DEF SlotOK, connVars
<1>13. ASSUME NEW f \in Waiting(agenda)' PROVE Owes(f)'
  <2>1. CASE f = c
    BY <1>2, <2>1, PlainOwes
  <2>2. CASE f \in Waiting(Tail(agenda))
    <3>1. f \in Frame /\ Owes(f)
      BY <1>8, <2>2, Waiters
    <3>2. f.op \in SlotOps => f.s \in Slots
      BY <3>1 DEF Frame, SlotOps, StreamOps, PlainOps
    <3>3. (f.s \in Slots /\ slot[f.s].kind = "WT")
               => /\ FinDue(f.s) => FinDue(f.s)'
                  /\ ReleaseDue(f.s) => ReleaseDue(f.s)'
      BY <1>8 DEF DuesKept
    <3>4. OpenOwes(f)' /\ ForStream(f)'
      BY <1>9, <3>1 DEF Owes, OpenOwes, ForStream, Own, connVars
    <3>5. StreamOwes(f)'
      BY <1>10, <3>1, <3>2, <3>3 DEF Owes, StreamOwes, Own, Steady, wire
    <3>6. TornOwes(f)'
      BY <1>10, <3>1 DEF Owes, TornOwes, Steady, wire, connVars
    <3> QED BY <3>1, <3>4, <3>5, <3>6 DEF Owes, wire
  <2> QED BY <1>8, <2>1, <2>2
<1>14. \A d \in DStreams : ObjectOK(d)'
  BY ObjectStays DEF Agreed, wire, connVars
<1>15. PoolBound'
  BY DEF Agreed, PoolBound, wire
<1> QED BY <1>8, <1>12, <1>13, <1>14, <1>15 DEF Agreed

(* The lists of calls that a turn of the loop may leave.                   *)
LEMMA TurnLists ==
    ASSUME NEW a \in Frame, NEW r \in Frame, NEW p \in Frame, NEW q \in Frame,
           Above(a, r), Above(p, a), Above(p, r), Above(p, q),
           Above(q, a), Above(q, r),
           NEW c, c \in {<<a, r>>, <<p, a, r>>, <<p, q, a, r>>}
    PROVE  /\ c \in Seq(Frame) /\ Stacked(c)
           /\ Waiting(c) \subseteq {p, q, a, r}
           /\ a \in Waiting(c) /\ r \in Waiting(c)
<1>1. CASE c = <<a, r>>
  <2>1. c \in Seq(Frame) /\ Stacked(c) /\ Waiting(c) = {a, r}
    BY <1>1, ListOfTwo
  <2> QED BY <2>1
<1>2. CASE c = <<p, a, r>>
  <2>1. c \in Seq(Frame) /\ Stacked(c) /\ Waiting(c) = {p, a, r}
    BY <1>2, ListOfThree
  <2> QED BY <2>1
<1>3. CASE c = <<p, q, a, r>>
  <2>1. c \in Seq(Frame) /\ Stacked(c) /\ Waiting(c) = {p, q, a, r}
    BY <1>3, ListOfFour
  <2> QED BY <2>1
<1> QED BY <1>1, <1>2, <1>3

(* The calls that one turn of the loop leaves: the shutdown's own, the     *)
(* halves behind it, and the rest of the loop.                             *)
LEMMA TurnStacks ==
    ASSUME IInv, IInv', Agreed, At("teardown"), NEW s \in Slots,
           slot[s].kind = "WT",
           NEW a \in Frame, Light(a), a.op = "torn", a.s = s,
           NEW r \in Frame, r.op = "teardown", r.s = NoSlot,
           r.x = {t \in This.x : slot[t].kind = "WT"} \ {s},
           NEW c \in Seq(Frame), Stacked(c),
           a \in Waiting(c), r \in Waiting(c),
           \A f \in Waiting(c) :
             \/ f \in {a, r}
             \/ f.op \in {"app", "conn_fatal"} /\ f.s = NoSlot,
           Then(c), UNCHANGED <<closed, slot>>
    PROVE  /\ sess = "ended"
           /\ Stacked(agenda)' /\ InputReady'
           /\ Fatal => Fatal'
           /\ \A t \in Slots : DuesKept(t)
           /\ TornDue(s)'
           /\ \A f \in Waiting(agenda)' :
                /\ \/ f \in Waiting(agenda)
                   \/ f \in {a, r}
                   \/ f.op \in {"app", "conn_fatal"}
                /\ f.op = "torn" => f = a
<1>1. agenda /= <<>> /\ This.op = "teardown"
  BY DEF At, This
<1>2. This \in Frame /\ This.x \in SUBSET Slots
  BY <1>1, TopFrame DEF IInv, TypeOK
<1>3. This.s = NoSlot
  BY <1>1, <1>2 DEF Frame, SlotOps, StreamOps, PlainOps
<1>4. \A f \in Waiting(c) : f = r \/ Light(f)
  BY SlotAssumption DEF Light, SendsFin
<1>11. /\ Waiting(agenda)' = Waiting(c) \cup Waiting(Tail(agenda))
       /\ Waiting(agenda) = {This} \cup Waiting(Tail(agenda))
       /\ \A g \in Waiting(Tail(agenda)) : Above(This, g)
       /\ (\A f \in Waiting(c), g \in Waiting(Tail(agenda)) : Above(f, g))
            => Stacked(agenda)'
  BY <1>1, Popped
<1>12. \A g \in Waiting(Tail(agenda)) :
         g.op \notin {"input", "input_fin", "teardown", "torn"}
  BY <1>1, <1>11 DEF Above
<1>13. Stacked(agenda)'
  <2> SUFFICES ASSUME NEW f \in Waiting(c), NEW g \in Waiting(Tail(agenda))
               PROVE  Above(f, g)
    BY <1>11
  <2>1. CASE f = r
    BY <1>12, <2>1, SlotAssumption DEF Above, SendsFin
  <2>2. CASE f /= r
    BY <1>4, <1>11, <1>12, <2>2, LightAbove
  <2> QED BY <2>1, <2>2
<1>14. InputReady'
  <2>1. \A f \in Waiting(agenda)' : f.op \notin {"input", "input_fin"}
    BY <1>11, <1>12
  <2> QED BY <2>1, TopWaits DEF InputReady
<1>15. Fatal => Fatal'
  BY <1>1, <1>11, FatalStays
<1>16. TornDue(s)'
  BY <1>11 DEF TornDue
<1>17. ASSUME NEW t \in Slots PROVE DuesKept(t)
  <2>1. CASE t \in This.x /\ slot[t].kind = "WT"
    <3> USE <1>1, <1>3, <1>11, SlotAssumption DEF Own
    <3>1. FinSent(t) => FinSent(t)'
      BY DEF FinSent, SendsFin
    <3>2. TornDue(t) => TornDue(t)'
      BY DEF TornDue
    <3>3. \A h \in Halves : Ends(t, h) => Ends(t, h)'
      BY <3>2 DEF Ends, Shuts
    <3>4. FinDue(t) => FinDue(t)'
      BY DEF FinDue
    <3>5. SettleDue(t) => SettleDue(t)'
      BY DEF SettleDue
    <3>6. TornDue(t)' \/ TeardownDue(t)'
      <4>1. CASE t = s
        BY <1>16, <4>1
      <4>2. CASE t /= s
        BY <2>1, <4>2 DEF TeardownDue
      <4> QED BY <4>1, <4>2
    <3>7. ReleaseDue(t) => ReleaseDue(t)'
      BY DEF ReleaseDue
    <3> QED BY <3>1, <3>3, <3>4, <3>5, <3>6, <3>7 DEF DuesKept
  <2>2. CASE ~(t \in This.x /\ slot[t].kind = "WT")
    <3>1. Idler(This, t)
      BY <1>1, <1>3, <2>2, SlotAssumption DEF Idler
    <3> QED BY <1>11, <3>1, DuesStay
  <2> QED BY <2>1, <2>2
<1>18. \A f \in Waiting(agenda)' : /\ \/ f \in Waiting(agenda)
                                      \/ f \in {a, r}
                                      \/ f.op \in {"app", "conn_fatal"}
                                   /\ f.op = "torn" => f = a
  BY <1>11, <1>12
<1>19. sess = "ended"
  BY <1>1, <1>11, Waiters DEF Owes, TornOwes
<1> QED BY <1>13, <1>14, <1>15, <1>16, <1>17, <1>18, <1>19

(* A stream's turn: its halves are shut down on the wire, or there is      *)
(* nothing to shut down, or nobody to tell.                                *)
LEMMA TeardownTurns ==
    ASSUME IInv, IInv', Agreed, At("teardown"), NEW s \in Slots,
           slot[s].kind = "WT",
           NEW a \in Frame, Light(a), a.op = "torn", a.s = s,
           a.g = slot[s].gen, a.d = slot[s].ds,
           NEW r \in Frame, r.op = "teardown", r.s = NoSlot,
           r.x = {t \in This.x : slot[t].kind = "WT"} \ {s},
           NEW c \in Seq(Frame), Stacked(c),
           a \in Waiting(c), r \in Waiting(c),
           \A f \in Waiting(c) :
             \/ f \in {a, r}
             \/ f.op \in {"app", "conn_fatal"} /\ f.s = NoSlot,
           Then(c), NEW d, d = slot[s].ds, NEW h, h = LiveHalves(slot[s]),
           \/ (closed \/ h = {} \/ ~Reachable(d)) /\ UNCHANGED wire
           \/ ~closed /\ WireShut(d, h),
           UNCHANGED <<connVars, slot, gens, ectx, dgen, heard>>
    PROVE  Agreed'
<1>1. /\ sess = "ended"
      /\ Stacked(agenda)' /\ InputReady'
      /\ Fatal => Fatal'
      /\ \A t \in Slots : DuesKept(t)
      /\ TornDue(s)'
      /\ \A f \in Waiting(agenda)' :
           /\ \/ f \in Waiting(agenda)
              \/ f \in {a, r}
              \/ f.op \in {"app", "conn_fatal"}
           /\ f.op = "torn" => f = a
  BY TurnStacks DEF connVars
<1>2. /\ SlotOK(s) /\ Lives(s) /\ d \in DStreams /\ ectx[d] = s
      /\ ObjectOK(d)
  BY Alone DEF Agreed, SlotOK, InUse
<1>3. "send" \in h <=> slot[s].send \/ slot[s].fin
  BY DEF LiveHalves, Halves
<1>4. "recv" \in h <=> slot[s].recv
  BY DEF LiveHalves, Halves
<1>5. ASSUME NEW f \in {a, r}, f = a => TornOwes(a)' PROVE Owes(f)'
  <2>1. CASE f = a
    <3>1. OpenOwes(a)' /\ StreamOwes(a)' /\ a.op /= "terminal"
      BY DEF OpenOwes, StreamOwes, SendsFin, Shuts
    <3>2. ForStream(a)'
      <4>1. slot[s].gen \in Nat /\ slot' = slot
        BY DEF IInv, TypeOK, Estream
      <4> QED BY <4>1 DEF ForStream
    <3> QED BY <1>5, <2>1, <3>1, <3>2 DEF Owes
  <2>2. CASE f = r
    BY <1>1, <2>2 DEF Owes, OpenOwes, ForStream, StreamOwes, TornOwes, SlotOps,
                      connVars
  <2> QED BY <2>1, <2>2
<1>6. ASSUME NEW f, f.op \in {"app", "conn_fatal"} PROVE Owes(f)'
  BY <1>6, PlainOwes
<1>7. CASE (closed \/ h = {} \/ ~Reachable(d)) /\ UNCHANGED wire
  <2>1. Steady
    BY <1>1, <1>7 DEF Steady, connVars, wire
  <2>2. TornOwes(a)'
    <3>1. ASSUME ~closed PROVE ~held[d]
      BY <1>2, <1>4, <1>7, <3>1, SlotAssumption DEF ObjectOK, Reachable
    <3>2. ASSUME ~closed, ~gone[d] PROVE ~slot[s].send /\ ~slot[s].recv
      BY <1>3, <1>4, <1>7, <3>2 DEF Reachable
    <3>3. closed => Fatal'
      BY <1>1 DEF Fatal
    <3> QED BY <1>1, <1>7, <3>1, <3>2, <3>3 DEF TornOwes, wire, connVars
  <2> QED BY <1>1, <1>5, <1>6, <1>7, <2>1, <2>2, NoneChanged DEF connVars
<1>8. CASE ~closed /\ WireShut(d, h)
  <2>1. /\ \A k \in DStreams \ {d} :
             /\ tx'[k] = tx[k] /\ rx'[k] = rx[k]
             /\ gone'[k] = gone[k] /\ held'[k] = held[k]
        /\ gone'[d] = gone[d]
        /\ tx'[d] = IF "send" \in h THEN "ended" ELSE tx[d]
        /\ rx'[d] = IF "recv" \in h /\ rx[d] = "open" THEN "stopped"
                                                     ELSE rx[d]
        /\ held'[d] => held[d] /\ "recv" \notin h
        /\ ObjectOK(d)' /\ PoolBound'
    <3>1. ~closed /\ WireShut(d, h) /\ h \subseteq LiveHalves(slot[s])
      BY <1>8
    <3>2. UNCHANGED <<slot, ectx, sess>>
      BY DEF connVars
    <3> QED BY <3>1, <3>2, ShutWire
  <2>2. Steady
    BY <1>1, <2>1 DEF Steady, connVars
  <2>3. TornOwes(a)'
    BY <1>1, <1>2, <1>3, <1>4, <2>1, SlotAssumption
       DEF TornOwes, ObjectOK, connVars
  <2>4. SendSide(s)'
    BY <1>1, <1>2, <1>3, <2>1, <2>2 DEF Lives, SendSide, Steady, Ends
  <2>5. RecvSide(s)'
    BY <1>1, <1>2, <1>4, <2>1, <2>2
       DEF Lives, RecvSide, Shape, Steady, Ends, DuesKept
  <2>6. Told(s)'
    BY <1>2, <1>4, <2>1 DEF Lives, Told, LiveHalves
  <2>7. Lives(s)'
    BY <1>1, <1>2, <2>4, <2>5, <2>6 DEF Lives, DuesKept
  <2>8. SlotOK(s)'
    BY <1>2, <2>7 DEF SlotOK, connVars
  <2>9. ASSUME NEW f \in Waiting(agenda), f.s = s PROVE Owes(f)'
    <3>1. /\ FinDue(s) => FinDue(s)'
          /\ ReleaseDue(s) => ReleaseDue(s)'
      BY <1>1 DEF DuesKept
    <3> QED BY <1>8, <2>2, <2>9, <3>1, ShutOwes DEF connVars
  <2>10. slot[s].kind \in InUse
    BY DEF InUse
  <2>11. Elsewhere(s, d)
    BY <2>1, <2>10, Alone DEF Elsewhere
  <2> QED BY <1>1, <1>2, <1>5, <1>6, <2>1, <2>2, <2>3, <2>8, <2>9, <2>10,
             <2>11, OneTouched
<1> QED BY <1>7, <1>8

(* Its turns and its end.                                                  *)
LEMMA TeardownAgrees ==
    ASSUME IInv, IInv', Agreed, Teardown PROVE Agreed'
<1>1. /\ At("teardown") /\ agenda /= <<>> /\ This.op = "teardown"
      /\ UNCHANGED <<connVars, slot, gens, ectx, dgen>>
  BY DEF Teardown, At, This
<1>2. PICK todo : todo = {s \in This.x : slot[s].kind = "WT"}
  OBVIOUS
<1>3. CASE /\ todo = {}
           /\ heard' = [s \in Slots |-> heard[s] \cup {"session"}]
           /\ Then(<<App>>)
           /\ UNCHANGED wire
  BY <1>1, <1>2, <1>3, TeardownEnds
<1>4. ASSUME NEW s \in todo, NEW r, r = [This EXCEPT !.x = todo \ {s}],
             NEW d, d = slot[s].ds, NEW h, h = LiveHalves(slot[s]),
             \/ /\ closed \/ h = {} \/ ~Reachable(d)
                /\ Then(<<CallOn("torn", s, {}), r>>)
                /\ UNCHANGED wire
             \/ /\ ~closed /\ h /= {} /\ Reachable(d)
                /\ WireShut(d, h)
                /\ \/ Then(<<App, CallOn("torn", s, {}), r>>)
                   \/ Then(<<App, Call("conn_fatal"),
                             CallOn("torn", s, {}), r>>),
             UNCHANGED heard
      PROVE  Agreed'
  <2>1. This \in Frame /\ This.x \in SUBSET Slots
    BY <1>1, TopFrame DEF IInv, TypeOK
  <2>2. /\ s \in Slots /\ slot[s].kind = "WT"
    BY <1>2, <2>1
  <2>3. PICK a : a = CallOn("torn", s, {})
    OBVIOUS
  <2>4. /\ a \in Frame /\ Light(a)
        /\ a.op = "torn" /\ a.s = s /\ a.g = slot[s].gen /\ a.d = d
    BY <1>4, <2>2, <2>3, SlotCalls DEF InUse
  <2>5. r.op = "teardown" /\ r.s = NoSlot /\ r.x = todo \ {s}
    BY <1>1, <1>4, <2>1 DEF Frame, SlotOps, StreamOps, PlainOps
  <2>6. r \in Frame
    <3>1. todo \ {s} \in SUBSET Slots
      BY <1>2, <2>1
    <3> QED BY <1>1, <1>4, <3>1, TopFrame DEF IInv, TypeOK, Pushables
  <2>7. PICK p, q : /\ p = App /\ q = Call("conn_fatal")
                    /\ p \in Frame /\ p.op = "app" /\ p.s = NoSlot
                    /\ q \in Frame /\ q.op = "conn_fatal" /\ q.s = NoSlot
    BY PlainCalls
  <2>8. /\ Above(a, r) /\ Above(p, a) /\ Above(p, r) /\ Above(p, q)
        /\ Above(q, a) /\ Above(q, r)
    BY <2>2, <2>4, <2>5, <2>7, SlotAssumption DEF Above, SendsFin
  <2>9. PICK c : /\ c \in {<<a, r>>, <<p, a, r>>, <<p, q, a, r>>} /\ Then(c)
                 /\ \/ (closed \/ h = {} \/ ~Reachable(d)) /\ UNCHANGED wire
                    \/ ~closed /\ WireShut(d, h)
    BY <1>4, <2>3, <2>7
  <2>10. /\ c \in Seq(Frame) /\ Stacked(c)
         /\ Waiting(c) \subseteq {p, q, a, r}
         /\ a \in Waiting(c) /\ r \in Waiting(c)
    BY <2>4, <2>6, <2>7, <2>8, <2>9, TurnLists
  <2>11. \A f \in Waiting(c) :
             \/ f \in {a, r}
             \/ f.op \in {"app", "conn_fatal"} /\ f.s = NoSlot
    BY <2>7, <2>10
  <2>12. r.x = {t \in This.x : slot[t].kind = "WT"} \ {s}
    BY <1>2, <2>5
  <2>13. UNCHANGED <<connVars, slot, gens, ectx, dgen, heard>>
    BY <1>1, <1>4
  <2>14. a.d = slot[s].ds /\ d = slot[s].ds /\ h = LiveHalves(slot[s])
    BY <1>4, <2>4
  <2>15. c \in Seq(Frame) /\ Stacked(c) /\ a \in Waiting(c) /\ r \in Waiting(c)
    BY <2>10
  <2>16. At("teardown")
    BY <1>1
  <2> QED BY <2>2, <2>4, <2>5, <2>6, <2>9, <2>11, <2>12, <2>13, <2>14, <2>15,
             <2>16, TeardownTurns
<1> QED BY <1>2, <1>3, <1>4 DEF Teardown

-----------------------------------------------------------------------------
(* The calls behind a callback or a driver call.                           *)

(* A call that ends by settling its stream: what remains to be shown when  *)
(* the stream is not done.                                                 *)
LEMMA SettleEnds ==
    ASSUME IInv, IInv', Agreed, agenda /= <<>>, This.op \in SlotOps,
           NEW s, This.s = s, Then(<<>>), slot[s].kind = "WT",
           NEW e \in Estream, SameUse(e, slot[s]), Settle(s, e),
           UNCHANGED <<connVars, wire, heard>>, NEW d, d = slot[s].ds,
           ~Done(e) => /\ Lives(s)' /\ ObjectOK(d)'
                       /\ \A f \in Waiting(agenda)' : f.s = s => Owes(f)'
    PROVE  Agreed'
<1>1. /\ s \in Slots /\ Stacked(agenda)' /\ InputReady'
      /\ Fatal => Fatal'
      /\ \A t \in Slots \ {s} : slot'[t].gen = slot[t].gen => DuesKept(t)
      /\ Waiting(agenda) = {This} \cup Waiting(agenda)'
  BY SlotCallEnds DEF connVars
<1>2. Steady
  BY <1>1 DEF Steady, connVars, wire
<1>4. /\ OnlyObject(d) /\ heard' = heard
      /\ tx'[d] = tx[d] /\ gone'[d] = gone[d] /\ held'[d] = held[d]
      /\ rx'[d] = rx[d]
  BY DEF OnlyObject, wire
<1>5. slot[s].kind \in InUse
  BY DEF InUse
<1>6. CASE Done(e)
  <2>1. ReleaseAs(s, e)
    BY <1>6 DEF Settle
  <2>2. \A t \in Slots \ {s} : slot'[t] = slot[t]
    BY <1>1, <2>1 DEF ReleaseAs, IInv, TypeOK
  <2> QED BY <1>1, <1>2, <1>4, <1>5, <2>1, <2>2, Freed
<1>7. CASE ~Done(e)
  <2>1. /\ slot' = [slot EXCEPT ![s] = e] /\ ectx' = ectx
    BY <1>7 DEF Settle
  <2>2. slot'[s] = e /\ \A t \in Slots \ {s} : slot'[t] = slot[t]
    BY <1>1, <2>1 DEF IInv, TypeOK
  <2>3. SlotOK(s)'
    BY <1>1, <1>4, <1>5, <1>7, <2>2 DEF Agreed, SlotOK, SameUse, connVars, InUse
  <2>4. \A t \in Slots \ {s} : DuesKept(t)
    BY <1>1, <2>2
  <2>5. ObjectOK(d)' /\ \A f \in Waiting(agenda)' : f.s = s => Owes(f)'
    BY <1>7
  <2> QED BY <1>1, <1>2, <1>4, <1>5, <2>1, <2>3, <2>4, <2>5, Rewritten
<1> QED BY <1>6, <1>7

(* A call that settles a stream without touching it.                       *)
LEMMA SettleAsIs ==
    ASSUME IInv, IInv', Agreed, agenda /= <<>>,
           This.op \in {"settle", "settle_same"}, Then(<<>>),
           Settle(This.s, slot[This.s]), UNCHANGED <<connVars, wire, heard>>
    PROVE  Agreed'
<1>1. PICK s, e : s = This.s /\ e = slot[s]
  OBVIOUS
<1>2. s \in Slots
  BY <1>1, TopFrame DEF IInv, TypeOK, SlotOps
<1>3. e \in Estream /\ SameUse(e, slot[s])
  BY <1>1, <1>2 DEF IInv, TypeOK, SameUse
<1>4. CASE Done(e)
  <2>1. slot[s].kind = "WT"
    BY <1>1, <1>4 DEF Done
  <2> QED BY <1>1, <1>3, <1>4, <2>1, SettleEnds DEF SlotOps
<1>5. CASE ~Done(e)
  <2>1. slot' = [slot EXCEPT ![s] = e] /\ ectx' = ectx
    BY <1>1, <1>5 DEF Settle
  <2>2. slot' = slot
    BY <1>1, <2>1 DEF IInv, TypeOK
  <2>3. \A t \in Slots : Idler(This, t)
    BY <1>1, <1>5 DEF Idler
  <2> QED BY <2>1, <2>2, <2>3, EndsQuietly DEF connVars
<1> QED BY <1>4, <1>5

(* Behind on_stream_reset's callback.                                      *)
LEMMA SettleAfterResetAgrees ==
    ASSUME IInv, IInv', Agreed, SettleAfterReset PROVE Agreed'
  BY SettleAsIs DEF SettleAfterReset, At, This

(* Behind a callback, for the same stream only.                            *)
LEMMA SettleIfSameAgrees ==
    ASSUME IInv, IInv', Agreed, SettleIfSame PROVE Agreed'
<1>1. /\ agenda /= <<>> /\ This.op = "settle_same" /\ Then(<<>>)
      /\ UNCHANGED <<connVars, gens, dgen, wire, heard>>
  BY DEF SettleIfSame, At, This
<1>2. CASE slot[This.s].gen = This.g
  BY <1>1, <1>2, SettleAsIs DEF SettleIfSame
<1>3. CASE slot[This.s].gen /= This.g
  <2>1. UNCHANGED <<slot, ectx>>
    BY <1>3 DEF SettleIfSame
  <2>2. \A t \in Slots : Idler(This, t)
    BY <1>1, <1>3 DEF Idler
  <2> QED BY <1>1, <2>1, <2>2, EndsQuietly DEF connVars
<1> QED BY <1>2, <1>3

(* The release behind on_stream_terminal.                                  *)
LEMMA TerminalReleaseAgrees ==
    ASSUME IInv, IInv', Agreed, TerminalRelease PROVE Agreed'
<1>1. PICK s, e : s = This.s /\ e = slot[s]
  OBVIOUS
<1>2. /\ agenda /= <<>> /\ This.op = "release" /\ Then(<<>>)
      /\ UNCHANGED <<connVars, gens, dgen, wire, heard>>
      /\ ReleaseAs(s, e)
  BY <1>1 DEF TerminalRelease, At, This, Release
<1>3. /\ s \in Slots /\ Stacked(agenda)' /\ InputReady'
      /\ Fatal => Fatal'
      /\ \A t \in Slots \ {s} : slot'[t].gen = slot[t].gen => DuesKept(t)
      /\ Waiting(agenda) = {This} \cup Waiting(agenda)'
  BY <1>1, <1>2, SlotCallEnds DEF connVars, SlotOps
<1>4. Steady
  BY <1>2, <1>3 DEF Steady, connVars, wire
<1>5. e \in Estream /\ SameUse(e, slot[s])
  BY <1>1, <1>3 DEF IInv, TypeOK, SameUse
<1>6. \A t \in Slots \ {s} : slot'[t] = slot[t]
  BY <1>2, <1>3 DEF ReleaseAs, IInv, TypeOK
<1>7. \A t \in Slots \ {s} : DuesKept(t)
  BY <1>3, <1>6
<1>8. CASE slot[s].kind \in InUse
  <2>1. PICK d : d = slot[s].ds
    OBVIOUS
  <2>2. /\ OnlyObject(d) /\ heard' = heard
        /\ tx'[d] = tx[d] /\ gone'[d] = gone[d] /\ held'[d] = held[d]
        /\ rx'[d] = rx[d]
    BY <1>2 DEF OnlyObject, wire
  <2> QED BY <1>2, <1>3, <1>4, <1>5, <1>7, <1>8, <2>1, <2>2, Freed
<1>9. CASE slot[s].kind \notin InUse
  <2>1. ectx' = ectx
    <3>1. e.ds \in DStreams \cup {NoDs}
      BY <1>5 DEF Estream
    <3>2. ~(e.ds /= NoDs /\ ectx[e.ds] = s)
      BY <1>3, <1>9, <3>1, SlotAssumption DEF IInv, LinkIntegrity, Linked
    <3> QED BY <1>2, <3>2 DEF ReleaseAs, Unlink
  <2>2. slot'[s] = [e EXCEPT !.kind = "FREE"]
    BY <1>2, <1>3 DEF ReleaseAs, IInv, TypeOK
  <2>3. /\ slot'[s].kind = "FREE" /\ slot'[s].ds = slot[s].ds
        /\ slot'[s].gen = slot[s].gen /\ slot'[s].resident = slot[s].resident
        /\ Blank(slot[s]) => Blank(slot'[s])
    BY <1>1, <1>5, <2>2 DEF Estream, Blank
  <2> QED BY <1>2, <1>3, <1>4, <1>6, <1>7, <1>9, <2>1, <2>3, FreeTouched DEF InUse
<1> QED BY <1>8, <1>9

(* Behind the callback that delivered a FIN: the receive half ends.        *)
LEMMA FinDeliveredAgrees ==
    ASSUME IInv, IInv', Agreed, FinDelivered PROVE Agreed'
<1>1. PICK s, e : s = This.s /\ e = Finished(slot[s])
  OBVIOUS
<1>2. /\ agenda /= <<>> /\ This.op = "fin_delivered" /\ Then(<<>>)
      /\ UNCHANGED <<connVars, gens, dgen, wire, heard>>
  BY DEF FinDelivered, At, This
<1>3. /\ s \in Slots /\ This \in Frame /\ Owes(This)
      /\ Fatal => Fatal'
      /\ Waiting(agenda) = {This} \cup Waiting(agenda)'
      /\ \A g \in Waiting(agenda)' : Above(This, g)
  BY <1>1, <1>2, SlotCallEnds DEF connVars, SlotOps
<1>4. Steady
  BY <1>2, <1>3 DEF Steady, connVars, wire
<1>5. slot[s] \in Estream
  BY <1>3 DEF IInv, TypeOK
<1>6. /\ e \in Estream /\ SameUse(e, slot[s])
      /\ ~e.recv /\ ~e.drain /\ e.send = slot[s].send /\ e.fin = slot[s].fin
      /\ e.commit = slot[s].commit /\ e.local = slot[s].local
      /\ e.bidi = slot[s].bidi
  <2>1. e \in Estream /\ SameUse(e, slot[s])
    BY <1>1, <1>5, HalfUpdates
  <2>2. e = [slot[s] EXCEPT !.recv = FALSE, !.drain = FALSE]
    BY <1>1 DEF Finished
  <2> QED BY <1>5, <2>1, <2>2 DEF Estream
<1>7. CASE slot[s].gen = This.g /\ slot[s].kind = "WT"
  <2>1. Settle(s, e)
    BY <1>1, <1>7 DEF FinDelivered
  <2>2. PICK d : d = slot[s].ds
    OBVIOUS
  <2>3. d \in DStreams /\ rx[d] = "ended" /\ ObjectOK(d) /\ Lives(s)
    BY <1>1, <1>2, <1>3, <1>7, <2>2, Alone
       DEF Agreed, SlotOK, Owes, StreamOwes, SlotOps, Own, InUse
  <2>4. /\ tx'[d] = tx[d] /\ rx'[d] = rx[d] /\ gone'[d] = gone[d]
        /\ held'[d] = held[d] /\ heard'[s] = heard[s] /\ sess' = sess
        /\ closed' = closed
    BY <1>2 DEF wire, connVars
  <2>5. ASSUME ~Done(e)
        PROVE  /\ Lives(s)' /\ ObjectOK(d)'
               /\ \A f \in Waiting(agenda)' : f.s = s => Owes(f)'
    <3>1. slot' = [slot EXCEPT ![s] = e]
      BY <2>1, <2>5 DEF Settle
    <3>2. /\ slot'[s] = e /\ slot'[s].kind = "WT" /\ slot'[s].ds = d
          /\ slot'[s].gen = slot[s].gen
      BY <1>3, <1>6, <1>7, <2>2, <3>1 DEF IInv, TypeOK, SameUse
    <3>3. /\ FinSent(s) => FinSent(s)'
          /\ Ends(s, "send") => Ends(s, "send")'
          /\ ReleaseDue(s) => ReleaseDue(s)'
          /\ (TornDue(s) \/ TeardownDue(s)) => (TornDue(s) \/ TeardownDue(s))'
      BY <1>2, <1>3, <3>2
         DEF FinSent, ReleaseDue, Ends, TornDue, TeardownDue, Own, Shuts, SendsFin
    <3>4. SendSide(s)'
      BY <1>4, <1>6, <2>2, <2>3, <2>4, <3>2, <3>3 DEF Lives, SendSide, Steady
    <3>5. RecvSide(s)'
      BY <1>6, <2>3, <2>4, <3>2 DEF RecvSide
    <3>6. LiveHalves(e) \subseteq LiveHalves(slot[s])
      BY <1>6 DEF LiveHalves, Halves
    <3>7. Told(s)'
      BY <1>6, <2>3, <2>4, <3>2, <3>6 DEF Lives, Told
    <3>8. Shape(slot'[s])
      BY <1>6, <2>3, <3>2 DEF Lives, Shape
    <3>9. Lives(s)'
      BY <2>3, <2>4, <2>5, <3>2, <3>3, <3>4, <3>5, <3>6, <3>7, <3>8 DEF Lives
    <3>10. ObjectOK(d)'
      BY <2>3, <2>4 DEF ObjectOK
    <3>11. ASSUME NEW f \in Waiting(agenda)', f.s = s PROVE Owes(f)'
      <4>1. \A g \in Waiting(agenda)' : ~(Shuts(g, "recv") /\ Own(g, s))
        BY <1>1, <1>2, <1>3, <1>7 DEF Above, Own
      <4> QED BY <1>3, <1>4, <1>6, <1>7, <2>2, <2>4, <3>2, <3>3, <3>11, <4>1,
             EndingOwes
    <3> QED BY <3>9, <3>10, <3>11
  <2> QED BY <1>1, <1>2, <1>6, <1>7, <2>1, <2>2, <2>5, SettleEnds DEF SlotOps
<1>8. CASE ~(slot[s].gen = This.g /\ slot[s].kind = "WT")
  <2>1. UNCHANGED <<slot, ectx>>
    BY <1>1, <1>8 DEF FinDelivered
  <2>2. \A t \in Slots : Idler(This, t)
    BY <1>1, <1>2, <1>8 DEF Idler
  <2> QED BY <1>2, <2>1, <2>2, EndsQuietly DEF connVars
<1> QED BY <1>7, <1>8


(* Behind a send that was accepted: its FIN ends the send half, or leaves  *)
(* the wait for the commitment.                                            *)
LEMMA WtSentAgrees ==
    ASSUME IInv, IInv', Agreed, WtSent PROVE Agreed'
<1>1. PICK s : s = This.s
  OBVIOUS
<1>2. /\ agenda /= <<>> /\ This.op = "send_done" /\ Then(<<>>)
      /\ UNCHANGED <<connVars, gens, dgen, wire, heard>>
  BY DEF WtSent, At, This
<1>3. /\ s \in Slots /\ This \in Frame /\ Owes(This)
      /\ Stacked(agenda)' /\ InputReady'
      /\ Fatal => Fatal'
      /\ \A t \in Slots \ {s} : slot'[t].gen = slot[t].gen => DuesKept(t)
      /\ Waiting(agenda) = {This} \cup Waiting(agenda)'
      /\ \A g \in Waiting(agenda)' : Above(This, g)
  BY <1>1, <1>2, SlotCallEnds DEF connVars, SlotOps
<1>4. Steady
  BY <1>2, <1>3 DEF Steady, connVars, wire
<1>5. slot[s] \in Estream
  BY <1>3 DEF IInv, TypeOK
<1>6. PICK d : d = slot[s].ds
  OBVIOUS
<1>7. SameStream => /\ slot[s].gen = This.g /\ slot[s].kind = "WT"
                    /\ d \in DStreams /\ ectx[d] = s
                    /\ ObjectOK(d) /\ Lives(s) /\ slot[s].kind \in InUse
  BY <1>1, <1>3, <1>6, Alone DEF SameStream, Agreed, SlotOK, InUse
<1>8. /\ tx'[d] = tx[d] /\ rx'[d] = rx[d] /\ gone'[d] = gone[d]
      /\ held'[d] = held[d] /\ heard'[s] = heard[s] /\ sess' = sess
      /\ closed' = closed
  BY <1>2 DEF wire, connVars
<1>9. CASE SameStream /\ "fin" \in This.x
  <2>1. PICK e : e = [slot[s] EXCEPT !.sent = TRUE, !.send = FALSE,
                                     !.fin = slot[s].commit]
    OBVIOUS
  <2>2. Settle(s, e)
    BY <1>1, <1>9, <2>1 DEF WtSent
  <2>3. /\ e \in Estream /\ SameUse(e, slot[s])
        /\ ~e.send /\ e.fin = slot[s].commit /\ e.recv = slot[s].recv
        /\ e.drain = slot[s].drain /\ e.paused = slot[s].paused
        /\ e.commit = slot[s].commit /\ e.local = slot[s].local
        /\ e.bidi = slot[s].bidi
    BY <1>5, <2>1 DEF Estream, SameUse
  <2>4. tx[d] \in {"fin", "ended"} /\ (slot[s].commit => slot[s].send)
    <3>1. SendsFin(This)
      BY <1>2, <1>9 DEF SendsFin
    <3>2. ~ReleaseDue(s)
      BY <1>1, <1>2, <1>3, <1>7, <1>9, <3>1 DEF ReleaseDue, Above, Own
    <3> QED BY <1>1, <1>2, <1>3, <1>6, <1>7, <1>9, <3>1, <3>2
            DEF Owes, StreamOwes, SlotOps, Own
  <2>5. ASSUME ~Done(e)
        PROVE  /\ Lives(s)' /\ ObjectOK(d)'
               /\ \A f \in Waiting(agenda)' : f.s = s => Owes(f)'
    <3>1. slot' = [slot EXCEPT ![s] = e] /\ ectx' = ectx
      BY <2>2, <2>5 DEF Settle
    <3>2. /\ slot'[s] = e /\ slot'[s].kind = "WT" /\ slot'[s].ds = d
          /\ slot'[s].gen = slot[s].gen
      BY <1>3, <1>6, <1>7, <1>9, <2>3, <3>1 DEF IInv, TypeOK, SameUse
    <3>3. /\ Ends(s, "send") => Ends(s, "send")'
          /\ Ends(s, "recv") => Ends(s, "recv")'
          /\ FinDue(s) => FinDue(s)'
          /\ ReleaseDue(s) => ReleaseDue(s)'
          /\ (TornDue(s) \/ TeardownDue(s)) => (TornDue(s) \/ TeardownDue(s))'
      BY <1>2, <1>3, <3>2
         DEF FinDue, ReleaseDue, Ends, TornDue, TeardownDue, Own, Shuts
    <3>4. SendSide(s)'
      BY <1>4, <1>6, <1>7, <1>8, <1>9, <2>3, <2>4, <3>2, <3>3
         DEF Lives, SendSide, Steady
    <3>5. RecvSide(s)'
      BY <1>4, <1>6, <1>7, <1>8, <1>9, <2>3, <3>2, <3>3
         DEF Lives, RecvSide, Steady
    <3>6. LiveHalves(e) \subseteq LiveHalves(slot[s])
      BY <2>3, <2>4 DEF LiveHalves, Halves
    <3>7. Told(s)'
      BY <1>6, <1>7, <1>8, <1>9, <2>3, <2>4, <3>2, <3>6 DEF Lives, Told
    <3>8. Shape(slot'[s])
      BY <1>7, <1>9, <2>3, <3>2 DEF Lives, Shape
    <3>9. Lives(s)'
      BY <1>7, <1>8, <1>9, <2>5, <3>2, <3>3, <3>4, <3>5, <3>6, <3>7, <3>8
         DEF Lives
    <3>10. ObjectOK(d)'
      BY <1>7, <1>8, <1>9, <2>3, <3>1, <3>2 DEF ObjectOK
    <3>11. ~FinSent(s)'
      BY <1>1, <1>2, <1>3, <1>7, <1>9, <3>2 DEF FinSent, Above, Own, SendsFin
    <3>12. ASSUME NEW f \in Waiting(agenda)', f.s = s PROVE Owes(f)'
      BY <1>3, <1>4, <1>6, <1>7, <1>8, <1>9, <2>3, <3>2, <3>3, <3>11, <3>12,
         EndingOwes
    <3> QED BY <3>9, <3>10, <3>12
  <2> QED BY <1>1, <1>2, <1>6, <1>7, <1>9, <2>2, <2>3, <2>5, SettleEnds
          DEF SlotOps
<1>10. CASE SameStream /\ "fin" \notin This.x
  <2>1. PICK e : e = [slot[s] EXCEPT !.sent = TRUE]
    OBVIOUS
  <2>2. slot' = [slot EXCEPT ![s] = e] /\ ectx' = ectx
    BY <1>1, <1>10, <2>1 DEF WtSent
  <2>3. /\ e \in Estream /\ SameUse(e, slot[s])
        /\ e.send = slot[s].send /\ e.fin = slot[s].fin
        /\ e.recv = slot[s].recv
        /\ e.drain = slot[s].drain /\ e.paused = slot[s].paused
        /\ e.commit = slot[s].commit /\ e.local = slot[s].local
        /\ e.bidi = slot[s].bidi
    BY <1>5, <2>1 DEF Estream, SameUse
  <2>4. /\ slot'[s] = e /\ slot'[s].kind = "WT" /\ slot'[s].ds = d
        /\ slot'[s].gen = slot[s].gen
        /\ \A t \in Slots \ {s} : slot'[t] = slot[t]
    BY <1>3, <1>6, <1>7, <1>10, <2>2, <2>3 DEF IInv, TypeOK, SameUse
  <2>5. DuesKept(s)
    BY <1>2, <1>3, <1>10, <2>4, DuesStay DEF Idler
  <2>6. SendSide(s)'
    BY <1>4, <1>6, <1>7, <1>8, <1>10, <2>3, <2>4, <2>5
       DEF Lives, SendSide, Steady, DuesKept, Halves
  <2>7. RecvSide(s)'
    BY <1>4, <1>6, <1>7, <1>8, <1>10, <2>3, <2>4, <2>5
       DEF Lives, RecvSide, Steady, DuesKept, Halves
  <2>8. LiveHalves(e) = LiveHalves(slot[s])
    BY <2>3 DEF LiveHalves
  <2>9. Told(s)'
    BY <1>6, <1>7, <1>8, <1>10, <2>3, <2>4, <2>8 DEF Lives, Told
  <2>10. Shape(slot'[s])
    BY <1>7, <1>10, <2>3, <2>4 DEF Lives, Shape
  <2>11. Done(slot'[s]) => SettleDue(s)'
    BY <1>7, <1>10, <2>3, <2>4, <2>5 DEF Lives, DuesKept, Done, SameUse
  <2>12. (sess = "ended" /\ LiveHalves(e) /= {})
          => (TornDue(s) \/ TeardownDue(s))'
    BY <1>7, <1>10, <2>5, <2>8 DEF Lives, DuesKept
  <2>13. Lives(s)'
    BY <1>8, <2>4, <2>6, <2>7, <2>9, <2>10, <2>11, <2>12 DEF Lives
  <2>14. SlotOK(s)'
    BY <1>3, <1>7, <1>8, <1>10, <2>3, <2>4, <2>13 DEF Agreed, SlotOK, SameUse, InUse
  <2>15. ObjectOK(d)'
    BY <1>7, <1>8, <1>10, <2>2, <2>3, <2>4 DEF ObjectOK
  <2>16. /\ FinDue(s) => FinDue(s)'
         /\ ReleaseDue(s) => ReleaseDue(s)'
    BY <1>7, <1>10, <2>5 DEF DuesKept
  <2>17. ASSUME NEW f \in Waiting(agenda)', f.s = s PROVE Owes(f)'
    BY <1>3, <1>4, <1>6, <1>7, <1>8, <1>10, <2>3, <2>4, <2>16, <2>17, EndingOwes
  <2>18. \A t \in Slots \ {s} : DuesKept(t)
    BY <1>3, <2>4
  <2>19. OnlyObject(d) /\ heard' = heard
    BY <1>2 DEF OnlyObject, wire
  <2> QED BY <1>3, <1>4, <1>6, <1>7, <1>8, <1>10, <2>2, <2>3, <2>14, <2>15,
             <2>17, <2>18, <2>19, Rewritten
<1>11. CASE ~SameStream
  <2>1. UNCHANGED <<slot, ectx>>
    BY <1>11 DEF WtSent
  <2>2. slot[s].kind = "WT" => slot[s].gen /= This.g
    BY <1>1, <1>2, <1>3, <1>11
       DEF SameStream, Owes, ForStream, SlotOps, Own
  <2>3. \A t \in Slots : Idler(This, t)
    BY <1>1, <1>2, <2>2 DEF Idler
  <2> QED BY <1>2, <2>1, <2>3, EndsQuietly DEF connVars
<1> QED BY <1>9, <1>10, <1>11

(* The halves after a shutdown of some of them.                            *)
LEMMA ShutFields ==
    ASSUME NEW e \in Estream, NEW h, NEW f, f = Shut(e, h)
    PROVE  /\ f \in Estream /\ SameUse(f, e)
           /\ f.send = (e.send /\ "send" \notin h)
           /\ f.fin = (e.fin /\ "send" \notin h)
           /\ f.recv = (e.recv /\ "recv" \notin h)
           /\ f.drain = (e.drain \/ "recv" \in h)
           /\ f.commit = e.commit /\ f.local = e.local /\ f.bidi = e.bidi
           /\ f.paused = e.paused
<1>1. f \in Estream /\ SameUse(f, e)
  BY ShutKeepsUse
<1>2. /\ f.send = (e.send /\ "send" \notin h)
      /\ f.fin = (e.fin /\ "send" \notin h)
      /\ f.recv = (e.recv /\ "recv" \notin h)
      /\ f.drain = (e.drain \/ "recv" \in h)
      /\ f.commit = e.commit /\ f.local = e.local /\ f.bidi = e.bidi
      /\ f.paused = e.paused
  BY DEF Shut, Estream
<1> QED BY <1>1, <1>2

(* Behind a shutdown: the halves end, the receive half as a drain.         *)
LEMMA WtShutdownDoneAgrees ==
    ASSUME IInv, IInv', Agreed, WtShutdownDone PROVE Agreed'
<1>1. PICK s, h, e : s = This.s /\ h = This.x /\ e = Shut(slot[s], h)
  OBVIOUS
<1>2. /\ agenda /= <<>> /\ This.op = "shutdown_done" /\ Then(<<>>)
      /\ UNCHANGED <<connVars, gens, dgen, wire, heard>>
  BY DEF WtShutdownDone, At, This
<1>3. /\ s \in Slots /\ This \in Frame /\ Owes(This)
      /\ Fatal => Fatal'
      /\ Waiting(agenda) = {This} \cup Waiting(agenda)'
      /\ \A g \in Waiting(agenda)' : Above(This, g)
  BY <1>1, <1>2, SlotCallEnds DEF connVars, SlotOps
<1>4. Steady
  BY <1>2, <1>3 DEF Steady, connVars, wire
<1>5. slot[s] \in Estream
  BY <1>3 DEF IInv, TypeOK
<1>6. /\ e \in Estream /\ SameUse(e, slot[s])
      /\ e.send = (slot[s].send /\ "send" \notin h)
      /\ e.fin = (slot[s].fin /\ "send" \notin h)
      /\ e.recv = (slot[s].recv /\ "recv" \notin h)
      /\ e.drain = (slot[s].drain \/ "recv" \in h)
      /\ e.commit = slot[s].commit /\ e.local = slot[s].local
      /\ e.bidi = slot[s].bidi /\ e.paused = slot[s].paused
  BY <1>1, <1>5, ShutFields
<1>7. CASE SameStream
  <2>1. Settle(s, e) /\ slot[s].kind = "WT" /\ slot[s].gen = This.g
    BY <1>1, <1>7 DEF WtShutdownDone, SameStream
  <2>2. PICK d : d = slot[s].ds
    OBVIOUS
  <2>3. d \in DStreams /\ ectx[d] = s /\ ObjectOK(d) /\ Lives(s)
    BY <1>3, <2>1, <2>2, Alone DEF Agreed, SlotOK, InUse
  <2>4. /\ tx'[d] = tx[d] /\ rx'[d] = rx[d] /\ gone'[d] = gone[d]
        /\ held'[d] = held[d] /\ heard'[s] = heard[s] /\ sess' = sess
        /\ closed' = closed
    BY <1>2 DEF wire, connVars
  <2>5. /\ "send" \in h => tx[d] = "ended"
        /\ "recv" \in h =>
             /\ ~slot[s].local \/ slot[s].bidi
             /\ rx[d] /= "open" /\ ~held[d]
             /\ ~Fatal => \/ rx[d] = "stopped"
                          \/ rx[d] = "ended" /\ FinDue(s)
    BY <1>1, <1>2, <1>3, <2>1, <2>2
       DEF Owes, StreamOwes, SlotOps, Own, Shuts
  <2>6. ASSUME ~Done(e)
        PROVE  /\ Lives(s)' /\ ObjectOK(d)'
               /\ \A f \in Waiting(agenda)' : f.s = s => Owes(f)'
    <3>1. slot' = [slot EXCEPT ![s] = e] /\ ectx' = ectx
      BY <2>1, <2>6 DEF Settle
    <3>2. /\ slot'[s] = e /\ slot'[s].kind = "WT" /\ slot'[s].ds = d
          /\ slot'[s].gen = slot[s].gen
      BY <1>3, <1>6, <2>1, <2>2, <3>1 DEF IInv, TypeOK, SameUse
    <3>3. /\ FinSent(s) => FinSent(s)'
          /\ FinDue(s) => FinDue(s)'
          /\ ReleaseDue(s) => ReleaseDue(s)'
          /\ (TornDue(s) \/ TeardownDue(s)) => (TornDue(s) \/ TeardownDue(s))'
          /\ "send" \notin h => (Ends(s, "send") => Ends(s, "send")')
          /\ "recv" \notin h => (Ends(s, "recv") => Ends(s, "recv")')
      BY <1>1, <1>2, <1>3, <3>2
         DEF FinSent, FinDue, ReleaseDue, Ends, TornDue, TeardownDue, Own, Shuts, SendsFin
    <3>4. SendSide(s)'
      BY <1>4, <1>6, <2>2, <2>3, <2>4, <2>5, <3>2, <3>3
         DEF Lives, SendSide, Steady
    <3>5. RecvSide(s)'
      BY <1>4, <1>6, <2>2, <2>3, <2>4, <2>5, <3>2, <3>3
         DEF Lives, RecvSide, Steady
    <3>6. LiveHalves(e) \subseteq LiveHalves(slot[s])
      BY <1>6 DEF LiveHalves, Halves
    <3>7. Told(s)'
      BY <1>6, <2>2, <2>3, <2>4, <3>2, <3>6 DEF Lives, Told
    <3>8. Shape(slot'[s])
      BY <1>6, <2>3, <2>5, <3>2 DEF Lives, Shape
    <3>9. Lives(s)'
      BY <2>3, <2>4, <2>6, <3>2, <3>3, <3>4, <3>5, <3>6, <3>7, <3>8 DEF Lives
    <3>10. ObjectOK(d)'
      BY <1>6, <2>3, <2>4, <2>5, <3>1, <3>2 DEF ObjectOK
    <3>11. ~(slot[s].commit /\ slot[s].send /\ ~slot'[s].send)
      <4>1. "send" \in h => ~e.send /\ ~e.fin
        BY <1>6
      <4>2. slot[s].commit => ~e.recv /\ ~e.drain
        BY <1>6, <2>3, <2>5 DEF Lives, Shape
      <4> QED BY <1>6, <2>1, <2>6, <3>2, <4>1, <4>2 DEF Done, SameUse
    <3>12. ASSUME NEW f \in Waiting(agenda)', f.s = s PROVE Owes(f)'
      BY <1>3, <1>4, <1>6, <2>1, <2>2, <2>4, <3>2, <3>3, <3>11, <3>12,
         EndingOwes
    <3> QED BY <3>9, <3>10, <3>12
  <2> QED BY <1>1, <1>2, <1>6, <2>1, <2>2, <2>6, SettleEnds DEF SlotOps
<1>8. CASE ~SameStream
  <2>1. UNCHANGED <<slot, ectx>>
    BY <1>8 DEF WtShutdownDone
  <2>2. slot[s].kind = "WT" => slot[s].gen /= This.g
    BY <1>1, <1>2, <1>3, <1>8
       DEF SameStream, Owes, ForStream, SlotOps, Own
  <2>3. \A t \in Slots : Idler(This, t)
    BY <1>1, <1>2, <2>2 DEF Idler
  <2> QED BY <1>2, <2>1, <2>3, EndsQuietly DEF connVars
<1> QED BY <1>7, <1>8

-----------------------------------------------------------------------------
(* The operations of the application on a stream.                          *)

(* Calls pushed by an event or by the application, in order with those     *)
(* that wait.                                                              *)
LEMMA EnterAbove ==
    ASSUME IInv, IInv', Agreed, Idle \/ At("app"), NEW c \in Seq(Frame),
           Enter(c), Stacked(c), closed => closed',
           \A f \in Waiting(c), g \in Waiting(agenda) : Above(f, g)
    PROVE  /\ Stacked(agenda)'
           /\ (\A f \in Waiting(c) : f.op \notin {"input", "input_fin"})
                => InputReady'
           /\ Fatal => Fatal'
           /\ \A t \in Slots : slot'[t].gen = slot[t].gen => DuesKept(t)
           /\ Waiting(agenda)' = Waiting(c) \cup Waiting(agenda)
<1>1. /\ Waiting(agenda)' = Waiting(c) \cup Waiting(agenda)
      /\ Stacked(agenda)'
  BY Pushed
<1>2. \A g \in Waiting(agenda) : g.op \notin {"input", "input_fin"}
  BY NoInputs
<1>3. (\A f \in Waiting(c) : f.op \notin {"input", "input_fin"}) => InputReady'
  BY <1>1, <1>2, TopWaits DEF InputReady
<1>4. Fatal => Fatal'
  BY <1>1, FatalStays
<1>5. \A t \in Slots : slot'[t].gen = slot[t].gen => DuesKept(t)
  BY <1>1, DuesStay
<1> QED BY <1>1, <1>3, <1>4, <1>5

(* A send is accepted by the driver.                                       *)
LEMMA WtSendAgrees ==
    ASSUME IInv, IInv', Agreed, NEW s \in Slots, NEW fin \in BOOLEAN,
           WtSend(s, fin)
    PROVE  Agreed'
<1>1. PICK d, x, c : /\ d = slot[s].ds /\ x = IF fin THEN {"fin"} ELSE {}
                     /\ c = CallOn("send_done", s, x)
  OBVIOUS
<1>2. /\ Idle \/ At("app")
      /\ slot[s].kind = "WT" /\ slot[s].send /\ tx[d] = "open"
      /\ tx' = IF fin THEN [tx EXCEPT ![d] = "fin"] ELSE tx
      /\ Enter(<<App, c>>)
      /\ UNCHANGED <<connVars, slot, gens, ectx, dgen, rx, gone, held, heard>>
  BY <1>1 DEF WtSend, AppMay
<1>3. /\ c \in Frame /\ c.op = "send_done" /\ c.s = s /\ c.g = slot[s].gen
      /\ c.d = d /\ c.x = x
  <2>1. c \in Frame
    BY <1>1, SlotFrames DEF IInv, TypeOK, SlotOps, Pushables
  <2> QED BY <1>1, <2>1 DEF CallOn
<1>4. /\ d \in DStreams /\ ectx[d] = s /\ ObjectOK(d) /\ Lives(s) /\ SlotOK(s)
      /\ slot[s].kind \in InUse
  BY <1>1, <1>2, Alone DEF Agreed, SlotOK, InUse
<1>5. ASSUME NEW g \in Waiting(agenda), g.s = s, Own(g, s)
      PROVE  /\ ~SendsFin(g) /\ ~Shuts(g, "send") /\ g.op /= "release"
  <2>1. Owes(g) /\ g \in Frame
    BY Waiters
  <2> QED BY <1>1, <1>2, <1>5, <2>1
          DEF Owes, StreamOwes, SendsFin, Shuts, SlotOps
<1>6. ASSUME NEW g \in Waiting(agenda) PROVE Above(c, g)
  <2>1. g.op \notin {"input", "input_fin"}
    BY <1>2, NoInputs
  <2>2. g.s = s => g.op /= "wt_open"
    BY <1>4, NoOpenInUse
  <2>3. (g.s = c.s /\ g.g = c.g) => ~SendsFin(g) /\ g.op /= "release"
    BY <1>3, <1>5 DEF Own
  <2> QED BY <1>3, <2>1, <2>2, <2>3 DEF Above
<1>7. /\ App \in Frame /\ App.op = "app" /\ App.s \notin Slots
  BY PlainCalls, SlotAssumption
<1> DEFINE a == App
<1> HIDE DEF a
<1>8. /\ a \in Frame /\ a.op = "app" /\ a.s \notin Slots /\ Enter(<<a, c>>)
  BY <1>2, <1>7 DEF a
<1>9. /\ <<a, c>> \in Seq(Frame) /\ Stacked(<<a, c>>)
      /\ Waiting(<<a, c>>) = {a, c}
  <2>1. Above(a, c)
    BY <1>3, <1>8, PlainAbove
  <2> QED BY <1>3, <1>8, <2>1, ListOfTwo
<1>10. ASSUME NEW g \in Waiting(agenda) PROVE Above(a, g)
  BY <1>2, <1>8, NoInputs, PlainAbove
<1>11. /\ Stacked(agenda)' /\ InputReady' /\ (Fatal => Fatal')
       /\ \A t \in Slots : DuesKept(t)
       /\ Waiting(agenda)' = {a, c} \cup Waiting(agenda)
  <2>1. \A f \in {a, c} : f.op \notin {"input", "input_fin"}
    BY <1>3, <1>8
  <2>2. \A f \in {a, c}, g \in Waiting(agenda) : Above(f, g)
    BY <1>6, <1>10
  <2> QED BY <1>2, <1>8, <1>9, <2>1, <2>2, EnterAbove DEF connVars
<1>12. Steady
  BY <1>2, <1>11 DEF Steady, connVars
<1>13. tx'[d] = IF fin THEN "fin" ELSE "open"
  BY <1>2, <1>4 DEF IInv, TypeOK
<1>14. \A b \in DStreams \ {d} : tx'[b] = tx[b]
  BY <1>2, <1>4 DEF IInv, TypeOK
<1>15. /\ rx'[d] = rx[d] /\ gone'[d] = gone[d] /\ held'[d] = held[d]
       /\ heard'[s] = heard[s] /\ slot'[s] = slot[s] /\ sess' = sess
       /\ ectx' = ectx /\ closed' = closed /\ slot' = slot
  BY <1>2 DEF connVars
<1>16. fin => FinSent(s)'
  BY <1>1, <1>3, <1>11, <1>15 DEF FinSent, Own, SendsFin
<1>17. Lives(s)'
  <2>1. SendSide(s)'
    BY <1>1, <1>2, <1>4, <1>11, <1>12, <1>13, <1>15, <1>16
       DEF Lives, SendSide, Steady
  <2>2. RecvSide(s)'
    BY <1>1, <1>2, <1>4, <1>11, <1>12, <1>15
       DEF Lives, RecvSide, Steady, DuesKept, Halves
  <2>3. Told(s)'
    BY <1>1, <1>4, <1>15 DEF Lives, Told
  <2>4. ~Done(slot[s])
    BY <1>2 DEF Done
  <2>5. (sess = "ended" /\ LiveHalves(slot[s]) /= {})
          => (TornDue(s) \/ TeardownDue(s))'
    BY <1>2, <1>4, <1>11 DEF Lives, DuesKept
  <2> QED BY <1>4, <1>15, <2>1, <2>2, <2>3, <2>4, <2>5 DEF Lives
<1>18. SlotOK(s)'
  BY <1>4, <1>15, <1>17, <1>2 DEF SlotOK
<1>19. ObjectOK(d)'
  BY <1>4, <1>13, <1>15 DEF ObjectOK
<1>20. PoolBound'
  <2>1. \A b \in DStreams : tx'[b] /= "none" => tx[b] /= "none"
    BY <1>2, <1>14
  <2> QED BY <1>15, <2>1 DEF Agreed, PoolBound
<1>21. ASSUME NEW f \in Waiting(agenda), f.s = s PROVE Owes(f)'
  <2>1. f \in Frame /\ Owes(f)
    BY Waiters
  <2>2. OpenOwes(f)' /\ ForStream(f)'
    BY <1>15, <1>21, <2>1 DEF Owes, OpenOwes, ForStream, Own
  <2>3. StreamOwes(f)'
    <3>1. FinDue(s) => FinDue(s)'
      BY <1>2, <1>11 DEF DuesKept
    <3> QED BY <1>1, <1>5, <1>12, <1>15, <1>21, <2>1, <3>1
            DEF Owes, StreamOwes, Own, Steady
  <2>4. TornOwes(f)'
    BY <1>1, <1>2, <1>12, <1>13, <1>15, <1>21, <2>1 DEF Owes, TornOwes, Steady
  <2>5. f.op /= "terminal"
    BY <1>21, <2>1, SlotAssumption DEF Frame, StreamOps, SlotOps, PlainOps
  <2> QED BY <2>2, <2>3, <2>4, <2>5 DEF Owes
<1>22. Owes(c)'
  <2>1. OpenOwes(c)' /\ TornOwes(c)'
    BY <1>3 DEF OpenOwes, TornOwes
  <2>2. ForStream(c)'
    BY <1>1, <1>3, <1>15 DEF ForStream, IInv, TypeOK, Estream
  <2>3. StreamOwes(c)'
    BY <1>1, <1>2, <1>3, <1>13, <1>15 DEF StreamOwes, SendsFin, Shuts
  <2> QED BY <1>3, <2>1, <2>2, <2>3 DEF Owes
<1>23. Owes(a)'
  BY <1>8, PlainOwes
<1>24. Elsewhere(s, d)
  BY <1>1, <1>2, <1>4, <1>14, <1>15, Alone DEF Elsewhere
<1> QED BY <1>1, <1>4, <1>11, <1>12, <1>18, <1>19, <1>20, <1>21, <1>22, <1>23,
           <1>24, OneTouched

(* Live halves are shut down; or the driver fails, which is fatal.         *)
LEMMA WtShutdownAgrees ==
    ASSUME IInv, IInv', Agreed, NEW s \in Slots, NEW h \in SUBSET Halves,
           WtShutdown(s, h)
    PROVE  Agreed'
<1>1. PICK d, c : d = slot[s].ds /\ c = CallOn("shutdown_done", s, h)
  OBVIOUS
<1>2. /\ Idle \/ At("app")
      /\ ~closed /\ slot[s].kind = "WT" /\ h /= {} /\ h \subseteq LiveHalves(slot[s])
      /\ WireShut(d, h)
      /\ IF "recv" \in h THEN Hear(s, "app_stop") ELSE UNCHANGED heard
      /\ Enter(<<App, c>>) \/ Enter(<<App, Call("conn_fatal")>>)
      /\ UNCHANGED <<connVars, slot, gens, ectx, dgen>>
  BY <1>1 DEF WtShutdown, AppMay
<1>3. slot[s].kind \in InUse
  BY <1>2 DEF InUse
<1>4. /\ c \in Frame /\ Light(c) /\ c.op = "shutdown_done" /\ c.s = s
      /\ c.g = slot[s].gen /\ c.d = d /\ c.x = h
  BY <1>1, <1>3, SlotCalls
<1>5. /\ sess' = sess /\ closed' = closed /\ slot' = slot /\ ectx' = ectx
      /\ slot'[s] = slot[s]
  BY <1>2 DEF connVars
<1>6. /\ d \in DStreams /\ ectx[d] = s
      /\ \A b \in DStreams \ {d} :
           /\ tx'[b] = tx[b] /\ rx'[b] = rx[b]
           /\ gone'[b] = gone[b] /\ held'[b] = held[b]
      /\ gone'[d] = gone[d]
      /\ tx'[d] = IF "send" \in h THEN "ended" ELSE tx[d]
      /\ rx'[d] = IF "recv" \in h /\ rx[d] = "open" THEN "stopped" ELSE rx[d]
      /\ "recv" \in h => ~held'[d]
      /\ ObjectOK(d)' /\ PoolBound'
  BY <1>1, <1>2, <1>5, ShutWire
<1>7. /\ "send" \in h => slot[s].send \/ slot[s].fin
      /\ "recv" \in h => slot[s].recv
      /\ LiveHalves(slot[s]) /= {}
  BY <1>2 DEF LiveHalves
<1>8. Lives(s) /\ SlotOK(s)
  BY <1>2 DEF Agreed, SlotOK
<1>9. /\ \A t \in Slots \ {s} : heard'[t] = heard[t]
      /\ heard'[s] = heard[s] \cup (IF "recv" \in h THEN {"app_stop"} ELSE {})
  <2>1. CASE "recv" \in h
    <3>1. ~Late(s, "app_stop")
      BY DEF Late
    <3> QED BY <1>2, <2>1, <3>1 DEF Hear, IInv, TypeOK
  <2>2. CASE "recv" \notin h
    BY <1>2, <2>2
  <2> QED BY <2>1, <2>2
<1>10. PICK a, q : a = App /\ q = Call("conn_fatal")
  OBVIOUS
<1>11. /\ a \in Frame /\ q \in Frame /\ Light(a) /\ Light(q)
       /\ a.op = "app" /\ q.op = "conn_fatal"
       /\ a.s \notin Slots /\ q.s \notin Slots
  BY <1>10, PlainCalls, SlotAssumption
<1>12. PICK r \in {c, q} : Enter(<<a, r>>)
  BY <1>2, <1>10
<1>13. r \in Frame /\ Light(r) /\ r.op \in {"conn_fatal", "shutdown_done"}
  BY <1>4, <1>11, <1>12
<1>14. /\ <<a, r>> \in Seq(Frame) /\ Stacked(<<a, r>>)
       /\ Waiting(<<a, r>>) = {a, r}
  <2>1. Above(a, r)
    BY <1>11, <1>13, PlainAbove
  <2> QED BY <1>11, <1>13, <2>1, ListOfTwo
<1>15. /\ Stacked(agenda)' /\ InputReady' /\ (Fatal => Fatal')
       /\ \A t \in Slots : DuesKept(t)
       /\ Waiting(agenda)' = {a, r} \cup Waiting(agenda)
  BY <1>2, <1>5, <1>11, <1>12, <1>13, <1>14, EnterSteady
<1>16. Steady
  BY <1>5, <1>6, <1>15 DEF Steady
<1>17. Fatal' \/ r = c
  BY <1>11, <1>12, <1>15 DEF Fatal
<1>18. r = c => \A x \in h : Ends(s, x)'
  BY <1>4, <1>5, <1>15 DEF Ends, Shuts, Own
<1>19. SendSide(s)'
  BY <1>1, <1>2, <1>5, <1>6, <1>8, <1>15, <1>16, <1>17, <1>18
     DEF Lives, SendSide, Steady, DuesKept, Halves
<1>20. RecvSide(s)'
  BY <1>1, <1>2, <1>5, <1>6, <1>7, <1>8, <1>15, <1>16, <1>17, <1>18
     DEF Lives, RecvSide, Shape, Steady, DuesKept, Halves
<1>21. Told(s)'
  BY <1>1, <1>5, <1>6, <1>8, <1>9 DEF Lives, Told
<1>22. Lives(s)'
  <2>1. ~Done(slot[s])
    BY <1>7 DEF Done, LiveHalves, Halves
  <2>2. (sess = "ended" /\ LiveHalves(slot[s]) /= {})
          => (TornDue(s) \/ TeardownDue(s))'
    BY <1>2, <1>8, <1>15 DEF Lives, DuesKept
  <2> QED BY <1>5, <1>8, <1>19, <1>20, <1>21, <2>1, <2>2 DEF Lives
<1>23. SlotOK(s)'
  BY <1>2, <1>5, <1>8, <1>9, <1>22 DEF SlotOK
<1>24. ASSUME NEW f \in Waiting(agenda), f.s = s PROVE Owes(f)'
  <2>1. /\ FinDue(s) => FinDue(s)'
        /\ ReleaseDue(s) => ReleaseDue(s)'
    BY <1>2, <1>15 DEF DuesKept
  <2> QED BY <1>1, <1>2, <1>5, <1>16, <1>24, <2>1, ShutOwes
<1>25. Owes(r)'
  <2>1. CASE r = q
    BY <1>11, <2>1, PlainOwes
  <2>2. CASE r = c
    <3>1. OpenOwes(c)' /\ TornOwes(c)'
      BY <1>4 DEF OpenOwes, TornOwes
    <3>2. ForStream(c)'
      BY <1>1, <1>4, <1>5 DEF ForStream, IInv, TypeOK, Estream
    <3>3. "recv" \in h => ~slot[s].local \/ slot[s].bidi
      BY <1>7, <1>8 DEF Lives, Shape
    <3>4. ("recv" \in h /\ ~Fatal')
             => (rx'[d] = "stopped" \/ (rx'[d] = "ended" /\ FinDue(s)'))
      BY <1>1, <1>5, <1>6, <1>7, <1>20 DEF RecvSide
    <3>5. StreamOwes(c)'
      BY <1>1, <1>2, <1>4, <1>5, <1>6, <3>3, <3>4
         DEF StreamOwes, SendsFin, Shuts
    <3> QED BY <1>4, <2>2, <3>1, <3>2, <3>5 DEF Owes
  <2> QED BY <1>12, <2>1, <2>2
<1>26. Owes(a)'
  BY <1>11, PlainOwes
<1>27. Elsewhere(s, d)
  BY <1>1, <1>3, <1>5, <1>6, <1>9, Alone DEF Elsewhere
<1> QED BY <1>1, <1>6, <1>15, <1>16, <1>23, <1>24, <1>25, <1>26, <1>27,
           OneTouched

(* The application asks for the outcome of its send.                       *)
LEMMA EnableSendCommitAgrees ==
    ASSUME IInv, IInv', Agreed, NEW s \in Slots, EnableSendCommit(s)
    PROVE  Agreed'
<1>1. PICK d, e : d = slot[s].ds /\ e = [slot[s] EXCEPT !.commit = TRUE]
  OBVIOUS
<1>2. /\ Idle \/ At("app")
      /\ slot[s].kind = "WT" /\ slot[s].local /\ ~slot[s].bidi /\ slot[s].send
      /\ slot' = [slot EXCEPT ![s] = e]
      /\ UNCHANGED <<connVars, gens, ectx, dgen, wire, agenda, heard>>
  BY <1>1 DEF EnableSendCommit, AppMay
<1>3. /\ e \in Estream /\ SameUse(e, slot[s])
      /\ e.send = slot[s].send /\ e.fin = slot[s].fin
      /\ e.recv = slot[s].recv
      /\ e.drain = slot[s].drain /\ e.paused = slot[s].paused
      /\ e.commit /\ e.local = slot[s].local /\ e.bidi = slot[s].bidi
  <2>1. slot[s] \in Estream
    BY DEF IInv, TypeOK
  <2>2. e \in Estream
    BY <1>1, <2>1 DEF Estream
  <2>3. /\ e.send = slot[s].send /\ e.fin = slot[s].fin
        /\ e.recv = slot[s].recv
        /\ e.drain = slot[s].drain /\ e.paused = slot[s].paused
        /\ e.commit = TRUE /\ e.local = slot[s].local /\ e.bidi = slot[s].bidi
        /\ e.kind = slot[s].kind /\ e.ds = slot[s].ds /\ e.gen = slot[s].gen
        /\ e.resident = slot[s].resident
    BY <1>1, <2>1 DEF Estream
  <2> QED BY <2>2, <2>3 DEF SameUse
<1>4. /\ slot'[s] = e /\ slot'[s].kind = "WT" /\ slot'[s].ds = d
      /\ slot'[s].gen = slot[s].gen
      /\ \A t \in Slots \ {s} : slot'[t] = slot[t]
  BY <1>1, <1>2, <1>3 DEF IInv, TypeOK, SameUse
<1>5. /\ d \in DStreams /\ ectx[d] = s /\ ObjectOK(d) /\ Lives(s) /\ SlotOK(s)
      /\ slot[s].kind \in InUse
  BY <1>1, <1>2, Alone DEF Agreed, SlotOK, InUse
<1>6. /\ Stacked(agenda)' /\ InputReady'
      /\ Fatal => Fatal'
      /\ \A t \in Slots : DuesKept(t)
      /\ Waiting(agenda)' = Waiting(agenda)
  <2>1. \A t \in Slots : slot'[t].gen = slot[t].gen
    BY <1>4
  <2> QED BY <1>2, <2>1, StaysSteady DEF connVars
<1>7. Steady
  BY <1>2, <1>6 DEF Steady, connVars, wire
<1>8. /\ tx'[d] = tx[d] /\ rx'[d] = rx[d] /\ gone'[d] = gone[d]
      /\ held'[d] = held[d] /\ heard'[s] = heard[s] /\ sess' = sess
      /\ closed' = closed /\ ectx' = ectx
  BY <1>2 DEF wire, connVars
<1>9. Lives(s)'
  <2>1. SendSide(s)'
    BY <1>1, <1>2, <1>3, <1>4, <1>5, <1>6, <1>7, <1>8
       DEF Lives, SendSide, Steady, DuesKept, Halves
  <2>2. RecvSide(s)'
    BY <1>1, <1>2, <1>3, <1>4, <1>5, <1>6, <1>7, <1>8
       DEF Lives, RecvSide, Steady, DuesKept, Halves
  <2>3. LiveHalves(e) = LiveHalves(slot[s])
    BY <1>3 DEF LiveHalves
  <2>4. Told(s)'
    BY <1>1, <1>3, <1>4, <1>5, <1>8, <2>3 DEF Lives, Told
  <2>5. Shape(slot'[s])
    BY <1>2, <1>3, <1>4, <1>5 DEF Lives, Shape
  <2>6. ~Done(slot'[s])
    BY <1>2, <1>3, <1>4 DEF Done
  <2>7. (sess = "ended" /\ LiveHalves(e) /= {})
          => (TornDue(s) \/ TeardownDue(s))'
    BY <1>2, <1>5, <1>6, <2>3 DEF Lives, DuesKept
  <2> QED BY <1>4, <1>8, <2>1, <2>2, <2>4, <2>5, <2>6, <2>7 DEF Lives
<1>10. SlotOK(s)'
  BY <1>2, <1>3, <1>4, <1>5, <1>8, <1>9 DEF SlotOK, SameUse, InUse
<1>11. ObjectOK(d)'
  BY <1>3, <1>4, <1>5, <1>8 DEF ObjectOK
<1>12. ASSUME NEW f \in Waiting(agenda), f.s = s PROVE Owes(f)'
  <2>1. f \in Frame /\ Owes(f) /\ f.op /= "wt_open"
    BY <1>5, <1>12, Waiters, NoOpenInUse
  <2>2. OpenOwes(f)' /\ ForStream(f)'
    BY <1>1, <1>2, <1>4, <1>12, <2>1 DEF Owes, OpenOwes, ForStream, Own
  <2>3. StreamOwes(f)'
    <3>1. FinDue(s) => FinDue(s)'
      BY <1>2, <1>6 DEF DuesKept
    <3> QED BY <1>1, <1>2, <1>3, <1>4, <1>7, <1>8, <1>12, <2>1, <3>1
            DEF Owes, StreamOwes, Own, Steady
  <2>4. TornOwes(f)'
    BY <1>1, <1>2, <1>3, <1>4, <1>7, <1>8, <1>12, <2>1 DEF Owes, TornOwes, Steady
  <2>5. f.op /= "terminal"
    BY <1>12, <2>1, SlotAssumption DEF Frame, StreamOps, SlotOps, PlainOps
  <2> QED BY <2>2, <2>3, <2>4, <2>5 DEF Owes
<1>13. OnlyObject(d) /\ heard' = heard
  BY <1>2 DEF OnlyObject, wire
<1> QED BY <1>1, <1>2, <1>3, <1>5, <1>6, <1>7, <1>8, <1>10, <1>11, <1>12,
           <1>13, Rewritten

(* Lists of at most one call, joined.                                      *)
LEMMA Joined ==
    ASSUME NEW f \in Frame, NEW t \in Frame
    PROVE  /\ <<f>> \o <<t>> = <<f, t>> /\ <<f>> \o <<>> = <<f>>
           /\ <<>> \o <<t>> = <<t>> /\ <<>> \o <<>> = <<>>
<1>1. /\ <<f>> \in Seq(Frame) /\ <<t>> \in Seq(Frame)
      /\ <<f, t>> \in Seq(Frame) /\ <<>> \in Seq(Frame)
  BY Lists
<1>2. /\ <<f>> \o <<>> = <<f>> /\ <<>> \o <<t>> = <<t>> /\ <<>> \o <<>> = <<>>
  BY <1>1, ConcatEmptySeq
<1>3. <<f>> \o <<t>> = <<f, t>>
  <2>1. /\ <<f>> \o <<t>> \in Seq(Frame) /\ Len(<<f>> \o <<t>>) = 2
        /\ (<<f>> \o <<t>>)[1] = f /\ (<<f>> \o <<t>>)[2] = t
    BY <1>1, ConcatProperties
  <2>2. \A i \in 1..2 : (<<f>> \o <<t>>)[i] = <<f, t>>[i]
    <3>1. ASSUME NEW i \in 1..2 PROVE i = 1 \/ i = 2
      OBVIOUS
    <3> QED BY <2>1, <3>1
  <2>3. Len(<<f, t>>) = 2
    OBVIOUS
  <2> QED BY <1>1, <2>1, <2>2, <2>3, SeqEqual
<1> QED BY <1>2, <1>3

(* The calls that a resume makes.                                          *)
LEMMA ResumeCalls ==
    ASSUME NEW f \in Frame, NEW t \in Frame, Above(f, t), f /= t,
           NEW c, c \in {<<>>, <<f>>, <<t>>, <<f, t>>}
    PROVE  /\ c \in Seq(Frame) /\ Stacked(c) /\ Waiting(c) \subseteq {f, t}
           /\ f \in Waiting(c) => c \in {<<f>>, <<f, t>>}
           /\ t \in Waiting(c) => c \in {<<t>>, <<f, t>>}
<1>1. CASE c = <<f, t>>
  <2>1. c \in Seq(Frame) /\ Stacked(c) /\ Waiting(c) = {f, t}
    BY <1>1, ListOfTwo
  <2> QED BY <1>1, <2>1
<1>2. CASE c = <<f>>
  <2>1. c \in Seq(Frame) /\ Stacked(c) /\ Waiting(c) = {f}
    BY <1>2, Lists, ShortStacks, WaitingLists
  <2> QED BY <1>2, <2>1
<1>3. CASE c = <<t>>
  <2>1. c \in Seq(Frame) /\ Stacked(c) /\ Waiting(c) = {t}
    BY <1>3, Lists, ShortStacks, WaitingLists
  <2> QED BY <1>3, <2>1
<1>4. CASE c = <<>>
  <2>1. c \in Seq(Frame) /\ Stacked(c) /\ Waiting(c) = {}
    BY <1>4, Lists, ShortStacks, WaitingLists
  <2> QED BY <2>1
<1> QED BY <1>1, <1>2, <1>3, <1>4

(* The running call waits on the stack.                                    *)
LEMMA HeadWaits ==
    ASSUME IInv', agenda' /= <<>>
    PROVE  Head(agenda') \in Waiting(agenda)'
<1>1. agenda' \in Seq(Frame)
  BY DEF IInv, TypeOK
<1>2. Head(agenda') = agenda'[1] /\ 1 \in 1..Len(agenda')
  BY <1>1, TailFacts
<1> QED BY <1>1, <1>2, WaitingPlaces

(* Receive is paused, or resumed: then the backend replays a FIN that it   *)
(* The two sides of a stream whose halves a step does not touch.           *)
LEMMA SidesStay ==
    ASSUME NEW s, NEW d, d = slot[s].ds, d = slot'[s].ds,
           slot'[s].send = slot[s].send, slot'[s].fin = slot[s].fin,
           slot'[s].recv = slot[s].recv, slot'[s].drain = slot[s].drain,
           tx'[d] = tx[d], rx'[d] = rx[d], gone'[d] = gone[d],
           Fatal => Fatal', SendSide(s), RecvSide(s),
           FinSent(s) => FinSent(s)', FinDue(s) => FinDue(s)',
           \A h \in Halves : Ends(s, h) => Ends(s, h)'
    PROVE  SendSide(s)' /\ RecvSide(s)'
<1>1. (Ends(s, "send") => Ends(s, "send")') /\ (Ends(s, "recv") => Ends(s, "recv")')
  BY DEF Halves
<1>2. SendSide(s)'
  BY <1>1 DEF SendSide
<1>3. RecvSide(s)'
  BY <1>1 DEF RecvSide
<1> QED BY <1>2, <1>3

(* held back, and the stream's end.                                        *)
LEMMA RecvEnableAgrees ==
    ASSUME IInv, IInv', Agreed, NEW s \in Slots, NEW on \in BOOLEAN,
           RecvEnable(s, on)
    PROVE  Agreed'
<1>1. PICK d, e, f, t, c :
        /\ d = slot[s].ds /\ e = [slot[s] EXCEPT !.paused = ~on]
        /\ f = CallFor("input_fin", d) /\ t = CallFor("terminal", d)
        /\ c = (IF on /\ held[d] THEN <<f>> ELSE <<>>)
                 \o (IF on /\ gone[d] THEN <<t>> ELSE <<>>)
  OBVIOUS
<1>2. /\ Idle \/ At("app")
      /\ ~closed /\ slot[s].kind = "WT" /\ slot[s].recv
      /\ slot' = [slot EXCEPT ![s] = e]
      /\ held' = [held EXCEPT ![d] = @ /\ ~on]
      /\ Enter(c)
      /\ UNCHANGED <<connVars, gens, ectx, dgen, tx, rx, gone, heard>>
  BY <1>1 DEF RecvEnable, AppMay
<1>3. slot[s] \in Estream
  BY DEF IInv, TypeOK
<1>4. /\ e \in Estream /\ SameUse(e, slot[s])
      /\ e.send = slot[s].send /\ e.fin = slot[s].fin
      /\ e.recv = slot[s].recv
      /\ e.drain = slot[s].drain /\ e.paused = ~on
      /\ e.commit = slot[s].commit /\ e.local = slot[s].local
      /\ e.bidi = slot[s].bidi
  <2>1. e \in Estream
    BY <1>1, <1>3 DEF Estream
  <2>2. /\ e.send = slot[s].send /\ e.fin = slot[s].fin
        /\ e.recv = slot[s].recv
        /\ e.drain = slot[s].drain /\ e.paused = ~on
        /\ e.commit = slot[s].commit /\ e.local = slot[s].local
        /\ e.bidi = slot[s].bidi
        /\ e.kind = slot[s].kind /\ e.ds = slot[s].ds /\ e.gen = slot[s].gen
        /\ e.resident = slot[s].resident
    BY <1>1, <1>3 DEF Estream
  <2> QED BY <2>1, <2>2 DEF SameUse
<1>5. /\ slot'[s] = e /\ slot'[s].kind = "WT" /\ slot'[s].ds = d
      /\ slot'[s].gen = slot[s].gen
      /\ \A u \in Slots \ {s} : slot'[u] = slot[u]
      /\ slot'[s].recv /\ (slot'[s].paused <=> ~on)
  BY <1>1, <1>2, <1>4 DEF IInv, TypeOK, SameUse
<1>6. /\ d \in DStreams /\ ectx[d] = s /\ ObjectOK(d) /\ Lives(s) /\ SlotOK(s)
      /\ slot[s].kind \in InUse
  BY <1>1, <1>2, Alone DEF Agreed, SlotOK, InUse
<1>7. /\ f \in Frame /\ f.op = "input_fin" /\ f.s = NoSlot /\ f.d = d
      /\ t \in Frame /\ t.op = "terminal" /\ t.s = NoSlot /\ t.d = d
  BY <1>1, <1>6 DEF CallFor, Frame, StreamOps
<1>8. f /= t
  BY <1>7
<1>9. Above(f, t)
  BY <1>7, SlotAssumption DEF Above
<1>10. /\ c \in Seq(Frame) /\ Stacked(c) /\ Waiting(c) \subseteq {f, t}
       /\ f \in Waiting(c) => on /\ held[d]
       /\ t \in Waiting(c) => gone[d]
  <2>1. /\ <<f>> \o <<t>> = <<f, t>> /\ <<f>> \o <<>> = <<f>>
        /\ <<>> \o <<t>> = <<t>> /\ <<>> \o <<>> = <<>>
    BY <1>7, Joined
  <2>2. \/ c = <<f, t>> /\ on /\ held[d] /\ gone[d]
        \/ c = <<f>> /\ on /\ held[d]
        \/ c = <<t>> /\ gone[d]
        \/ c = <<>>
    <3>1. CASE (on /\ held[d]) /\ (on /\ gone[d])
      BY <1>1, <2>1, <3>1
    <3>2. CASE (on /\ held[d]) /\ ~(on /\ gone[d])
      BY <1>1, <2>1, <3>2
    <3>3. CASE ~(on /\ held[d]) /\ (on /\ gone[d])
      BY <1>1, <2>1, <3>3
    <3>4. CASE ~(on /\ held[d]) /\ ~(on /\ gone[d])
      BY <1>1, <2>1, <3>4
    <3> QED BY <3>1, <3>2, <3>3, <3>4
  <2>3. c \in {<<>>, <<f>>, <<t>>, <<f, t>>}
    BY <2>2
  <2>4. /\ c \in Seq(Frame) /\ Stacked(c) /\ Waiting(c) \subseteq {f, t}
        /\ f \in Waiting(c) => c \in {<<f>>, <<f, t>>}
        /\ t \in Waiting(c) => c \in {<<t>>, <<f, t>>}
    BY <1>7, <1>8, <1>9, <2>3, ResumeCalls
  <2>5. <<f>> /= <<t>> /\ <<f>> /= <<>> /\ <<t>> /= <<>>
    BY <1>8
  <2>6. <<f, t>> /= <<f>> /\ <<f, t>> /= <<t>> /\ <<f, t>> /= <<>>
    <3>1. /\ Len(<<f, t>>) = 2 /\ Len(<<f>>) = 1 /\ Len(<<t>>) = 1
          /\ Len(<<>>) = 0
      OBVIOUS
    <3> QED BY <3>1
  <2> QED BY <2>2, <2>4, <2>5, <2>6
<1>11. \A r \in Waiting(c), g \in Waiting(agenda) : Above(r, g)
  <2> SUFFICES ASSUME NEW r \in {f, t}, NEW g \in Waiting(agenda)
               PROVE  Above(r, g)
    BY <1>10
  <2>1. g.op \notin {"input", "input_fin"}
    BY <1>2, NoInputs
  <2> QED BY <1>7, <2>1, SlotAssumption DEF Above
<1>12. /\ Stacked(agenda)' /\ (Fatal => Fatal')
       /\ \A u \in Slots : DuesKept(u)
       /\ Waiting(agenda)' = Waiting(c) \cup Waiting(agenda)
  <2>1. \A u \in Slots : slot'[u].gen = slot[u].gen
    BY <1>5
  <2> QED BY <1>2, <1>10, <1>11, <2>1, EnterAbove DEF connVars
<1>13. /\ tx'[d] = tx[d] /\ rx'[d] = rx[d] /\ gone'[d] = gone[d]
       /\ held'[d] <=> held[d] /\ ~on
       /\ heard'[s] = heard[s] /\ sess' = sess
       /\ closed' = closed /\ ectx' = ectx /\ heard' = heard
  BY <1>2, <1>6 DEF connVars, IInv, TypeOK
<1>14. InputReady'
  <2>1. CASE ~(At("input") \/ At("input_fin"))'
    BY <2>1 DEF InputReady
  <2>2. CASE (At("input") \/ At("input_fin"))'
    <3>1. agenda' /= <<>> /\ Head(agenda').op \in {"input", "input_fin"}
      BY <2>2 DEF At
    <3>2. Head(agenda') \in Waiting(agenda)'
      BY <3>1, HeadWaits
    <3>3. Head(agenda') = f /\ f \in Waiting(c)
      <4>1. Head(agenda') \notin Waiting(agenda)
        BY <1>2, <3>1, NoInputs
      <4> QED BY <1>7, <1>10, <1>12, <3>1, <3>2, <4>1
    <3>4. on /\ held[d] /\ rx[d] = "open"
      BY <1>2, <1>6, <1>10, <3>3 DEF ObjectOK
    <3>5. This' = f
      BY <3>3 DEF This
    <3>6. (This.d)' = d /\ ectx'[d] = s
      BY <1>6, <1>7, <1>13, <3>5
    <3>7. slot'[s].recv /\ ~slot'[s].paused /\ rx'[d] = "open"
      BY <1>5, <1>13, <3>4
    <3> QED BY <3>6, <3>7 DEF InputReady
  <2> QED BY <2>1, <2>2
<1>15. Steady
  BY <1>2, <1>12 DEF Steady, connVars
<1>16. Lives(s)'
  <2>1. /\ FinSent(s) => FinSent(s)'
        /\ FinDue(s) => FinDue(s)'
        /\ \A h \in Halves : Ends(s, h) => Ends(s, h)'
    BY <1>2, <1>12 DEF DuesKept
  <2>2. SendSide(s)' /\ RecvSide(s)'
    <3>1. SendSide(s) /\ RecvSide(s)
      BY <1>6 DEF Lives
    <3>2. /\ slot'[s].send = slot[s].send /\ slot'[s].fin = slot[s].fin
          /\ slot'[s].recv = slot[s].recv /\ slot'[s].drain = slot[s].drain
          /\ d = slot[s].ds /\ d = slot'[s].ds
      BY <1>1, <1>4, <1>5
    <3> QED BY <1>12, <1>13, <2>1, <3>1, <3>2, SidesStay
  <2>3. LiveHalves(e) = LiveHalves(slot[s])
    BY <1>4 DEF LiveHalves
  <2>4. Told(s)'
    <3>1. Told(s)
      BY <1>6 DEF Lives
    <3>2. /\ slot'[s].send = slot[s].send /\ slot'[s].fin = slot[s].fin
          /\ slot'[s].recv = slot[s].recv
          /\ d = slot[s].ds /\ d = slot'[s].ds
          /\ LiveHalves(slot'[s]) = LiveHalves(slot[s])
      BY <1>1, <1>4, <1>5, <2>3
    <3> QED BY <1>13, <3>1, <3>2 DEF Told
  <2>5. Shape(slot'[s])
    BY <1>4, <1>5, <1>6 DEF Lives, Shape
  <2>6. ~Done(slot'[s])
    BY <1>2, <1>4, <1>5 DEF Done
  <2>7. (sess = "ended" /\ LiveHalves(e) /= {})
          => (TornDue(s) \/ TeardownDue(s))'
    BY <1>2, <1>6, <1>12, <2>3 DEF Lives, DuesKept
  <2> QED BY <1>5, <1>13, <2>2, <2>4, <2>5, <2>6, <2>7 DEF Lives
<1>17. SlotOK(s)'
  BY <1>2, <1>4, <1>5, <1>6, <1>13, <1>16 DEF SlotOK, SameUse, InUse
<1>18. ObjectOK(d)'
  BY <1>2, <1>4, <1>5, <1>6, <1>13 DEF ObjectOK
<1>19. /\ FinDue(s) => FinDue(s)'
       /\ ReleaseDue(s) => ReleaseDue(s)'
  BY <1>2, <1>12 DEF DuesKept
<1>20. ASSUME NEW g \in Waiting(agenda), g.s = s PROVE Owes(g)'
  <2>1. g \in Waiting(agenda)'
    BY <1>12
  <2>2. /\ SameUse(slot'[s], slot[s]) /\ slot'[s].commit = slot[s].commit
        /\ slot'[s].local = slot[s].local /\ slot'[s].bidi = slot[s].bidi
        /\ slot'[s].send = slot[s].send /\ slot'[s].recv = slot[s].recv
    BY <1>4, <1>5
  <2>3. d = slot[s].ds /\ slot[s].kind = "WT"
    BY <1>1, <1>2
  <2> QED BY <1>13, <1>15, <1>19, <1>20, <2>1, <2>2, <2>3, EndingOwes
<1>21. ASSUME NEW g \in Waiting(c) PROVE Owes(g)'
  <2>1. CASE g = f
    BY <1>7, <2>1, PlainOwes
  <2>2. CASE g = t
    BY <1>7, <1>10, <1>13, <1>21, <2>2
       DEF Owes, OpenOwes, ForStream, StreamOwes, TornOwes, SlotOps
  <2> QED BY <1>10, <2>1, <2>2
<1>22. OnlyObject(d)
  BY <1>2, <1>6 DEF OnlyObject, IInv, TypeOK
<1>23. \A g \in Waiting(agenda)' : (g \in Waiting(agenda) /\ g.s /= s) \/ Owes(g)'
  BY <1>12, <1>20, <1>21
<1> QED BY <1>1, <1>2, <1>4, <1>6, <1>12, <1>13, <1>14, <1>15, <1>17, <1>18,
           <1>22, <1>23, Rewritten

-----------------------------------------------------------------------------
(* Stream data, with a FIN or without.                                     *)

(* Nothing waits below an input that came from the backend.                *)
LEMMA NothingBelow ==
    ASSUME IInv, Agreed, agenda /= <<>>,
           This.op \in {"input", "more"} \/ Len(agenda) = 1
    PROVE  Waiting(Tail(agenda)) = {}
<1>1. agenda \in Seq(Frame) /\ Stacked(agenda)
  BY DEF IInv, TypeOK, Agreed
<1>2. CASE This.op \in {"input", "more"}
  BY <1>1, <1>2, WaitingTail DEF Above, This
<1>3. CASE Len(agenda) = 1
  <2>1. Len(Tail(agenda)) = 0
    BY <1>1, <1>3, TailFacts
  <2>2. 1..Len(Tail(agenda)) = {}
    <3>1. 1..0 = {}
      OBVIOUS
    <3> QED BY <2>1, <3>1
  <2>3. \A f : f \notin Waiting(Tail(agenda))
    BY <2>2, WaitingPlaces
  <2> QED BY <2>3
<1> QED BY <1>2, <1>3

(* A drain is answered, while nothing else waits.                          *)
LEMMA DrainAnswered ==
    ASSUME IInv, IInv', Agreed, Steady, NEW s \in Slots, slot[s].kind = "WT",
           slot[s].drain, NEW e, e = [slot[s] EXCEPT !.drain = FALSE],
           Settle(s, e), UNCHANGED <<connVars, heard>>,
           NEW d, d = slot[s].ds, OnlyObject(d), ~Fatal,
           rx[d] \in {"open", "stopped"}, ~gone[d], rx'[d] = "ended",
           tx'[d] = tx[d], gone'[d] = gone[d], held'[d] = held[d],
           \A t \in Slots : slot'[t].gen = slot[t].gen => DuesKept(t),
           ~FinDue(s), Stacked(agenda)', InputReady', Waiting(agenda)' = {}
    PROVE  Agreed'
<1>1. /\ e \in Estream /\ SameUse(e, slot[s])
      /\ e.send = slot[s].send /\ e.fin = slot[s].fin
      /\ e.recv = slot[s].recv /\ ~e.drain /\ e.paused = slot[s].paused
      /\ e.commit = slot[s].commit /\ e.local = slot[s].local
      /\ e.bidi = slot[s].bidi
  <2>1. slot[s] \in Estream
    BY DEF IInv, TypeOK
  <2>2. e \in Estream
    BY <2>1 DEF Estream
  <2>3. /\ e.send = slot[s].send /\ e.fin = slot[s].fin
        /\ e.recv = slot[s].recv /\ ~e.drain /\ e.paused = slot[s].paused
        /\ e.commit = slot[s].commit /\ e.local = slot[s].local
        /\ e.bidi = slot[s].bidi
        /\ e.kind = slot[s].kind /\ e.ds = slot[s].ds /\ e.gen = slot[s].gen
        /\ e.resident = slot[s].resident
    BY <2>1 DEF Estream
  <2> QED BY <2>2, <2>3 DEF SameUse
<1>2. /\ d \in DStreams /\ ectx[d] = s /\ ObjectOK(d) /\ Lives(s) /\ SlotOK(s)
      /\ slot[s].kind \in InUse
  BY Alone DEF Agreed, SlotOK, InUse
<1>3. ~slot[s].recv /\ ~closed
  BY <1>2 DEF Lives, Shape, Fatal
<1>4. rx[d] = "stopped" /\ ~held[d]
  BY <1>2, <1>3 DEF Lives, RecvSide, ObjectOK
<1>5. CASE Done(e)
  <2>1. ReleaseAs(s, e)
    BY <1>5 DEF Settle
  <2>2. \A t \in Slots \ {s} : slot'[t] = slot[t]
    BY <2>1 DEF ReleaseAs, IInv, TypeOK
  <2>3. \A t \in Slots \ {s} : DuesKept(t)
    BY <2>2
  <2> QED BY <1>1, <1>2, <1>4, <2>1, <2>3, Freed
<1>6. CASE ~Done(e)
  <2>1. /\ slot' = [slot EXCEPT ![s] = e] /\ ectx' = ectx
    BY <1>6 DEF Settle
  <2>2. /\ slot'[s] = e /\ slot'[s].kind = "WT" /\ slot'[s].ds = d
        /\ slot'[s].gen = slot[s].gen
        /\ \A t \in Slots \ {s} : slot'[t] = slot[t]
    BY <1>1, <2>1 DEF IInv, TypeOK, SameUse
  <2>3. DuesKept(s) /\ \A t \in Slots \ {s} : DuesKept(t)
    BY <2>2
  <2>4. SendSide(s)'
    BY <1>1, <1>2, <2>2, <2>3 DEF Lives, SendSide, DuesKept, Halves, Steady
  <2>5. RecvSide(s)'
    BY <1>1, <1>3, <2>2 DEF RecvSide
  <2>6. LiveHalves(e) = LiveHalves(slot[s])
    BY <1>1 DEF LiveHalves
  <2>7. Told(s)'
    BY <1>1, <1>2, <1>3, <2>2, <2>6 DEF Lives, Told
  <2>8. Shape(slot'[s])
    BY <1>1, <1>2, <2>2 DEF Lives, Shape
  <2>9. (sess = "ended" /\ LiveHalves(e) /= {})
          => (TornDue(s) \/ TeardownDue(s))'
    BY <1>2, <2>3, <2>6 DEF Lives, DuesKept
  <2>10. Lives(s)'
    BY <1>6, <2>2, <2>4, <2>5, <2>7, <2>8, <2>9 DEF Lives, connVars
  <2>11. SlotOK(s)'
    BY <1>1, <1>2, <2>2, <2>10 DEF SlotOK, SameUse, InUse, connVars
  <2>12. ObjectOK(d)'
    BY <1>2, <1>4 DEF ObjectOK
  <2> QED BY <1>1, <1>2, <2>1, <2>3, <2>11, <2>12, Rewritten
<1> QED BY <1>5, <1>6

(* wt_deliver: a callback, and the call behind it.                         *)
LEMMA DeliverAgrees ==
    ASSUME IInv, IInv', Agreed, agenda /= <<>>, ~closed,
           This.op \in {"input", "input_fin", "more"},
           NEW s \in Slots, slot[s].kind = "WT", NEW d, d = slot[s].ds,
           NEW fin \in BOOLEAN, fin \/ This.op \in {"input", "more"},
           rx[d] = "open", slot[s].recv, ~slot[s].drain, ~slot[s].paused,
           rx' = IF fin THEN [rx EXCEPT ![d] = "ended"] ELSE rx,
           held' = [held EXCEPT ![d] = @ /\ ~fin],
           Deliver(s, IF fin THEN "fin" ELSE "data"),
           UNCHANGED <<connVars, slot, gens, ectx, dgen, tx, gone>>
    PROVE  Agreed'
<1>1. PICK cb, op, a, c :
        /\ cb = (IF fin THEN "fin" ELSE "data")
        /\ op = (IF fin THEN "fin_delivered" ELSE "more")
        /\ a = App /\ c = CallOn(op, s, {})
  OBVIOUS
<1>2. Hear(s, cb) /\ Then(<<a, c>>)
  BY <1>1 DEF Deliver
<1>3. /\ c \in Frame /\ c.op = op /\ c.s = s /\ c.g = slot[s].gen
      /\ c.d = d /\ c.x = {}
  <2>1. c \in Frame
    BY <1>1, SlotFrames DEF IInv, TypeOK, SlotOps, Pushables
  <2> QED BY <1>1, <2>1 DEF CallOn
<1>4. /\ a \in Frame /\ a.op = "app" /\ a.s \notin Slots
  BY <1>1, PlainCalls, SlotAssumption
<1>5. /\ d \in DStreams /\ ectx[d] = s /\ ObjectOK(d) /\ Lives(s) /\ SlotOK(s)
      /\ slot[s].kind \in InUse
  BY Alone DEF Agreed, SlotOK, InUse
<1>6. /\ <<a, c>> \in Seq(Frame) /\ Stacked(<<a, c>>)
      /\ Waiting(<<a, c>>) = {a, c}
  <2>1. Above(a, c)
    BY <1>1, <1>3, <1>4, PlainAbove
  <2> QED BY <1>3, <1>4, <2>1, ListOfTwo
<1>7. /\ Waiting(agenda)' = {a, c} \cup Waiting(Tail(agenda))
      /\ Waiting(agenda) = {This} \cup Waiting(Tail(agenda))
      /\ This \in Frame
      /\ \A g \in Waiting(Tail(agenda)) : Above(This, g)
      /\ (\A f \in {a, c}, g \in Waiting(Tail(agenda)) : Above(f, g))
            => Stacked(agenda)'
  BY <1>2, <1>6, Popped
<1>8. ASSUME NEW g \in Waiting(Tail(agenda)), g.s = s, Own(g, s)
      PROVE  ~Shuts(g, "recv") /\ g.op /= "fin_delivered"
  <2>1. Owes(g) /\ g \in Frame
    BY <1>7, Waiters
  <2> QED BY <1>8, <2>1 DEF Owes, StreamOwes, Shuts, SlotOps
<1>9. ASSUME NEW g \in Waiting(Tail(agenda)) PROVE Above(a, g) /\ Above(c, g)
  <2>1. g.op \notin {"input", "input_fin"}
    BY <1>7 DEF Above
  <2>2. fin
    BY <1>9, NothingBelow
  <2>3. g.s = s => g.op /= "wt_open"
    BY <1>5, <1>7, NoOpenInUse
  <2>4. (g.s = c.s /\ g.g = c.g) => ~Shuts(g, "recv")
    BY <1>3, <1>8 DEF Own
  <2>5. c.op = "fin_delivered"
    BY <1>1, <1>3, <2>2
  <2>6. Above(c, g)
    BY <1>3, <2>1, <2>3, <2>4, <2>5 DEF Above, SendsFin
  <2> QED BY <1>4, <2>1, <2>6, PlainAbove
<1>10. Stacked(agenda)'
  BY <1>7, <1>9
<1>11. c.op \in {"fin_delivered", "more"}
  BY <1>1, <1>3
<1>12. InputReady'
  BY <1>4, <1>7, <1>11, TopWaits DEF InputReady, Above
<1>13. Fatal => Fatal'
  BY <1>7, FatalStays DEF connVars
<1>14. ASSUME NEW t \in Slots PROVE DuesKept(t)
  <2>1. Idler(This, t)
    <3>1. CASE This.op = "more"
      BY <3>1 DEF Idler
    <3>2. CASE This.op /= "more"
      BY <1>7, <3>2, PlainIdles DEF StreamOps
    <3> QED BY <3>1, <3>2
  <2> QED BY <1>7, <2>1, DuesStay
<1>15. Steady
  BY <1>13 DEF Steady, connVars
<1>16. /\ rx'[d] = (IF fin THEN "ended" ELSE "open")
       /\ tx'[d] = tx[d] /\ gone'[d] = gone[d]
       /\ held'[d] <=> held[d] /\ ~fin
       /\ sess' = sess /\ closed' = closed /\ ectx' = ectx /\ slot' = slot
       /\ slot'[s] = slot[s]
       /\ \A b \in DStreams \ {d} : rx'[b] = rx[b] /\ held'[b] = held[b]
  BY <1>5 DEF connVars, IInv, TypeOK
<1>17. /\ \A t \in Slots \ {s} : heard'[t] = heard[t]
       /\ heard'[s] = heard[s] \cup (IF fin THEN {"fin"} ELSE {})
  <2>1. LiveHalves(slot[s]) /= {}
    BY DEF LiveHalves, Halves
  <2>2. heard[s] \cap {"fin", "reset", "terminal", "app_stop", "session"} = {}
    BY <1>5, <2>1 DEF Lives, Told
  <2>3. cb \in {"data", "fin"}
    BY <1>1
  <2>4. ~Late(s, cb)
    BY <2>2, <2>3 DEF Late
  <2>5. {cb} \ {"data"} = IF fin THEN {"fin"} ELSE {}
    BY <1>1
  <2>6. PICK m : m = {cb} \ {"data"}
    OBVIOUS
  <2>7. heard' = [heard EXCEPT ![s] = (@ \cup m) \cup {}]
    BY <1>2, <2>4, <2>6 DEF Hear
  <2>8. heard \in [Slots -> SUBSET Marks]
    BY DEF IInv, TypeOK
  <2>9. heard'[s] = heard[s] \cup m
    BY <2>7, <2>8
  <2>10. \A t \in Slots \ {s} : heard'[t] = heard[t]
    BY <2>7, <2>8
  <2> QED BY <2>5, <2>6, <2>9, <2>10
<1>18. fin => FinDue(s)'
  BY <1>1, <1>3, <1>7, <1>16 DEF FinDue, Own
<1>19. Lives(s)'
  <2>1. SendSide(s)'
    BY <1>5, <1>14, <1>15, <1>16 DEF Lives, SendSide, Steady, DuesKept, Halves
  <2>2. RecvSide(s)'
    BY <1>16, <1>18 DEF RecvSide
  <2>3. Told(s)'
    BY <1>5, <1>16, <1>17 DEF Lives, Told
  <2>4. ~Done(slot[s])
    BY DEF Done
  <2>5. (sess = "ended" /\ LiveHalves(slot[s]) /= {})
          => (TornDue(s) \/ TeardownDue(s))'
    BY <1>5, <1>14 DEF Lives, DuesKept
  <2> QED BY <1>5, <1>16, <2>1, <2>2, <2>3, <2>4, <2>5 DEF Lives
<1>20. SlotOK(s)'
  BY <1>5, <1>16, <1>17, <1>19 DEF SlotOK
<1>21. ObjectOK(d)'
  BY <1>5, <1>16 DEF ObjectOK
<1>22. PoolBound'
  BY <1>16 DEF Agreed, PoolBound
<1>23. ASSUME NEW f \in Waiting(Tail(agenda)), f.s = s PROVE Owes(f)'
  <2>1. f \in Frame /\ Owes(f) /\ f.op /= "wt_open"
    BY <1>5, <1>7, <1>23, Waiters, NoOpenInUse
  <2>2. OpenOwes(f)' /\ ForStream(f)'
    BY <1>16, <1>23, <2>1 DEF Owes, OpenOwes, ForStream, Own
  <2>3. StreamOwes(f)'
    <3>1. ReleaseDue(s) => ReleaseDue(s)'
      BY <1>14 DEF DuesKept
    <3> QED BY <1>8, <1>15, <1>16, <1>23, <2>1, <3>1
            DEF Owes, StreamOwes, Own, Steady
  <2>4. TornOwes(f)'
    BY <1>15, <1>16, <1>23, <2>1 DEF Owes, TornOwes, Steady
  <2>5. f.op /= "terminal"
    BY <1>23, <2>1, SlotAssumption DEF Frame, StreamOps, SlotOps, PlainOps
  <2> QED BY <2>2, <2>3, <2>4, <2>5 DEF Owes
<1>24. Owes(c)'
  <2>1. OpenOwes(c)' /\ TornOwes(c)' /\ c.op /= "terminal"
    BY <1>11 DEF OpenOwes, TornOwes
  <2>2. ForStream(c)'
    BY <1>3, <1>16 DEF ForStream, IInv, TypeOK, Estream
  <2>3. StreamOwes(c)'
    BY <1>1, <1>3, <1>11, <1>16 DEF StreamOwes, SendsFin, Shuts
  <2> QED BY <2>1, <2>2, <2>3 DEF Owes
<1>25. Owes(a)'
  BY <1>4, PlainOwes
<1>26. Elsewhere(s, d)
  BY <1>5, <1>16, <1>17, Alone DEF Elsewhere
<1>27. \A f \in Waiting(agenda)' : (f \in Waiting(agenda) /\ f.s /= s) \/ Owes(f)'
  BY <1>7, <1>23, <1>24, <1>25
<1> QED BY <1>5, <1>10, <1>12, <1>14, <1>15, <1>20, <1>21, <1>22, <1>26, <1>27,
           OneTouched

(* The input is over: nothing of the stream has changed but a held FIN.    *)
LEMMA HeldBack ==
    ASSUME IInv, IInv', Agreed, agenda /= <<>>, ~Fatal,
           This.op \in {"input", "input_fin", "more"},
           Waiting(Tail(agenda)) = {}, Then(<<>>),
           NEW s \in Slots, slot[s].kind = "WT", NEW d, d = slot[s].ds,
           ~gone[d], rx[d] \in {"open", "stopped"},
           slot[s].recv, slot[s].paused,
           NEW b \in BOOLEAN, held' = [held EXCEPT ![d] = @ \/ b],
           UNCHANGED <<connVars, slot, ectx, tx, rx, gone, heard>>
    PROVE  Agreed'
<1>1. /\ <<>> \in Seq(Frame) /\ Stacked(<<>>) /\ Waiting(<<>>) = {}
  BY Lists, ShortStacks, WaitingLists
<1>2. /\ Waiting(agenda)' = {} /\ Waiting(agenda) = {This} /\ This \in Frame
  BY <1>1, Popped
<1>3. ASSUME NEW t \in Slots PROVE Idler(This, t)
  <2>1. CASE This.op = "more"
    BY <2>1 DEF Idler
  <2>2. CASE This.op /= "more"
    BY <1>2, <2>2, PlainIdles DEF StreamOps
  <2> QED BY <2>1, <2>2
<1>4. /\ Stacked(agenda)' /\ InputReady' /\ (Fatal => Fatal')
      /\ \A t \in Slots : DuesKept(t)
  BY <1>1, <1>3, ThenSteady DEF connVars
<1>5. Steady
  BY <1>4 DEF Steady, connVars
<1>6. /\ d \in DStreams /\ ectx[d] = s /\ ObjectOK(d) /\ Lives(s) /\ SlotOK(s)
      /\ slot[s].kind \in InUse
  BY Alone DEF Agreed, SlotOK, InUse
<1>7. rx[d] = "open"
  <2>1. ~Ends(s, "recv")
    BY <1>2 DEF Ends, TornDue, Shuts
  <2> QED BY <1>6, <2>1 DEF Lives, RecvSide
<1>8. SlotOK(s)'
  BY <1>4, <1>5, <1>6, SlotStays DEF Agreed
<1>9. \A c \in DStreams \ {d} : held'[c] = held[c]
  BY <1>6 DEF IInv, TypeOK
<1>10. ObjectOK(d)'
  BY <1>6, <1>7 DEF ObjectOK
<1>11. PoolBound'
  BY DEF Agreed, PoolBound
<1>12. Elsewhere(s, d)
  BY <1>6, <1>9, Alone DEF Elsewhere
<1> QED BY <1>2, <1>4, <1>5, <1>6, <1>8, <1>10, <1>11, <1>12, OneTouched

(* stream_bytes on a WT stream, in each of its ways.                       *)
LEMMA StreamBytesAgrees ==
    ASSUME IInv, IInv', Agreed, agenda /= <<>>, ~closed,
           This.op \in {"input", "input_fin", "more"},
           NEW s \in Slots, slot[s].kind = "WT", NEW d, d = slot[s].ds,
           NEW fin \in BOOLEAN, fin \/ This.op \in {"input", "more"},
           \/ /\ Waiting(Tail(agenda)) = {} /\ ~gone[d]
              /\ rx[d] \in {"open", "stopped"}
           \/ slot[s].recv /\ ~slot[s].paused /\ rx[d] = "open",
           StreamBytes(s, d, fin), UNCHANGED <<connVars, gens, dgen, tx, gone>>
    PROVE  Agreed'
<1>1. /\ <<>> \in Seq(Frame) /\ Stacked(<<>>) /\ Waiting(<<>>) = {}
  BY Lists, ShortStacks, WaitingLists
<1>2. This \in Frame
  BY TopFrame DEF IInv, TypeOK
<1>3. ASSUME NEW t \in Slots PROVE Idler(This, t)
  <2>1. CASE This.op = "more"
    BY <2>1 DEF Idler
  <2>2. CASE This.op /= "more"
    BY <1>2, <2>2, PlainIdles DEF StreamOps
  <2> QED BY <2>1, <2>2
<1>4. CASE /\ Then(<<>>)
           /\ UNCHANGED <<slot, ectx, rx, held, heard>>
  BY <1>3, <1>4, EndsQuietly DEF connVars, wire
<1>5. CASE /\ slot[s].drain
           /\ IF fin THEN Settle(s, [slot[s] EXCEPT !.drain = FALSE])
                     ELSE UNCHANGED <<slot, ectx>>
           /\ rx' = IF fin THEN [rx EXCEPT ![d] = "ended"] ELSE rx
           /\ Then(<<>>)
           /\ UNCHANGED <<held, heard>>
  <2>1. CASE ~fin
    BY <1>4, <1>5, <2>1
  <2>2. CASE fin
    <3>1. PICK e : e = [slot[s] EXCEPT !.drain = FALSE]
      OBVIOUS
    <3>2. Settle(s, e)
      BY <1>5, <2>2, <3>1
    <3>3. Lives(s) /\ d \in DStreams
      BY Alone DEF Agreed, SlotOK, InUse
    <3>4. /\ Waiting(Tail(agenda)) = {} /\ ~gone[d]
          /\ rx[d] \in {"open", "stopped"}
      BY <1>5, <3>3 DEF Lives, Shape
    <3>5. Waiting(agenda)' = {} /\ Waiting(agenda) = {This}
      BY <1>1, <1>5, <3>4, Popped
    <3>6. ~Fatal /\ ~FinDue(s)
      BY <3>5 DEF Fatal, FinDue
    <3>7. /\ Stacked(agenda)' /\ InputReady' /\ (Fatal => Fatal')
          /\ \A t \in Slots : slot'[t].gen = slot[t].gen => DuesKept(t)
      BY <1>1, <1>3, <1>5, ThenSteady DEF connVars
    <3>8. Steady
      BY <3>7 DEF Steady, connVars
    <3>9. /\ OnlyObject(d) /\ rx'[d] = "ended" /\ tx'[d] = tx[d]
          /\ gone'[d] = gone[d] /\ held'[d] = held[d]
      BY <1>5, <2>2, <3>3 DEF OnlyObject, IInv, TypeOK
    <3> QED BY <1>5, <3>1, <3>2, <3>4, <3>5, <3>6, <3>7, <3>8, <3>9, DrainAnswered
  <2> QED BY <2>1, <2>2
<1>6. CASE /\ slot[s].recv /\ slot[s].paused
           /\ held' = [held EXCEPT ![d] = @ \/ fin]
           /\ Then(<<>>)
           /\ UNCHANGED <<slot, ectx, rx, heard>>
  <2>1. Waiting(agenda) = {This} /\ Waiting(Tail(agenda)) = {}
    BY <1>1, <1>6, Popped
  <2>2. ~Fatal
    BY <2>1 DEF Fatal
  <2> QED BY <1>6, <2>1, <2>2, HeldBack
<1>7. CASE /\ slot[s].recv /\ ~slot[s].drain /\ ~slot[s].paused
           /\ rx' = IF fin THEN [rx EXCEPT ![d] = "ended"] ELSE rx
           /\ held' = [held EXCEPT ![d] = @ /\ ~fin]
           /\ Deliver(s, IF fin THEN "fin" ELSE "data")
           /\ UNCHANGED <<slot, ectx>>
  <2>1. rx[d] = "open"
    <3>1. ASSUME Waiting(Tail(agenda)) = {}, ~gone[d],
                 rx[d] \in {"open", "stopped"}
          PROVE  rx[d] = "open"
      <4>1. Lives(s)
        BY DEF Agreed, SlotOK
      <4>2. agenda \in Seq(Frame) /\ Stacked(agenda)
        BY DEF IInv, TypeOK, Agreed
      <4>3. Waiting(agenda) = {This}
        BY <3>1, <4>2, WaitingTail DEF This
      <4>4. ~Fatal /\ ~Ends(s, "recv")
        BY <4>3 DEF Fatal, Ends, TornDue, Shuts
      <4> QED BY <1>7, <3>1, <4>1, <4>4 DEF Lives, RecvSide
    <3> QED BY <3>1
  <2> QED BY <1>7, <2>1, DeliverAgrees
<1> QED BY <1>4, <1>5, <1>6, <1>7 DEF StreamBytes, Hold

(* The engine processes an input.                                          *)
LEMMA InputAgrees ==
    ASSUME IInv, IInv', Agreed, Input PROVE Agreed'
<1>1. PICK d, s, fin : d = This.d /\ s = ectx[d] /\ fin = (This.op = "input_fin")
  OBVIOUS
<1>2. /\ agenda /= <<>> /\ This.op \in {"input", "input_fin"}
      /\ UNCHANGED <<connVars, gens, dgen, tx, gone>>
      /\ fin \in BOOLEAN
      /\ fin \/ This.op = "input"
  BY <1>1 DEF Input, At, This
<1>3. This \in Frame /\ d \in DStreams
  BY <1>1, <1>2, TopFrame DEF IInv, TypeOK, StreamOps
<1>4. CASE /\ Then(<<>>)
           /\ UNCHANGED <<slot, ectx, rx, held, heard>>
  <2>1. \A t \in Slots : Idler(This, t)
    BY <1>2, <1>3, PlainIdles DEF StreamOps
  <2> QED BY <1>2, <1>4, <2>1, EndsQuietly DEF connVars, wire
<1>5. CASE ~(closed \/ ~Linked(d) \/ slot[s].kind /= "WT")
  <2>1. At("input_fin") <=> fin
    BY <1>1, <1>2 DEF At, This
  <2>2. StreamBytes(s, d, fin)
    <3>1. StreamBytes(s, d, At("input_fin"))
      BY <1>1, <1>5 DEF Input
    <3>2. At("input_fin") = fin
      BY <1>1, <1>2 DEF At, This
    <3> QED BY <3>1, <3>2
  <2>3. s \in Slots /\ d = slot[s].ds
    BY <1>1, <1>3, <1>5 DEF IInv, LinkIntegrity, Linked, TypeOK
  <2>4. \/ Len(agenda) = 1 /\ ~gone[d] /\ rx[d] \in {"open", "stopped"}
        \/ slot[s].recv /\ ~slot[s].paused /\ rx[d] = "open"
    BY <1>1, <1>2, <1>5 DEF Agreed, InputReady, At, This, Linked
  <2>5. \/ /\ Waiting(Tail(agenda)) = {} /\ ~gone[d]
           /\ rx[d] \in {"open", "stopped"}
        \/ slot[s].recv /\ ~slot[s].paused /\ rx[d] = "open"
    BY <1>2, <2>4, NothingBelow
  <2> QED BY <1>2, <1>5, <2>2, <2>3, <2>5, StreamBytesAgrees
<1> QED BY <1>1, <1>4, <1>5 DEF Input

(* The next chunk, behind a data callback.                                 *)
LEMMA MoreAgrees ==
    ASSUME IInv, IInv', Agreed, More PROVE Agreed'
<1>1. PICK d, s : d = This.d /\ s = This.s
  OBVIOUS
<1>2. /\ agenda /= <<>> /\ This.op = "more"
      /\ UNCHANGED <<connVars, gens, dgen, tx, gone>>
  BY DEF More, At, This
<1>3. s \in Slots
  BY <1>1, <1>2, TopFrame DEF IInv, TypeOK, SlotOps
<1>4. CASE /\ Then(<<>>)
           /\ UNCHANGED <<slot, ectx, rx, held, heard>>
  <2>1. \A t \in Slots : Idler(This, t)
    BY <1>2 DEF Idler
  <2> QED BY <1>2, <1>4, <2>1, EndsQuietly DEF connVars, wire
<1>5. CASE /\ ~closed /\ SameStream /\ Receiving(d)
           /\ \E fin \in BOOLEAN : StreamBytes(s, d, fin)
  <2>1. PICK fin \in BOOLEAN : StreamBytes(s, d, fin)
    BY <1>5
  <2>2. slot[s].kind = "WT" /\ d = slot[s].ds
    BY <1>1, <1>5 DEF SameStream
  <2>3. Waiting(Tail(agenda)) = {}
    BY <1>2, NothingBelow
  <2>4. ~gone[d] /\ rx[d] \in {"open", "stopped"}
    BY <1>5 DEF Receiving
  <2> QED BY <1>2, <1>3, <1>5, <2>1, <2>2, <2>3, <2>4, StreamBytesAgrees
<1> QED BY <1>1, <1>4, <1>5 DEF More

-----------------------------------------------------------------------------
(* Events of a stream.                                                     *)

(* When no call is running nothing is owed: the halves agree.              *)
LEMMA AtRest ==
    ASSUME Agreed, Idle
    PROVE  /\ Waiting(agenda) = {} /\ (Fatal <=> closed)
           /\ \A s \in Slots : (slot[s].kind = "WT" /\ ~closed) =>
                LET e == slot[s]  d == e.ds IN
                /\ e.send => tx[d] = "open"
                /\ e.fin => tx[d] = "fin"
                /\ (~gone[d] /\ ~e.send) => tx[d] /= "open"
                /\ e.recv => rx[d] = "open"
                /\ (~gone[d] /\ ~e.recv) => rx[d] /= "open"
                /\ (~gone[d] /\ e.drain) => rx[d] = "stopped"
                /\ (~gone[d] /\ rx[d] = "stopped") => (e.recv \/ e.drain)
                /\ ~Done(e)
                /\ sess = "ended" => LiveHalves(e) = {}
                /\ Shape(e) /\ Told(s)
<1>1. Waiting(agenda) = {}
  BY WaitingLists DEF Idle
<1>2. Fatal <=> closed
  BY <1>1 DEF Fatal
<1>3. ASSUME NEW s \in Slots
      PROVE  /\ ~FinSent(s) /\ ~TornDue(s) /\ ~Ends(s, "send")
             /\ ~Ends(s, "recv") /\ ~FinDue(s) /\ ~SettleDue(s)
             /\ ~TeardownDue(s)
  BY <1>1 DEF FinSent, TornDue, Ends, FinDue, SettleDue, TeardownDue
<1>4. ASSUME NEW s \in Slots, slot[s].kind = "WT", ~closed
      PROVE  /\ Shape(slot[s]) /\ SendSide(s) /\ RecvSide(s) /\ Told(s)
             /\ ~Done(slot[s]) /\ (sess = "ended" => LiveHalves(slot[s]) = {})
  BY <1>3, <1>4 DEF Agreed, SlotOK, Lives
<1>5. ASSUME NEW s \in Slots, slot[s].kind = "WT", ~closed, NEW d, d = slot[s].ds
      PROVE  /\ slot[s].send => tx[d] = "open"
             /\ slot[s].fin => tx[d] = "fin"
             /\ (~gone[d] /\ ~slot[s].send) => tx[d] /= "open"
             /\ slot[s].recv => rx[d] = "open"
             /\ (~gone[d] /\ ~slot[s].recv) => rx[d] /= "open"
             /\ (~gone[d] /\ slot[s].drain) => rx[d] = "stopped"
             /\ (~gone[d] /\ rx[d] = "stopped") => (slot[s].recv \/ slot[s].drain)
  BY <1>2, <1>3, <1>4, <1>5 DEF SendSide, RecvSide
<1> QED BY <1>1, <1>2, <1>4, <1>5

(* An event that ends halves of the stream in slot s, or none, and enters  *)
(* the calls q: e is the stream after it, d its object, m what is reported *)
(* and c the call that looks at the slot again.                            *)
EndsBy(s, d, e, c, q, m) ==
    /\ s \in Slots /\ slot[s].kind = "WT" /\ d = slot[s].ds
    /\ e \in Estream /\ SameUse(e, slot[s])
    /\ e.local = slot[s].local /\ e.bidi = slot[s].bidi
    /\ e.commit = slot[s].commit /\ e.drain = slot[s].drain
    /\ e.paused = slot[s].paused
    /\ e.send => slot[s].send
    /\ e.fin => slot[s].fin
    /\ e.recv => slot[s].recv
    /\ slot' = [slot EXCEPT ![s] = e] /\ UNCHANGED <<connVars, ectx>>
    /\ c \in {CallOn("settle", s, {}), CallOn("settle_same", s, {})}
    /\ q \in {<<App>>, <<App, c>>} /\ Enter(q)
    /\ Done(e) => q = <<App, c>>
    /\ OnlyObject(d) /\ gone'[d] = gone[d] /\ held'[d] = held[d]
    /\ tx'[d] \in {tx[d], "ended"} /\ rx'[d] \in {rx[d], "ended"}
    /\ (e.send \/ e.fin) => tx'[d] = tx[d]
    /\ (~e.send /\ ~e.fin /\ slot[s].send) => tx'[d] = "ended"
    /\ e.send = slot[s].send \/ ~e.fin
    /\ (e.recv \/ e.drain) => rx'[d] = rx[d]
    /\ (~e.recv /\ slot[s].recv) => rx'[d] = "ended"
    /\ held[d] => e.recv = slot[s].recv
    /\ m \subseteq Marks \ {"late", "session"}
    /\ \A t \in Slots \ {s} : heard'[t] = heard[t]
    /\ heard'[s] = heard[s] \cup m
    /\ e.recv => m = {}
    /\ LiveHalves(e) /= {} => m \subseteq {"reset"}

(* Such an event keeps the agreement.                                      *)
LEMMA EventEnds ==
    ASSUME IInv, IInv', Agreed, Idle, ~closed, NEW s, NEW d, NEW e, NEW c,
           NEW q, NEW m, EndsBy(s, d, e, c, q, m)
    PROVE  Agreed'
<1> USE DEF EndsBy
<1> PICK op \in {"settle", "settle_same"} : c = CallOn(op, s, {})
  OBVIOUS
<1>1. /\ Waiting(agenda) = {} /\ ~Fatal
      /\ slot[s].send => tx[d] = "open"
      /\ slot[s].fin => tx[d] = "fin"
      /\ (~gone[d] /\ ~slot[s].send) => tx[d] /= "open"
      /\ slot[s].recv => rx[d] = "open"
      /\ (~gone[d] /\ ~slot[s].recv) => rx[d] /= "open"
      /\ (~gone[d] /\ slot[s].drain) => rx[d] = "stopped"
      /\ (~gone[d] /\ rx[d] = "stopped") => (slot[s].recv \/ slot[s].drain)
      /\ sess = "ended" => LiveHalves(slot[s]) = {}
      /\ Shape(slot[s]) /\ Told(s)
  BY AtRest
<1>2. /\ d \in DStreams /\ ectx[d] = s /\ ObjectOK(d) /\ SlotOK(s)
      /\ slot[s].kind \in InUse
  BY Alone DEF Agreed, InUse
<1>3. /\ c \in Frame /\ Light(c) /\ c.op = op /\ c.s = s
      /\ c.g = slot[s].gen /\ c.d = slot[s].ds /\ c.x = {}
  BY <1>2, SlotCalls
<1>4. PICK a : a = App
  OBVIOUS
<1>5. /\ a \in Frame /\ Light(a) /\ a.op = "app" /\ a.s \notin Slots
  BY <1>4, PlainCalls, SlotAssumption
<1>6. /\ q \in Seq(Frame) /\ Stacked(q) /\ Waiting(q) \subseteq {a, c}
      /\ q = <<a, c>> => c \in Waiting(q)
  <2>1. CASE q = <<a>>
    <3>1. /\ <<a>> \in Seq(Frame) /\ Stacked(<<a>>) /\ Waiting(<<a>>) = {a}
      BY <1>5, Lists, ShortStacks, WaitingLists
    <3>2. <<a>> /= <<a, c>>
      <4>1. Len(<<a>>) = 1 /\ Len(<<a, c>>) = 2
        OBVIOUS
      <4> QED BY <4>1
    <3> QED BY <2>1, <3>1, <3>2
  <2>2. CASE q = <<a, c>>
    <3>1. Above(a, c)
      BY <1>3, <1>5, PlainAbove
    <3>2. /\ <<a, c>> \in Seq(Frame) /\ Stacked(<<a, c>>)
          /\ Waiting(<<a, c>>) = {a, c}
      BY <1>3, <1>5, <3>1, ListOfTwo
    <3> QED BY <2>2, <3>2
  <2> QED BY <1>4, <2>1, <2>2
<1>7. /\ slot'[s] = e /\ slot'[s].kind = "WT" /\ slot'[s].ds = d
      /\ slot'[s].gen = slot[s].gen
      /\ \A t \in Slots \ {s} : slot'[t] = slot[t]
  BY DEF IInv, TypeOK, SameUse
<1>8. /\ Stacked(agenda)' /\ InputReady' /\ (Fatal => Fatal')
      /\ \A t \in Slots : DuesKept(t)
      /\ Waiting(agenda)' = Waiting(q)
  <2>1. \A t \in Slots : slot'[t].gen = slot[t].gen
    BY <1>7
  <2>2. \A f \in Waiting(q) : Light(f)
    BY <1>3, <1>5, <1>6
  <2> QED BY <1>1, <1>6, <2>1, <2>2, EnterSteady DEF connVars
<1>9. /\ sess' = sess /\ closed' = closed /\ ectx' = ectx
      /\ \A b \in DStreams : gone'[b] = gone[b]
  BY DEF connVars, OnlyObject
<1>10. Steady
  BY <1>8, <1>9 DEF Steady
<1>11. Lives(s)'
  <2>1. SendSide(s)'
    BY <1>1, <1>7, <1>9 DEF SendSide, Shape
  <2>2. RecvSide(s)'
    BY <1>1, <1>7, <1>9 DEF RecvSide
  <2>3. LiveHalves(e) \subseteq LiveHalves(slot[s])
    BY DEF LiveHalves, Halves
  <2>4. Told(s)'
    <3>1. e.recv /\ rx'[d] = "open" =>
            heard'[s] \cap {"fin", "reset", "app_stop"} = {}
      BY <1>1 DEF Told
    <3>2. LiveHalves(e) /= {} =>
            heard'[s] \cap {"committed", "terminal", "session"} = {}
      BY <1>1, <2>3 DEF Told
    <3>3. (e.send \/ e.fin) => "stop" \notin heard'[s]
      <4>1. e.send \/ e.fin => LiveHalves(e) /= {}
        BY DEF LiveHalves, Halves
      <4> QED BY <1>1, <4>1 DEF Told
    <3> QED BY <1>7, <3>1, <3>2, <3>3 DEF Told
  <2>5. Shape(e)
    BY <1>1 DEF Shape
  <2>6. Done(e) => SettleDue(s)'
    BY <1>3, <1>4, <1>6, <1>7, <1>8 DEF SettleDue, Own
  <2>7. ~(sess = "ended" /\ LiveHalves(e) /= {})
    BY <1>1, <2>3
  <2> QED BY <1>7, <1>9, <2>1, <2>2, <2>4, <2>5, <2>6, <2>7 DEF Lives
<1>12. SlotOK(s)'
  BY <1>2, <1>7, <1>9, <1>11 DEF SlotOK, SameUse
<1>13. ObjectOK(d)'
  <2>1. held[d] => slot[s].recv /\ slot[s].paused /\ rx[d] = "open"
    BY <1>2, SlotAssumption DEF ObjectOK
  <2>2. held[d] => e.recv /\ e.paused /\ rx'[d] = "open"
    BY <2>1
  <2>3. gone[d] => ~(tx'[d] = "none" /\ rx'[d] = "none")
    BY <1>2 DEF ObjectOK
  <2>4. gone[d] /\ ~Budgeted => ~held[d]
    BY <1>2 DEF ObjectOK
  <2> QED BY <1>2, <1>7, <1>9, <2>2, <2>3, <2>4 DEF ObjectOK
<1>14. ASSUME NEW f \in Waiting(agenda)' PROVE Owes(f)'
  <2>1. CASE f = a
    BY <1>5, <2>1, PlainOwes
  <2>2. CASE f = c
    <3>1. OpenOwes(c)' /\ TornOwes(c)' /\ StreamOwes(c)'
      BY <1>3 DEF OpenOwes, TornOwes, StreamOwes, SendsFin, Shuts
    <3>2. ForStream(c)'
      BY <1>3, <1>7 DEF ForStream, IInv, TypeOK, Estream
    <3> QED BY <1>3, <2>2, <3>1, <3>2 DEF Owes
  <2> QED BY <1>6, <1>8, <2>1, <2>2
<1> QED BY <1>1, <1>2, <1>8, <1>9, <1>10, <1>12, <1>13, <1>14, Rewritten
        DEF OnlyObject

(* Events of a stream that leave the stack and nobody's call behind.       *)
LEMMA StaysAtRest ==
    ASSUME IInv, IInv', Agreed, Idle, agenda' = agenda,
           UNCHANGED connVars, \A c \in DStreams : gone[c] => gone'[c]
    PROVE  /\ Stacked(agenda)' /\ InputReady' /\ Steady
           /\ \A t \in Slots : slot'[t].gen = slot[t].gen => DuesKept(t)
           /\ Waiting(agenda)' = {} /\ Waiting(agenda) = {}
<1>1. Waiting(agenda) = {}
  BY AtRest
<1>2. /\ Stacked(agenda)' /\ InputReady'
      /\ Fatal => Fatal'
      /\ \A t \in Slots : slot'[t].gen = slot[t].gen => DuesKept(t)
      /\ Waiting(agenda)' = Waiting(agenda)
  BY StaysSteady DEF connVars
<1> QED BY <1>1, <1>2 DEF Steady, connVars

(* A slot is released while no call is running.                            *)
LEMMA FreedAtRest ==
    ASSUME IInv, IInv', Agreed, Idle, NEW s \in Slots, slot[s].kind \in InUse,
           Release(s), NEW d, d = slot[s].ds, ~held[d], OnlyObject(d),
           UNCHANGED <<connVars, agenda, heard>>,
           tx'[d] = tx[d], gone'[d] = gone[d], held'[d] = held[d],
           rx'[d] = "ended"
    PROVE  Agreed'
<1>1. \A c \in DStreams : gone[c] => gone'[c]
  BY DEF OnlyObject
<1>2. /\ Stacked(agenda)' /\ InputReady' /\ Steady
      /\ \A t \in Slots : slot'[t].gen = slot[t].gen => DuesKept(t)
      /\ Waiting(agenda)' = {}
  BY <1>1, StaysAtRest
<1>3. PICK e : e = slot[s]
  OBVIOUS
<1>4. e \in Estream /\ SameUse(e, slot[s]) /\ ReleaseAs(s, e)
  BY <1>3 DEF IInv, TypeOK, SameUse, Release
<1>5. \A t \in Slots \ {s} : slot'[t] = slot[t]
  BY <1>4 DEF ReleaseAs, IInv, TypeOK
<1>6. \A t \in Slots \ {s} : DuesKept(t)
  BY <1>2, <1>5
<1> QED BY <1>2, <1>4, <1>6, Freed

(* The peer resets its half.                                               *)
LEMMA OnStreamResetAgrees ==
    ASSUME IInv, IInv', Agreed, NEW d \in DStreams, OnStreamReset(d)
    PROVE  Agreed'
<1>1. PICK s : s = ectx[d]
  OBVIOUS
<1>2. /\ Idle /\ ~closed /\ ~gone[d] /\ rx[d] \in {"open", "stopped"}
      /\ ~held[d] /\ rx' = [rx EXCEPT ![d] = "ended"]
      /\ UNCHANGED <<connVars, gens, dgen, tx, gone, held>>
      /\ Linked(d)
  BY DEF OnStreamReset, Receiving
<1>3. /\ s \in Slots /\ d = slot[s].ds /\ slot[s].kind \in InUse
      /\ slot[s] \in Estream
  BY <1>1, <1>2 DEF Linked, IInv, LinkIntegrity, TypeOK
<1>4. /\ OnlyObject(d) /\ rx'[d] = "ended" /\ tx'[d] = tx[d]
      /\ gone'[d] = gone[d] /\ held'[d] = held[d]
  BY <1>2 DEF OnlyObject, IInv, TypeOK
<1>5. CASE Release(s) /\ UNCHANGED <<agenda, heard>>
  BY <1>2, <1>3, <1>4, <1>5, FreedAtRest
<1>6. CASE /\ slot[s].kind = "WT" /\ slot[s].drain
           /\ Settle(s, [slot[s] EXCEPT !.drain = FALSE])
           /\ UNCHANGED <<agenda, heard>>
  <2>1. PICK e : e = [slot[s] EXCEPT !.drain = FALSE]
    OBVIOUS
  <2>2. Settle(s, e)
    BY <1>6, <2>1
  <2>3. /\ Stacked(agenda)' /\ InputReady' /\ Steady
        /\ \A t \in Slots : slot'[t].gen = slot[t].gen => DuesKept(t)
        /\ Waiting(agenda)' = {} /\ Waiting(agenda) = {}
    BY <1>2, <1>6, StaysAtRest
  <2>4. ~Fatal /\ ~FinDue(s)
    BY <1>2, <2>3 DEF Fatal, FinDue
  <2> QED BY <1>2, <1>3, <1>4, <1>6, <2>1, <2>2, <2>3, <2>4, DrainAnswered
<1>7. CASE /\ slot[s].kind = "WT" /\ ~slot[s].drain
           /\ slot' = [slot EXCEPT ![s] = [slot[s] EXCEPT !.recv = FALSE]]
           /\ Hear(s, "reset")
           /\ Enter(<<App, CallOn("settle", s, {})>>)
           /\ UNCHANGED ectx
  <2>1. PICK e : e = [slot[s] EXCEPT !.recv = FALSE]
    OBVIOUS
  <2>2. slot' = [slot EXCEPT ![s] = e]
    BY <1>7, <2>1
  <2>3. /\ e \in Estream /\ ~e.recv /\ e.send = slot[s].send
        /\ e.fin = slot[s].fin /\ e.drain = slot[s].drain
        /\ e.paused = slot[s].paused /\ e.commit = slot[s].commit
        /\ e.local = slot[s].local /\ e.bidi = slot[s].bidi
        /\ e.kind = slot[s].kind /\ e.ds = slot[s].ds /\ e.gen = slot[s].gen
        /\ e.resident = slot[s].resident
    BY <1>3, <2>1 DEF Estream
  <2>4. SameUse(e, slot[s])
    BY <2>3 DEF SameUse
  <2>5. slot[s].recv /\ rx[d] = "open" /\ Told(s)
    BY <1>2, <1>3, <1>7, AtRest
  <2>6. /\ \A t \in Slots \ {s} : heard'[t] = heard[t]
        /\ heard'[s] = heard[s] \cup {"reset"}
    <3>1. LiveHalves(slot[s]) /= {}
      BY <2>5 DEF LiveHalves, Halves
    <3>2. ~Late(s, "reset")
      BY <1>3, <2>5, <3>1 DEF Told, Late
    <3> QED BY <1>3, <1>7, <3>2 DEF Hear, IInv, TypeOK
  <2>7. PICK c, q : c = CallOn("settle", s, {}) /\ q = <<App, c>>
    OBVIOUS
  <2>8. Enter(q)
    BY <1>7, <2>7
  <2>9. PICK m : m = {"reset"}
    OBVIOUS
  <2>10. /\ m \subseteq Marks \ {"late", "session"}
         /\ heard'[s] = heard[s] \cup m
         /\ e.recv => m = {}
         /\ LiveHalves(e) /= {} => m \subseteq {"reset"}
    BY <2>3, <2>6, <2>9 DEF Marks
  <2>11. /\ q \in {<<App>>, <<App, c>>} /\ q = <<App, c>>
    BY <2>7
  <2>12. ~e.drain /\ (held[d] => e.recv = slot[s].recv)
    BY <1>2, <1>7, <2>3
  <2>13. /\ e.send => slot[s].send
         /\ e.fin => slot[s].fin
         /\ e.recv => slot[s].recv
    BY <2>3
  <2>14. /\ (e.send \/ e.fin) => tx'[d] = tx[d]
         /\ (~e.send /\ ~e.fin /\ slot[s].send) => tx'[d] = "ended"
         /\ e.send = slot[s].send \/ ~e.fin
         /\ (e.recv \/ e.drain) => rx'[d] = rx[d]
         /\ (~e.recv /\ slot[s].recv) => rx'[d] = "ended"
         /\ tx'[d] \in {tx[d], "ended"} /\ rx'[d] \in {rx[d], "ended"}
    BY <1>4, <2>3, <2>12
  <2>15. UNCHANGED <<connVars, ectx>>
    BY <1>2, <1>7
  <2>16. EndsBy(s, d, e, c, q, m)
    BY <1>2, <1>3, <1>4, <1>7, <2>2, <2>3, <2>4, <2>6, <2>7, <2>8, <2>10,
       <2>11, <2>12, <2>13, <2>14, <2>15 DEF EndsBy
  <2> QED BY <1>2, <2>16, EventEnds
<1> QED BY <1>1, <1>5, <1>6, <1>7 DEF OnStreamReset

(* A FIN before the preamble is complete, or on a rejected stream.         *)
LEMMA OnEarlyFinAgrees ==
    ASSUME IInv, IInv', Agreed, NEW d \in DStreams, OnEarlyFin(d)
    PROVE  Agreed'
<1>1. PICK s : s = ectx[d]
  OBVIOUS
<1>2. /\ Idle /\ ~closed /\ ~gone[d] /\ rx[d] \in {"open", "stopped"}
      /\ slot[s].kind \in {"TYPE", "DRAIN"}
      /\ rx' = [rx EXCEPT ![d] = "ended"]
      /\ UNCHANGED <<connVars, gens, dgen, tx, gone, held, heard>>
      /\ Linked(d)
  BY <1>1 DEF OnEarlyFin, Receiving
<1>3. /\ s \in Slots /\ d = slot[s].ds /\ slot[s].kind \in InUse
      /\ slot[s] \in Estream
  BY <1>1, <1>2 DEF Linked, IInv, LinkIntegrity, TypeOK
<1>4. /\ OnlyObject(d) /\ rx'[d] = "ended" /\ tx'[d] = tx[d]
      /\ gone'[d] = gone[d] /\ held'[d] = held[d]
  BY <1>2 DEF OnlyObject, IInv, TypeOK
<1>5. ObjectOK(d) /\ ~held[d]
  BY <1>1, <1>2, <1>3, SlotAssumption DEF Agreed, ObjectOK, Linked
<1>6. CASE Release(s) /\ UNCHANGED agenda
  BY <1>2, <1>3, <1>4, <1>5, <1>6, FreedAtRest
<1>7. CASE Enter(<<Call("conn_fatal")>>) /\ UNCHANGED <<slot, ectx>>
  <2>1. PICK q : q = Call("conn_fatal")
    OBVIOUS
  <2>2. /\ q \in Frame /\ Light(q) /\ q.op = "conn_fatal" /\ Enter(<<q>>)
    BY <1>7, <2>1, PlainCalls
  <2>3. /\ <<q>> \in Seq(Frame) /\ Stacked(<<q>>) /\ Waiting(<<q>>) = {q}
    BY <2>2, Lists, ShortStacks, WaitingLists
  <2>4. /\ Stacked(agenda)' /\ InputReady' /\ (Fatal => Fatal')
        /\ \A t \in Slots : DuesKept(t)
        /\ Waiting(agenda)' = {q} \cup Waiting(agenda)
    BY <1>2, <1>7, <2>2, <2>3, EnterSteady DEF connVars
  <2>5. Waiting(agenda) = {}
    BY <1>2, AtRest
  <2>6. Steady
    BY <1>2, <2>4 DEF Steady, connVars
  <2>7. SlotOK(s)'
    <3>1. SlotOK(s)
      BY <1>3 DEF Agreed
    <3> QED BY <1>2, <1>3, <1>7, <3>1 DEF SlotOK, Starts, connVars
  <2>8. ObjectOK(d)'
    BY <1>2, <1>4, <1>5, <1>7 DEF ObjectOK
  <2>9. PoolBound'
    BY <1>2, <1>7 DEF Agreed, PoolBound
  <2>10. Elsewhere(s, d)
    BY <1>2, <1>3, <1>4, <1>7, Alone DEF Elsewhere, OnlyObject
  <2>11. Owes(q)'
    BY <2>2, PlainOwes
  <2> QED BY <1>3, <2>4, <2>5, <2>6, <2>7, <2>8, <2>9, <2>10, <2>11, OneTouched
<1> QED BY <1>1, <1>6, <1>7 DEF OnEarlyFin

(* What a STOP_SENDING leaves of a stream.                                 *)
LEMMA StoppedFields ==
    ASSUME NEW e \in Estream, NEW f, f = Stopped(e)
    PROVE  /\ f \in Estream /\ SameUse(f, e)
           /\ f.send = (e.send /\ ~e.commit)
           /\ f.fin = (e.fin /\ ~e.commit)
           /\ f.recv = e.recv /\ f.drain = e.drain
           /\ f.commit = e.commit /\ f.local = e.local /\ f.bidi = e.bidi
           /\ f.paused = e.paused
<1>1. f \in Estream /\ SameUse(f, e)
  BY StoppedKeepsUse
<1>2. /\ f.send = (e.send /\ ~e.commit)
      /\ f.fin = (e.fin /\ ~e.commit)
      /\ f.recv = e.recv /\ f.drain = e.drain
      /\ f.commit = e.commit /\ f.local = e.local /\ f.bidi = e.bidi
      /\ f.paused = e.paused
  BY DEF Stopped, Estream
<1> QED BY <1>1, <1>2

(* The peer's STOP_SENDING: a commit stream loses its send half.           *)
LEMMA OnStopSendingAgrees ==
    ASSUME IInv, IInv', Agreed, NEW d \in DStreams, OnStopSending(d)
    PROVE  Agreed'
<1>1. PICK s, e, c : /\ s = ectx[d] /\ e = Stopped(slot[s])
                     /\ c = CallOn("settle_same", s, {})
  OBVIOUS
<1>2. /\ Idle /\ ~closed /\ Linked(d) /\ ~gone[d] /\ tx[d] \in {"open", "fin"}
      /\ slot[s].kind = "WT" /\ slot' = [slot EXCEPT ![s] = e]
      /\ tx' = IF slot[s].commit THEN [tx EXCEPT ![d] = "ended"] ELSE tx
      /\ IF slot[s].commit THEN Hear(s, "stop") ELSE UNCHANGED heard
      /\ Enter(<<App>> \o IF slot[s].commit THEN <<c>> ELSE <<>>)
      /\ UNCHANGED <<connVars, ectx, rx, gone, held>>
  <2>1. Enter(<<App>> \o IF slot[s].commit THEN <<c>> ELSE <<>>)
    BY <1>1 DEF OnStopSending
  <2>2. slot' = [slot EXCEPT ![s] = e]
    BY <1>1 DEF OnStopSending
  <2>3. /\ Idle /\ ~closed /\ Linked(d) /\ ~gone[d] /\ tx[d] \in {"open", "fin"}
        /\ UNCHANGED <<connVars, ectx, rx, gone, held>>
    BY DEF OnStopSending
  <2>4. slot[s].kind = "WT"
    BY <1>1 DEF OnStopSending
  <2>5. tx' = IF slot[s].commit THEN [tx EXCEPT ![d] = "ended"] ELSE tx
    BY <1>1 DEF OnStopSending
  <2>6. IF slot[s].commit THEN Hear(s, "stop") ELSE UNCHANGED heard
    BY <1>1 DEF OnStopSending
  <2> QED BY <2>1, <2>2, <2>3, <2>4, <2>5, <2>6
<1>3. /\ s \in Slots /\ d = slot[s].ds /\ slot[s] \in Estream
  BY <1>1, <1>2 DEF Linked, IInv, LinkIntegrity, TypeOK
<1>4. /\ e \in Estream /\ SameUse(e, slot[s])
      /\ e.send = (slot[s].send /\ ~slot[s].commit)
      /\ e.fin = (slot[s].fin /\ ~slot[s].commit)
      /\ e.recv = slot[s].recv /\ e.drain = slot[s].drain
      /\ e.commit = slot[s].commit /\ e.local = slot[s].local
      /\ e.bidi = slot[s].bidi /\ e.paused = slot[s].paused
  <2>1. slot[s] \in Estream /\ e = Stopped(slot[s])
    BY <1>1, <1>3
  <2> QED BY <2>1, StoppedFields
<1>5. ~Done(slot[s]) /\ Shape(slot[s])
  BY <1>2, <1>3, AtRest
<1>6. /\ e.send => slot[s].send
      /\ e.fin => slot[s].fin
      /\ e.recv => slot[s].recv
      /\ held[d] => e.recv = slot[s].recv
  BY <1>4
<1>7. c \in Frame /\ App \in Frame
  BY <1>1, <1>2, <1>3, SlotCalls, PlainCalls DEF InUse
<1>8. OnlyObject(d) /\ gone'[d] = gone[d] /\ held'[d] = held[d] /\ rx'[d] = rx[d]
  BY <1>2 DEF OnlyObject, IInv, TypeOK
<1>9. CASE slot[s].commit
  <2>1. Enter(<<App, c>>)
    <3>1. <<App>> \o <<c>> = <<App, c>>
      BY <1>7, Joined
    <3> QED BY <1>2, <1>9, <3>1
  <2>2. PICK q, m : q = <<App, c>> /\ m = {"stop"}
    OBVIOUS
  <2>3. /\ \A t \in Slots \ {s} : heard'[t] = heard[t]
        /\ heard'[s] = heard[s] \cup m
    <3>1. ~Late(s, "stop")
      BY DEF Late
    <3> QED BY <1>2, <1>3, <1>9, <2>2, <3>1 DEF Hear, IInv, TypeOK
  <2>4. ~e.send /\ ~e.fin /\ ~e.recv /\ ~e.drain
    BY <1>4, <1>5, <1>9 DEF Shape
  <2>5. LiveHalves(e) = {}
    BY <2>4 DEF LiveHalves, Halves
  <2>6. tx'[d] = "ended"
    BY <1>2, <1>9 DEF IInv, TypeOK
  <2>7. m \subseteq Marks \ {"late", "session"}
    BY <2>2 DEF Marks
  <2>8. q \in {<<App>>, <<App, c>>} /\ Enter(q)
    BY <2>1, <2>2
  <2>9. EndsBy(s, d, e, c, q, m)
    BY <1>1, <1>2, <1>3, <1>4, <1>6, <1>8, <2>2, <2>3, <2>4, <2>5, <2>6, <2>7,
       <2>8 DEF EndsBy
  <2> QED BY <1>2, <2>9, EventEnds
<1>10. CASE ~slot[s].commit
  <2>1. Enter(<<App>>)
    <3>1. <<App>> \o <<>> = <<App>>
      BY <1>7, Joined
    <3> QED BY <1>2, <1>10, <3>1
  <2>2. PICK q, m : q = <<App>> /\ m = {}
    OBVIOUS
  <2>3. /\ \A t \in Slots \ {s} : heard'[t] = heard[t]
        /\ heard'[s] = heard[s] \cup m
    BY <1>2, <1>10, <2>2
  <2>4. e.send = slot[s].send /\ e.fin = slot[s].fin
    BY <1>3, <1>4, <1>10 DEF Estream
  <2>5. ~Done(e)
    BY <1>4, <1>5, <2>4 DEF Done, SameUse
  <2>6. tx'[d] = tx[d]
    BY <1>2, <1>10
  <2>7. m \subseteq Marks \ {"late", "session"} /\ m \subseteq {"reset"}
    BY <2>2
  <2>8. q \in {<<App>>, <<App, c>>} /\ Enter(q)
    BY <2>1, <2>2
  <2>9. EndsBy(s, d, e, c, q, m)
    BY <1>1, <1>2, <1>3, <1>4, <1>6, <1>8, <2>2, <2>3, <2>4, <2>5, <2>6, <2>7,
       <2>8 DEF EndsBy
  <2> QED BY <1>2, <2>9, EventEnds
<1> QED BY <1>9, <1>10

(* The transport finished the send half of a commit stream.                *)
LEMMA OnSendShutdownAgrees ==
    ASSUME IInv, IInv', Agreed, NEW d \in DStreams, NEW b \in BOOLEAN,
           OnSendShutdown(d, b)
    PROVE  Agreed'
<1>1. PICK s, e, c : /\ s = ectx[d]
                     /\ e = [slot[s] EXCEPT !.fin = FALSE, !.send = FALSE]
                     /\ c = CallOn("settle_same", s, {})
  OBVIOUS
<1>2. PICK cb, q, m : /\ cb = (IF b THEN "committed" ELSE "terminal")
                      /\ q = <<App, c>> /\ m = {cb}
  OBVIOUS
<1>3. /\ Idle /\ ~closed /\ Linked(d) /\ slot[s].kind = "WT" /\ slot[s].commit
      /\ slot' = [slot EXCEPT ![s] = e] /\ Hear(s, cb) /\ Enter(q)
      /\ tx' = [tx EXCEPT ![d] = "ended"]
      /\ UNCHANGED <<connVars, ectx, rx, gone, held>>
  BY <1>1, <1>2 DEF OnSendShutdown, CommitDue
<1>4. /\ s \in Slots /\ d = slot[s].ds /\ slot[s] \in Estream
  BY <1>1, <1>3 DEF Linked, IInv, LinkIntegrity, TypeOK
<1>5. /\ e \in Estream /\ ~e.send /\ ~e.fin /\ e.recv = slot[s].recv
      /\ e.drain = slot[s].drain /\ e.commit = slot[s].commit
      /\ e.local = slot[s].local /\ e.bidi = slot[s].bidi
      /\ e.paused = slot[s].paused
      /\ e.kind = slot[s].kind /\ e.ds = slot[s].ds /\ e.gen = slot[s].gen
      /\ e.resident = slot[s].resident
  BY <1>1, <1>4 DEF Estream
<1>6. SameUse(e, slot[s])
  BY <1>5 DEF SameUse
<1>7. ~Done(slot[s]) /\ Shape(slot[s]) /\ Told(s)
  BY <1>3, <1>4, AtRest
<1>8. ~slot[s].recv /\ ~slot[s].drain /\ (slot[s].send \/ slot[s].fin)
  BY <1>3, <1>7 DEF Shape, Done
<1>9. LiveHalves(slot[s]) /= {} /\ LiveHalves(e) = {}
  BY <1>5, <1>8 DEF LiveHalves, Halves
<1>10. ~Late(s, cb)
  BY <1>2, <1>7, <1>8, <1>9 DEF Told, Late
<1>11. /\ \A t \in Slots \ {s} : heard'[t] = heard[t]
       /\ heard'[s] = heard[s] \cup m
  BY <1>2, <1>3, <1>4, <1>10 DEF Hear, IInv, TypeOK
<1>12. m \subseteq Marks \ {"late", "session"}
  BY <1>2 DEF Marks
<1>13. /\ OnlyObject(d) /\ gone'[d] = gone[d] /\ held'[d] = held[d]
       /\ rx'[d] = rx[d] /\ tx'[d] = "ended"
  BY <1>3 DEF OnlyObject, IInv, TypeOK
<1>14. ~e.recv /\ ~e.drain
  BY <1>5, <1>8
<1>15. EndsBy(s, d, e, c, q, m)
  BY <1>1, <1>2, <1>3, <1>4, <1>5, <1>6, <1>8, <1>9, <1>11, <1>12, <1>13, <1>14
     DEF EndsBy
<1> QED BY <1>3, <1>15, EventEnds

(* The transport stream ends whole.                                        *)
LEMMA TransportGoneAgrees ==
    ASSUME IInv, IInv', Agreed, NEW d \in DStreams, TransportGone(d)
    PROVE  Agreed'
<1>1. /\ Idle \/ At("app")
      /\ ~gone[d] /\ (tx[d] /= "none" \/ rx[d] /= "none")
      /\ gone' = [gone EXCEPT ![d] = TRUE]
      /\ held' = [held EXCEPT ![d] = @ /\ Budgeted]
      /\ UNCHANGED <<connVars, slot, gens, ectx, dgen, tx, rx, agenda, heard>>
  BY DEF TransportGone
<1>2. /\ Stacked(agenda)' /\ InputReady' /\ (Fatal => Fatal')
      /\ \A t \in Slots : DuesKept(t)
      /\ Waiting(agenda)' = Waiting(agenda)
  BY <1>1, StaysSteady DEF connVars
<1>3. \A c \in DStreams : /\ gone[c] => gone'[c]
                          /\ held'[c] => held[c]
                          /\ c /= d => gone'[c] = gone[c] /\ held'[c] = held[c]
  BY <1>1 DEF IInv, TypeOK
<1>4. /\ gone'[d] /\ (held'[d] <=> held[d] /\ Budgeted)
      /\ sess' = sess /\ closed' = closed
  BY <1>1 DEF IInv, TypeOK, connVars
<1>5. \A c \in DStreams : ObjectOK(c)'
  <2> SUFFICES ASSUME NEW c \in DStreams PROVE ObjectOK(c)'
    OBVIOUS
  <2>1. ObjectOK(c)
    BY DEF Agreed
  <2>2. gone'[c] => ~(tx[c] = "none" /\ rx[c] = "none")
    BY <1>1, <1>3, <2>1 DEF ObjectOK
  <2>3. gone'[c] /\ ~Budgeted => ~held'[c]
    BY <1>3, <1>4, <2>1 DEF ObjectOK
  <2> QED BY <1>1, <1>3, <1>4, <2>1, <2>2, <2>3 DEF ObjectOK
<1>6. ASSUME NEW t \in Slots PROVE SlotOK(t)'
  <2>1. SlotOK(t) /\ DuesKept(t)
    BY <1>2 DEF Agreed
  <2>2. ASSUME slot[t].kind = "WT" PROVE Lives(t)'
    <3>1. Lives(t)
      BY <2>1, <2>2 DEF SlotOK
    <3>2. gone[slot[t].ds] => gone'[slot[t].ds]
      BY <1>3, <2>2, Alone DEF InUse
    <3>3. SendSide(t)'
      BY <1>1, <1>2, <2>1, <2>2, <3>1, <3>2
         DEF Lives, SendSide, DuesKept, Halves
    <3>4. RecvSide(t)'
      BY <1>1, <1>2, <2>1, <2>2, <3>1, <3>2
         DEF Lives, RecvSide, DuesKept, Halves
    <3>5. Told(t)'
      BY <1>1, <3>1 DEF Lives, Told, LiveHalves
    <3>6. (sess = "ended" /\ LiveHalves(slot[t]) /= {})
            => (TornDue(t) \/ TeardownDue(t))'
      BY <2>1, <2>2, <3>1, Zenon DEF Lives, DuesKept
    <3>7. Done(slot[t]) => SettleDue(t)'
      BY <2>1, <2>2, <3>1 DEF Lives, DuesKept
    <3> QED BY <1>1, <1>4, <3>1, <3>3, <3>4, <3>5, <3>6, <3>7 DEF Lives
  <2> QED BY <1>1, <1>4, <2>1, <2>2 DEF SlotOK, Starts
<1>7. ASSUME NEW f \in Waiting(agenda) PROVE Owes(f)'
  <2>1. f \in Frame /\ Owes(f)
    BY Waiters
  <2>2. f.op \in SlotOps => f.s \in Slots
    BY <2>1 DEF Frame, SlotOps, StreamOps, PlainOps
  <2>3. OpenOwes(f)' /\ ForStream(f)'
    BY <1>1, <1>4, <2>1 DEF Owes, OpenOwes, ForStream, Own
  <2>4. (f.s \in Slots /\ slot[f.s].kind = "WT") =>
          /\ FinDue(f.s) => FinDue(f.s)'
          /\ ReleaseDue(f.s) => ReleaseDue(f.s)'
          /\ held'[slot[f.s].ds] => held[slot[f.s].ds]
          /\ gone[slot[f.s].ds] => gone'[slot[f.s].ds]
    BY <1>2, <1>3, Alone DEF DuesKept, InUse
  <2>5. StreamOwes(f)'
    BY <1>1, <1>2, <2>1, <2>2, <2>4 DEF Owes, StreamOwes, Own
  <2>6. TornOwes(f)'
    BY <1>1, <1>2, <1>4, <2>1, <2>2, <2>4 DEF Owes, TornOwes, SlotOps
  <2>7. f.op = "terminal" => gone'[f.d]
    BY <1>3, <2>1 DEF Owes, Frame, StreamOps, SlotOps, PlainOps
  <2> QED BY <2>3, <2>5, <2>6, <2>7 DEF Owes
<1>8. PoolBound'
  BY <1>1 DEF Agreed, PoolBound
<1> QED BY <1>2, <1>5, <1>6, <1>7, <1>8 DEF Agreed

(* The end of a whole stream is reported: both halves close.               *)
LEMMA OnStreamTerminalAgrees ==
    ASSUME IInv, IInv', Agreed, OnStreamTerminal PROVE Agreed'
<1>1. PICK d, s, r : /\ d = This.d /\ s = ectx[d]
                     /\ r = CallOn("release", s, {})
  OBVIOUS
<1>2. /\ agenda /= <<>> /\ This.op = "terminal"
      /\ UNCHANGED <<connVars, gens, dgen, wire>>
  BY DEF OnStreamTerminal, At, This
<1>3. /\ This \in Frame /\ Owes(This)
  <2>1. This \in Waiting(agenda)
    BY <1>2, WaitingTail DEF IInv, TypeOK, Agreed, This
  <2> QED BY <2>1, Waiters
<1>4. d \in DStreams /\ gone[d] /\ (\A t \in Slots : Idler(This, t))
  BY <1>1, <1>2, <1>3, PlainIdles DEF Owes, Frame, StreamOps, SlotOps, PlainOps
<1>5. Linked(d) => /\ s \in Slots /\ d = slot[s].ds /\ slot[s].kind \in InUse
                   /\ slot[s] \in Estream
  BY <1>1, <1>4 DEF Linked, IInv, LinkIntegrity, TypeOK
<1>6. /\ tx'[d] = tx[d] /\ rx'[d] = rx[d] /\ gone'[d] = gone[d]
      /\ held'[d] = held[d] /\ OnlyObject(d)
      /\ sess' = sess /\ closed' = closed
      /\ \A c \in DStreams : gone[c] => gone'[c]
  BY <1>2 DEF wire, connVars, OnlyObject
<1>7. CASE Then(<<>>) /\ UNCHANGED <<slot, ectx, heard>>
  BY <1>2, <1>4, <1>6, <1>7, EndsQuietly
<1>8. CASE /\ ~closed /\ ~held[d] /\ Linked(d) /\ slot[s].kind = "DRAIN"
           /\ Release(s) /\ Then(<<>>) /\ UNCHANGED heard
  <2>1. PICK e : e = slot[s]
    OBVIOUS
  <2>2. e \in Estream /\ SameUse(e, slot[s]) /\ ReleaseAs(s, e)
    BY <1>5, <1>8, <2>1 DEF Release, SameUse
  <2>3. \A t \in Slots \ {s} : slot'[t] = slot[t]
    BY <2>2 DEF ReleaseAs, IInv, TypeOK
  <2>4. <<>> \in Seq(Frame) /\ Stacked(<<>>) /\ Waiting(<<>>) = {}
    BY Lists, ShortStacks, WaitingLists
  <2>5. /\ Stacked(agenda)' /\ InputReady' /\ (Fatal => Fatal')
        /\ \A t \in Slots : slot'[t].gen = slot[t].gen => DuesKept(t)
        /\ Waiting(agenda)' = Waiting(<<>>) \cup Waiting(Tail(agenda))
        /\ Waiting(agenda) = {This} \cup Waiting(Tail(agenda))
    BY <1>2, <1>4, <1>6, <1>8, <2>4, ThenSteady
  <2>6. Steady
    BY <1>6, <2>5 DEF Steady
  <2>7. \A t \in Slots \ {s} : DuesKept(t)
    BY <2>3, <2>5
  <2>8. \A f \in Waiting(agenda)' : f \in Waiting(agenda)
    BY <2>4, <2>5
  <2> QED BY <1>5, <1>6, <1>8, <2>2, <2>5, <2>6, <2>7, <2>8, Freed
<1>9. CASE /\ ~closed /\ ~held[d] /\ Linked(d) /\ slot[s].kind = "WT"
           /\ slot' = [slot EXCEPT ![s] =
                 [@ EXCEPT !.send = FALSE, !.fin = FALSE,
                           !.recv = FALSE, !.drain = FALSE]]
           /\ IF LiveHalves(slot[s]) /= {}
              THEN Hear(s, "terminal") /\ Then(<<App, r>>)
              ELSE UNCHANGED heard /\ Then(<<r>>)
           /\ UNCHANGED ectx
  <2>1. PICK e, a : /\ e = [slot[s] EXCEPT !.send = FALSE, !.fin = FALSE,
                                           !.recv = FALSE, !.drain = FALSE]
                    /\ a = App
    OBVIOUS
  <2>2. /\ e \in Estream /\ SameUse(e, slot[s])
        /\ ~e.send /\ ~e.fin /\ ~e.recv /\ ~e.drain
        /\ e.commit = slot[s].commit /\ e.local = slot[s].local
        /\ e.bidi = slot[s].bidi /\ e.paused = slot[s].paused
        /\ slot' = [slot EXCEPT ![s] = e]
    <3>1. e \in Estream /\ SameUse(e, slot[s])
      BY <1>5, <1>9, <2>1, HalvesSet
    <3>2. /\ ~e.send /\ ~e.fin /\ ~e.recv /\ ~e.drain
          /\ e.commit = slot[s].commit /\ e.local = slot[s].local
          /\ e.bidi = slot[s].bidi /\ e.paused = slot[s].paused
      BY <1>5, <1>9, <2>1 DEF Estream
    <3>3. slot' = [slot EXCEPT ![s] = e]
      BY <1>9, <2>1
    <3> QED BY <3>1, <3>2, <3>3
  <2>3. /\ s \in Slots /\ d = slot[s].ds /\ slot[s].kind \in InUse
        /\ ObjectOK(d) /\ Lives(s) /\ SlotOK(s)
    BY <1>4, <1>5, <1>9 DEF Agreed, SlotOK
  <2>4. /\ slot'[s] = e /\ slot'[s].kind = "WT" /\ slot'[s].ds = d
        /\ slot'[s].gen = slot[s].gen
        /\ \A t \in Slots \ {s} : slot'[t] = slot[t]
    BY <1>9, <2>2, <2>3 DEF IInv, TypeOK, SameUse
  <2>5. /\ r \in Frame /\ Light(r) /\ r.op = "release" /\ r.s = s
        /\ r.g = slot[s].gen /\ r.d = d /\ r.x = {}
    <3>1. s \in Slots /\ slot[s].kind \in InUse /\ d = slot[s].ds
      BY <2>3
    <3>2. PICK c : c = CallOn("release", s, {})
      OBVIOUS
    <3>3. /\ c \in Frame /\ Light(c) /\ c.op = "release" /\ c.s = s
          /\ c.g = slot[s].gen /\ c.d = slot[s].ds /\ c.x = {}
      BY <3>1, <3>2, SlotCalls
    <3> QED BY <1>1, <3>1, <3>2, <3>3
  <2>6. a \in Frame /\ Light(a) /\ a.op = "app" /\ a.s \notin Slots
    BY <2>1, PlainCalls, SlotAssumption
  <2>7. PICK q : q = IF LiveHalves(slot[s]) /= {} THEN <<a, r>> ELSE <<r>>
    OBVIOUS
  <2>8. /\ Then(q) /\ q \in Seq(Frame) /\ Stacked(q)
        /\ Waiting(q) \subseteq {a, r} /\ r \in Waiting(q)
    <3>1. Above(a, r)
      BY <2>5, <2>6, PlainAbove
    <3>2. /\ <<a, r>> \in Seq(Frame) /\ Stacked(<<a, r>>)
          /\ Waiting(<<a, r>>) = {a, r}
      BY <2>5, <2>6, <3>1, ListOfTwo
    <3>3. /\ <<r>> \in Seq(Frame) /\ Stacked(<<r>>) /\ Waiting(<<r>>) = {r}
      BY <2>5, Lists, ShortStacks, WaitingLists
    <3>4. CASE LiveHalves(slot[s]) /= {}
      BY <1>9, <2>1, <2>7, <3>2, <3>4
    <3>5. CASE LiveHalves(slot[s]) = {}
      BY <1>9, <2>7, <3>3, <3>5
    <3> QED BY <3>4, <3>5
  <2>9. /\ Stacked(agenda)' /\ InputReady' /\ (Fatal => Fatal')
        /\ \A t \in Slots : DuesKept(t)
        /\ Waiting(agenda)' = Waiting(q) \cup Waiting(Tail(agenda))
        /\ Waiting(agenda) = {This} \cup Waiting(Tail(agenda))
    <3>1. \A f \in Waiting(q) : Light(f)
      BY <2>5, <2>6, <2>8
    <3>2. \A t \in Slots : slot'[t].gen = slot[t].gen
      BY <2>4
    <3> QED BY <1>2, <1>4, <1>6, <2>8, <3>1, <3>2, ThenSteady
  <2>10. Steady
    BY <1>6, <2>9 DEF Steady
  <2>11. LiveHalves(e) = {}
    BY <2>2 DEF LiveHalves, Halves
  <2>12. /\ \A t \in Slots \ {s} : heard'[t] = heard[t]
         /\ heard'[s] \subseteq heard[s] \cup {"terminal"}
    <3>1. CASE LiveHalves(slot[s]) /= {}
      <4>1. ~Late(s, "terminal")
        BY <2>3, <3>1 DEF Lives, Told, Late
      <4> QED BY <1>9, <2>3, <3>1, <4>1 DEF Hear, IInv, TypeOK
    <3>2. CASE LiveHalves(slot[s]) = {}
      BY <1>9, <3>2
    <3> QED BY <3>1, <3>2
  <2>13. r \in Waiting(agenda)'
    BY <2>8, <2>9
  <2>14. Lives(s)'
    <3>1. Shape(e)
      BY <2>2, <2>3 DEF Lives, Shape
    <3>2. SendSide(s)' /\ RecvSide(s)'
      BY <1>4, <1>6, <2>2, <2>4 DEF SendSide, RecvSide
    <3>3. Told(s)'
      BY <2>2, <2>4, <2>11 DEF Told
    <3>4. SettleDue(s)'
      BY <2>5, <2>13 DEF SettleDue
    <3> QED BY <2>4, <2>11, <3>1, <3>2, <3>3, <3>4 DEF Lives
  <2>15. SlotOK(s)'
    BY <1>6, <2>2, <2>3, <2>4, <2>12, <2>14 DEF SlotOK, SameUse
  <2>16. ObjectOK(d)'
    BY <1>6, <1>9, <2>3 DEF ObjectOK
  <2>17. Owes(r)'
    <3>1. OpenOwes(r)' /\ TornOwes(r)'
      BY <2>5 DEF OpenOwes, TornOwes
    <3>2. ForStream(r)'
      BY <2>3, <2>4, <2>5 DEF ForStream, IInv, TypeOK, Estream
    <3>3. StreamOwes(r)'
      BY <2>2, <2>4, <2>5 DEF StreamOwes, SendsFin, Shuts
    <3> QED BY <2>5, <3>1, <3>2, <3>3 DEF Owes
  <2>18. Owes(a)'
    BY <2>6, PlainOwes
  <2>19. ReleaseDue(s)'
    BY <2>4, <2>5, <2>13 DEF ReleaseDue, Own
  <2>20. FinDue(s) => FinDue(s)'
    BY <1>9, <2>3, <2>9 DEF DuesKept
  <2>21. ASSUME NEW f \in Waiting(Tail(agenda)), f.s = s PROVE Owes(f)'
    <3>1. f \in Waiting(agenda) /\ f \in Waiting(agenda)'
      BY <2>9
    <3>2. /\ SameUse(slot'[s], slot[s]) /\ slot'[s].commit = slot[s].commit
          /\ slot'[s].local = slot[s].local /\ slot'[s].bidi = slot[s].bidi
          /\ ~slot'[s].send /\ ~slot'[s].recv
      BY <2>2, <2>4
    <3> QED BY <1>6, <1>9, <2>3, <2>10, <2>19, <2>20, <2>21, <3>1, <3>2, EndingOwes
  <2>22. \A f \in Waiting(agenda)' : (f \in Waiting(agenda) /\ f.s /= s) \/ Owes(f)'
    BY <2>8, <2>9, <2>17, <2>18, <2>21
  <2> QED BY <1>6, <1>9, <2>2, <2>3, <2>9, <2>10, <2>12, <2>15, <2>16, <2>22,
             Rewritten
<1> QED BY <1>1, <1>7, <1>8, <1>9 DEF OnStreamTerminal

-----------------------------------------------------------------------------
(* The steps that give a slot another use.                                 *)

(* wt_open takes a slot: no call that waits is about its new generation.   *)
LEMMA WtOpenAgrees ==
    ASSUME IInv, IInv', Agreed, NEW s \in Slots, NEW b \in BOOLEAN, WtOpen(s, b)
    PROVE  Agreed'
<1>1. PICK e, f, a, q :
         /\ e = [Fresh(s) EXCEPT !.kind = OpeningKind, !.bidi = b,
                                 !.resident = Budgeted]
         /\ f = [op |-> "wt_open", s |-> s, g |-> gens + 1, d |-> NoDs,
                 x |-> {}]
         /\ a = App /\ q = IF Budgeted THEN <<a, f>> ELSE <<f>>
  OBVIOUS
<1>2. /\ Idle \/ At("app")
      /\ slot[s].kind = "FREE" /\ ~slot[s].resident
      /\ ~closed /\ sess = "active"
      /\ slot' = [slot EXCEPT ![s] = e] /\ Enter(q)
      /\ heard' = [heard EXCEPT ![s] = {}]
      /\ UNCHANGED <<closed, sess, ectx, tx, rx, gone, held>>
  <2>1. Enter(q)
    BY <1>1 DEF WtOpen
  <2>2. slot' = [slot EXCEPT ![s] = e]
    BY <1>1 DEF WtOpen
  <2> QED BY <2>1, <2>2 DEF WtOpen, AppMay, Spare, connVars, wire
<1>3. /\ e.kind \in Freeish /\ e.gen = gens + 1 /\ Blank(e) /\ e.ds = NoDs
      /\ e.resident = Budgeted
  <2>1. PICK k : k = OpeningKind
    OBVIOUS
  <2>2. k \in Freeish /\ Budgeted \in BOOLEAN
    BY <2>1, ModeAssumption DEF OpeningKind, Freeish
  <2>3. e = [EmptySlot EXCEPT !.gen = gens + 1, !.kind = k, !.bidi = b,
                              !.resident = Budgeted]
    BY <1>1, <2>1, Zenon DEF Fresh
  <2> QED BY <2>2, <2>3 DEF EmptySlot, Blank
<1>4. /\ f \in Frame /\ f.op = "wt_open" /\ f.s = s /\ f.g = gens + 1
      /\ f.d = NoDs /\ f.x = {}
  BY <1>1 DEF IInv, TypeOK, Frame, SlotOps
<1>5. a \in Frame /\ a.op = "app" /\ a.s \notin Slots
  BY <1>1, PlainCalls, SlotAssumption
<1>6. /\ slot'[s] = e /\ heard'[s] = {}
      /\ \A t \in Slots \ {s} : slot'[t] = slot[t] /\ heard'[t] = heard[t]
  BY <1>2 DEF IInv, TypeOK
<1>7. \A g \in Waiting(agenda) : g.s = s =>
        /\ g \in Frame /\ Owes(g) /\ g.op \in SlotOps /\ g.op /= "wt_open"
        /\ g.g <= slot[s].gen /\ g.g < gens + 1
  <2> SUFFICES ASSUME NEW g \in Waiting(agenda), g.s = s
               PROVE  /\ g \in Frame /\ Owes(g) /\ g.op \in SlotOps
                      /\ g.op /= "wt_open"
                      /\ g.g <= slot[s].gen /\ g.g < gens + 1
    OBVIOUS
  <2>1. g \in Frame /\ Owes(g)
    BY Waiters
  <2>2. g.op \in SlotOps /\ g.g \in Nat
    BY <2>1, SlotAssumption DEF Frame, StreamOps, PlainOps
  <2>3. g.g <= slot[s].gen /\ slot[s].gen <= gens
        /\ slot[s].gen \in Nat /\ gens \in Nat
    BY <2>1, <2>2 DEF Owes, ForStream, IInv, TypeOK, Estream
  <2>4. g.op /= "wt_open"
    <3>1. CASE Budgeted
      <4>1. PICK i \in 1..Len(agenda) : g = agenda[i]
        BY WaitingPlaces
      <4> QED BY <1>2, <3>1, <4>1 DEF IInv, OpensReserved
    <3>2. CASE ~Budgeted
      <4>1. agenda /= <<>>
        <5>1. agenda = <<>> => Waiting(agenda) = {}
          BY WaitingLists
        <5> QED BY <5>1
      <4>2. g = This \/ g \in Waiting(Tail(agenda))
        BY <4>1, WaitingTail DEF IInv, TypeOK, Agreed, This
      <4> QED BY <1>2, <3>2, <4>1, <4>2, OpenOnTop DEF Idle, At, This
    <3> QED BY <3>1, <3>2
  <2> QED BY <2>1, <2>2, <2>3, <2>4
<1>8. \A g \in Waiting(agenda) : Above(f, g)
  <2> SUFFICES ASSUME NEW g \in Waiting(agenda) PROVE Above(f, g)
    OBVIOUS
  <2>1. g.op \notin {"input", "input_fin"}
    BY <1>2, NoInputs
  <2>2. g.s = s => g.g /= f.g
    <3>1. g.s = s => g.g \in Nat
      BY <1>7 DEF Frame
    <3> QED BY <1>4, <1>7, <3>1 DEF IInv, TypeOK
  <2> QED BY <1>4, <2>1, <2>2 DEF Above
<1>9. /\ q \in Seq(Frame) /\ Stacked(q) /\ Waiting(q) \subseteq {a, f}
      /\ f \in Waiting(q)
  <2>1. Above(a, f)
    BY <1>4, <1>5, PlainAbove
  <2>2. /\ <<a, f>> \in Seq(Frame) /\ Stacked(<<a, f>>)
        /\ Waiting(<<a, f>>) = {a, f}
    BY <1>4, <1>5, <2>1, ListOfTwo
  <2>3. <<f>> \in Seq(Frame) /\ Stacked(<<f>>) /\ Waiting(<<f>>) = {f}
    BY <1>4, Lists, ShortStacks, WaitingLists
  <2>4. CASE Budgeted
    BY <1>1, <2>2, <2>4
  <2>5. CASE ~Budgeted
    BY <1>1, <2>3, <2>5
  <2> QED BY <2>4, <2>5
<1>10. /\ Stacked(agenda)' /\ InputReady' /\ (Fatal => Fatal')
       /\ \A t \in Slots : slot'[t].gen = slot[t].gen => DuesKept(t)
       /\ Waiting(agenda)' = Waiting(q) \cup Waiting(agenda)
  <2>1. \A g \in Waiting(agenda) : Above(a, g)
    BY <1>2, <1>5, NoInputs, PlainAbove
  <2>2. \A g \in Waiting(q), h \in Waiting(agenda) : Above(g, h)
    BY <1>8, <1>9, <2>1
  <2>3. \A g \in Waiting(q) : g.op \notin {"input", "input_fin"}
    BY <1>4, <1>5, <1>9
  <2> QED BY <1>2, <1>9, <2>2, <2>3, EnterAbove
<1>11. Steady
  BY <1>2, <1>10 DEF Steady
<1>12. Elsewhere(s, NoDs)
  BY <1>2, <1>6, SlotAssumption DEF Elsewhere, IInv, LinkIntegrity
<1>13. PoolBound'
  <2> SUFFICES ASSUME Budgeted, NEW c \in DStreams, tx'[c] /= "none"
               PROVE  \E t \in Slots : slot'[t].ds = c /\ slot'[t].resident
    BY DEF PoolBound
  <2>1. PICK t \in Slots : slot[t].ds = c /\ slot[t].resident
    BY <1>2 DEF Agreed, PoolBound
  <2> QED BY <1>2, <1>6, <2>1
<1>14. SlotOK(s)'
  BY <1>3, <1>6 DEF SlotOK, Freeish, InUse
<1>15. Owes(f)'
  <2>1. OpenOwes(f)'
    BY <1>2, <1>3, <1>4, <1>6 DEF OpenOwes, Own, Blank
  <2>2. ForStream(f)'
    <3>1. f.g <= slot'[s].gen
      BY <1>3, <1>4, <1>6 DEF IInv, TypeOK
    <3> QED BY <1>4, <3>1 DEF ForStream
  <2>3. StreamOwes(f)' /\ TornOwes(f)'
    BY <1>3, <1>4, <1>6 DEF StreamOwes, TornOwes, Freeish
  <2> QED BY <1>4, <2>1, <2>2, <2>3 DEF Owes
<1>16. ASSUME NEW g \in Waiting(agenda), g.s = s PROVE Owes(g)'
  <2>1. /\ g \in Frame /\ Owes(g) /\ g.op \in SlotOps /\ g.op /= "wt_open"
        /\ g.g < gens + 1 /\ g.g \in Nat
    BY <1>7, <1>16 DEF Frame
  <2>2. g.g <= slot'[s].gen
    BY <1>3, <1>6, <2>1 DEF IInv, TypeOK
  <2>3. slot'[s].kind /= "WT"
    BY <1>3, <1>6 DEF Freeish
  <2>4. OpenOwes(g)' /\ ForStream(g)' /\ StreamOwes(g)'
    BY <1>16, <2>1, <2>2, <2>3 DEF OpenOwes, ForStream, StreamOwes
  <2>5. TornOwes(g)'
    BY <1>2, <1>16, <2>1, <2>3 DEF Owes, TornOwes
  <2>6. g.op /= "terminal"
    BY <2>1 DEF SlotOps
  <2> QED BY <2>4, <2>5, <2>6 DEF Owes
<1>17. \A g \in Waiting(agenda)' : (g \in Waiting(agenda) /\ g.s /= s) \/ Owes(g)'
  BY <1>5, <1>9, <1>10, <1>15, <1>16, PlainOwes
<1>18. \A t \in Slots \ {s} : DuesKept(t)
  BY <1>6, <1>10
<1> QED BY <1>2, <1>10, <1>11, <1>12, <1>13, <1>14, <1>17, <1>18,
           SlotAssumption, OneTouched DEF InUse

(* The frames below a pending open are about older streams of its slot.    *)
LEMMA OpenAlone ==
    ASSUME IInv, Agreed, At("wt_open"), NEW s, s = This.s
    PROVE  /\ s \in Slots /\ slot[s] \in Estream /\ slot[s].kind \in Freeish
           /\ Budgeted => slot[s].resident
           /\ Blank(slot[s]) /\ slot[s].ds = NoDs
           /\ sess /= "ended" => heard[s] = {}
           /\ ~Budgeted => sess = "active"
           /\ agenda /= <<>> /\ This.op = "wt_open" /\ This.g = slot[s].gen
           /\ \A t \in Slots : Idler(This, t)
           /\ \A f \in Waiting(Tail(agenda)) : f.s = s =>
                /\ f \in Frame /\ Owes(f) /\ f.op \in SlotOps
                /\ f.op /= "wt_open" /\ f.g /= slot[s].gen
<1>1. /\ agenda /= <<>> /\ This.op = "wt_open" /\ agenda \in Seq(Frame)
      /\ Stacked(agenda)
  BY DEF At, This, IInv, TypeOK, Agreed
<1>2. /\ This \in Frame /\ This \in Waiting(agenda)
      /\ Waiting(agenda) = {This} \cup Waiting(Tail(agenda))
      /\ \A g \in Waiting(Tail(agenda)) : Above(This, g)
  BY <1>1, WaitingTail DEF This
<1>3. s \in Slots /\ Owes(This)
  BY <1>1, <1>2, Waiters DEF Frame, SlotOps, StreamOps, PlainOps
<1>4. /\ Len(agenda) \in Nat \ {0} /\ This = agenda[1]
      /\ 1 \in 1..Len(agenda)
  BY <1>1, TailFacts DEF This
<1>5. slot[s].kind \in Freeish /\ (Budgeted => slot[s].resident)
  BY <1>1, <1>4 DEF IInv, OpensReserved
<1>6. /\ Blank(slot[s]) /\ slot[s].ds = NoDs /\ This.g = slot[s].gen
      /\ sess /= "ended" => heard[s] = {}
      /\ ~Budgeted => sess = "active"
  BY <1>1, <1>3 DEF Owes, OpenOwes, Own
<1>7. ASSUME NEW f \in Waiting(Tail(agenda)), f.s = s
      PROVE  /\ f \in Frame /\ Owes(f) /\ f.op \in SlotOps
             /\ f.op /= "wt_open" /\ f.g /= slot[s].gen
  <2>1. f \in Frame /\ Owes(f)
    BY <1>2, Waiters
  <2>2. f.op \in SlotOps
    BY <1>3, <1>7, <2>1, SlotAssumption DEF Frame, StreamOps, PlainOps
  <2>3. f.op /= "wt_open"
    <3>1. PICK i \in 1..Len(Tail(agenda)) : f = Tail(agenda)[i]
      BY WaitingPlaces
    <3>2. i + 1 \in 1..Len(agenda) /\ i + 1 /= 1 /\ f = agenda[i + 1]
      BY <1>1, <1>4, <3>1, TailFacts
    <3> QED BY <1>1, <1>4, <1>7, <3>2 DEF IInv, OpensDistinct
  <2>4. f.g /= slot[s].gen
    BY <1>1, <1>2, <1>3, <1>6, <1>7, <2>3 DEF Above
  <2> QED BY <2>1, <2>2, <2>3, <2>4
<1>8. \A t \in Slots : Idler(This, t)
  BY <1>1 DEF Idler
<1>9. slot[s] \in Estream
  BY <1>3 DEF IInv, TypeOK
<1> QED BY <1>1, <1>3, <1>5, <1>6, <1>7, <1>8, <1>9

(* The rest of an open leaves its slot free, or gives it to a new stream   *)
(* object d.                                                               *)
OpenedAs(s, d, e) ==
    /\ e \in Estream /\ e.gen = slot[s].gen
    /\ slot' = [slot EXCEPT ![s] = e]
    /\ \/ d = NoDs /\ UNCHANGED wire
       \/ /\ d \in DStreams /\ Unused(d)
          /\ Budgeted => e.ds = d /\ e.resident
          /\ tx'[d] = "open" /\ ~gone'[d] /\ held'[d] = held[d]
          /\ OnlyObject(d)
    /\ UNCHANGED <<connVars, heard>>
    /\ \A c \in DStreams \ {d} : ectx'[c] = ectx[c]

(* Whatever wt_open comes to, the other slots and streams are as before.   *)
LEMMA OpenEnds ==
    ASSUME IInv, IInv', Agreed, At("wt_open"), NEW s, s = This.s,
           NEW d, NEW e, OpenedAs(s, d, e),
           NEW q \in {<<>>, <<Call("conn_fatal")>>}, Then(q),
           e.kind = "WT" => d \in DStreams /\ Lives(s)' /\ sess = "active",
           e.kind \in {"FREE", "WT"},
           d \in DStreams => ObjectOK(d)'
    PROVE  Agreed'
<1>1. PICK p : p = Call("conn_fatal")
  OBVIOUS
<1>2. p \in Frame /\ Light(p) /\ p.op = "conn_fatal"
  BY <1>1, PlainCalls
<1>3. q \in Seq(Frame) /\ Stacked(q) /\ Waiting(q) \subseteq {p}
  BY <1>1, <1>2, Lists, ShortStacks, WaitingLists
<1>4. /\ s \in Slots /\ slot[s].kind \in Freeish
      /\ Budgeted => slot[s].resident
      /\ slot[s].ds = NoDs
      /\ agenda /= <<>> /\ This.op = "wt_open"
      /\ \A t \in Slots : Idler(This, t)
      /\ \A f \in Waiting(Tail(agenda)) : f.s = s =>
           /\ f \in Frame /\ Owes(f) /\ f.op \in SlotOps
           /\ f.op /= "wt_open" /\ f.g /= slot[s].gen
  BY OpenAlone
<1>5. /\ slot'[s] = e /\ e.gen = slot[s].gen /\ sess' = sess /\ closed' = closed
      /\ heard' = heard
      /\ \A t \in Slots \ {s} : slot'[t] = slot[t]
  BY <1>4 DEF OpenedAs, connVars, IInv, TypeOK
<1>6. /\ Stacked(agenda)' /\ InputReady' /\ (Fatal => Fatal')
      /\ \A t \in Slots : DuesKept(t)
      /\ Waiting(agenda)' = Waiting(q) \cup Waiting(Tail(agenda))
      /\ Waiting(agenda) = {This} \cup Waiting(Tail(agenda))
  <2>1. \A f \in Waiting(q) : Light(f)
    BY <1>2, <1>3
  <2>2. \A t \in Slots : slot'[t].gen = slot[t].gen
    BY <1>5
  <2> QED BY <1>3, <1>4, <1>5, <2>1, <2>2, ThenSteady
<1>7. d \in DStreams => ~gone[d] /\ ectx[d] = NoSlot
  BY SlotAssumption DEF OpenedAs, Unused, Agreed, ObjectOK
<1>8. \A c \in DStreams : /\ gone[c] => gone'[c]
                          /\ c /= d => /\ tx'[c] = tx[c] /\ rx'[c] = rx[c]
                                       /\ gone'[c] = gone[c]
                                       /\ held'[c] = held[c]
                                       /\ ectx'[c] = ectx[c]
  BY <1>7, SlotAssumption DEF OpenedAs, OnlyObject, wire
<1>9. Steady
  BY <1>5, <1>6, <1>8 DEF Steady
<1>10. d \in DStreams \cup {NoDs}
  BY DEF OpenedAs
<1>11. Elsewhere(s, d)
  <2>1. \A t \in Slots \ {s} : slot[t].kind \in InUse => slot[t].ds /= d
    BY <1>7, <1>10, SlotAssumption DEF IInv, LinkIntegrity
  <2> QED BY <1>5, <1>8, <2>1 DEF Elsewhere
<1>12. PoolBound'
  <2> SUFFICES ASSUME Budgeted, NEW c \in DStreams, tx'[c] /= "none"
               PROVE  \E t \in Slots : slot'[t].ds = c /\ slot'[t].resident
    BY DEF PoolBound
  <2>1. CASE c = d
    BY <1>4, <1>5, <2>1, SlotAssumption DEF OpenedAs
  <2>2. CASE c /= d
    <3>1. PICK t \in Slots : slot[t].ds = c /\ slot[t].resident
      BY <1>8, <2>2 DEF Agreed, PoolBound
    <3>2. t /= s
      BY <1>4, <3>1, SlotAssumption
    <3> QED BY <1>5, <3>1, <3>2
  <2> QED BY <2>1, <2>2
<1>13. SlotOK(s)'
  <2>1. SlotOK(s)
    BY <1>4 DEF Agreed
  <2>2. CASE e.kind = "FREE"
    BY <1>5, <2>1, <2>2 DEF SlotOK, InUse
  <2>3. CASE e.kind = "WT"
    <3>1. Budgeted => e.resident
      BY <2>3, SlotAssumption DEF OpenedAs
    <3> QED BY <1>5, <2>1, <2>3, <3>1 DEF SlotOK
  <2> QED BY <2>2, <2>3
<1>14. ASSUME NEW f \in Waiting(Tail(agenda)), f.s = s PROVE Owes(f)'
  <2>1. /\ f \in Frame /\ Owes(f) /\ f.op \in SlotOps
        /\ f.op /= "wt_open" /\ f.g /= slot'[s].gen
        /\ slot'[s].gen = slot[s].gen
    BY <1>4, <1>5, <1>14
  <2>2. OpenOwes(f)' /\ StreamOwes(f)'
    BY <1>14, <2>1 DEF OpenOwes, StreamOwes, Own
  <2>3. ForStream(f)'
    BY <1>14, <2>1 DEF Owes, ForStream, Own
  <2>4. TornOwes(f)'
    BY <1>5, <1>14, <2>1 DEF Owes, TornOwes
  <2>5. f.op /= "terminal"
    BY <2>1 DEF SlotOps
  <2> QED BY <2>1, <2>2, <2>3, <2>4, <2>5 DEF Owes
<1>15. \A f \in Waiting(agenda)' :
         (f \in Waiting(agenda) /\ f.s /= s) \/ Owes(f)'
  BY <1>2, <1>3, <1>6, <1>14, PlainOwes
<1>16. slot[s].kind \notin InUse
  BY <1>4 DEF InUse, Freeish
<1> QED BY <1>4, <1>6, <1>9, <1>10, <1>11, <1>12, <1>13, <1>15, <1>16, OneTouched

(* The rest of wt_open: the open failed, was detached, or is live.         *)
LEMMA WtOpenedAgrees ==
    ASSUME IInv, IInv', Agreed, WtOpened PROVE Agreed'
<1>1. PICK s : s = This.s
  OBVIOUS
<1>2. At("wt_open") /\ UNCHANGED <<connVars, gens, heard>>
  BY DEF WtOpened
<1>3. /\ s \in Slots /\ slot[s] \in Estream /\ slot[s].kind \in Freeish
      /\ Budgeted => slot[s].resident
      /\ Blank(slot[s]) /\ slot[s].ds = NoDs
      /\ sess /= "ended" => heard[s] = {}
      /\ ~Budgeted => sess = "active"
  BY <1>1, <1>2, OpenAlone
<1>4. CASE /\ slot' = [slot EXCEPT ![s] = [@ EXCEPT !.kind = "FREE",
                                                    !.resident = FALSE]]
           /\ Then(<<>>)
           /\ UNCHANGED <<ectx, dgen, wire>>
  <2>1. PICK e : e = [slot[s] EXCEPT !.kind = "FREE", !.resident = FALSE]
    OBVIOUS
  <2>2. e \in Estream /\ e.kind = "FREE" /\ e.gen = slot[s].gen
    BY <1>3, <2>1 DEF Estream, Kinds
  <2>3. slot' = [slot EXCEPT ![s] = e]
    BY <1>4, <2>1
  <2>4. OpenedAs(s, NoDs, e)
    BY <1>2, <1>4, <2>2, <2>3 DEF OpenedAs
  <2> QED BY <1>1, <1>2, <1>4, <2>2, <2>4, SlotAssumption, OpenEnds
<1>5. ASSUME NEW d \in DStreams, NEW dead, Unused(d),
             dead = (Budgeted /\ (closed \/ sess /= "active")),
             tx' = [tx EXCEPT ![d] = "open"],
             rx' = [rx EXCEPT ![d] = IF slot[s].bidi THEN "open" ELSE @],
             gone' = [gone EXCEPT ![d] = FALSE], held' = held,
             \/ /\ ~dead
                /\ slot' = [slot EXCEPT ![s] = [slot[s] EXCEPT !.kind = "WT",
                              !.ds = d, !.local = TRUE, !.send = TRUE,
                              !.recv = slot[s].bidi]]
                /\ ectx' = [ectx EXCEPT ![d] = s]
                /\ Then(<<>>)
             \/ /\ slot' = [slot EXCEPT ![s] = [@ EXCEPT !.kind = "FREE",
                                                         !.ds = d]]
                /\ Then(IF dead THEN <<>> ELSE <<Call("conn_fatal")>>)
                /\ UNCHANGED ectx
      PROVE  Agreed'
  <2>1. /\ tx[d] = "none" /\ rx[d] = "none" /\ ectx[d] = NoSlot
        /\ ~closed => ~held[d]
        /\ Budgeted \in BOOLEAN
    BY <1>5, ModeAssumption DEF Unused, Agreed, ObjectOK
  <2>2. /\ tx'[d] = "open" /\ ~gone'[d] /\ held'[d] = held[d]
        /\ rx'[d] = (IF slot[s].bidi THEN "open" ELSE "none")
        /\ OnlyObject(d) /\ closed' = closed /\ sess' = sess /\ heard' = heard
    BY <1>2, <1>5, <2>1 DEF OnlyObject, IInv, TypeOK, connVars
  <2>3. ObjectOK(d)'
    BY <2>1, <2>2 DEF ObjectOK
  <2>4. CASE /\ ~dead
             /\ slot' = [slot EXCEPT ![s] = [slot[s] EXCEPT !.kind = "WT",
                           !.ds = d, !.local = TRUE, !.send = TRUE,
                           !.recv = slot[s].bidi]]
             /\ ectx' = [ectx EXCEPT ![d] = s]
             /\ Then(<<>>)
    <3>1. PICK e : e = [slot[s] EXCEPT !.kind = "WT", !.ds = d,
                          !.local = TRUE, !.send = TRUE, !.recv = slot[s].bidi]
      OBVIOUS
    <3>2. /\ e \in Estream /\ e.kind = "WT" /\ e.gen = slot[s].gen
          /\ e.ds = d /\ e.resident = slot[s].resident /\ e.local /\ e.send
          /\ e.recv = slot[s].bidi /\ e.bidi = slot[s].bidi
          /\ e.commit = slot[s].commit /\ e.fin = slot[s].fin
          /\ e.drain = slot[s].drain
      BY <1>3, <3>1 DEF Estream, Kinds, InUse
    <3>3. ~e.commit /\ ~e.fin /\ ~e.drain
      BY <1>3, <3>2 DEF Blank
    <3>4. slot' = [slot EXCEPT ![s] = e] /\ slot'[s] = e
      BY <1>3, <2>4, <3>1 DEF IInv, TypeOK
    <3>5. \A c \in DStreams \ {d} : ectx'[c] = ectx[c]
      BY <2>4 DEF IInv, TypeOK
    <3>6. OpenedAs(s, d, e)
      BY <1>2, <1>3, <1>5, <2>2, <3>2, <3>4, <3>5 DEF OpenedAs
    <3>7. sess = "active"
      BY <1>3, <1>5, <2>4
    <3>8. Lives(s)'
      <4>1. Shape(e)
        BY <3>2, <3>3 DEF Shape
      <4>2. SendSide(s)'
        BY <2>2, <3>2, <3>3, <3>4 DEF SendSide
      <4>3. RecvSide(s)'
        BY <2>2, <3>2, <3>3, <3>4 DEF RecvSide
      <4>4. Told(s)'
        BY <1>3, <2>2, <3>7 DEF Told
      <4>5. ~Done(e)
        BY <3>2 DEF Done
      <4> QED BY <2>2, <3>4, <3>7, <4>1, <4>2, <4>3, <4>4, <4>5 DEF Lives
    <3> QED BY <1>1, <1>2, <2>3, <2>4, <3>2, <3>6, <3>7, <3>8, OpenEnds
  <2>5. CASE /\ slot' = [slot EXCEPT ![s] = [@ EXCEPT !.kind = "FREE",
                                                      !.ds = d]]
             /\ Then(IF dead THEN <<>> ELSE <<Call("conn_fatal")>>)
             /\ UNCHANGED ectx
    <3>1. PICK e, q : /\ e = [slot[s] EXCEPT !.kind = "FREE", !.ds = d]
                      /\ q = IF dead THEN <<>> ELSE <<Call("conn_fatal")>>
      OBVIOUS
    <3>2. /\ e \in Estream /\ e.kind = "FREE" /\ e.gen = slot[s].gen
          /\ e.ds = d /\ e.resident = slot[s].resident
      BY <1>3, <3>1 DEF Estream, Kinds
    <3>3. slot' = [slot EXCEPT ![s] = e]
      BY <2>5, <3>1
    <3>4. OpenedAs(s, d, e)
      BY <1>2, <1>3, <1>5, <2>2, <2>5, <3>2, <3>3 DEF OpenedAs
    <3>5. Then(q) /\ q \in {<<>>, <<Call("conn_fatal")>>}
      BY <2>5, <3>1
    <3> QED BY <1>1, <1>2, <2>3, <3>2, <3>4, <3>5, OpenEnds
  <2> QED BY <1>5, <2>4, <2>5
<1> QED BY <1>1, <1>4, <1>5, Zenon DEF WtOpened

(* The bounds of the step where only the connection may be lost.           *)
LEMMA MayEndFatal ==
    ASSUME IInv, IInv', Agreed, Idle, UNCHANGED closed,
           NEW q \in {<<>>, <<App>>, <<Call("conn_fatal")>>}, Enter(q)
    PROVE  /\ Stacked(agenda)' /\ InputReady' /\ (Fatal => Fatal')
           /\ \A t \in Slots : slot'[t].gen = slot[t].gen => DuesKept(t)
           /\ \A f \in Waiting(agenda)' : Owes(f)'
           /\ Waiting(agenda) = {}
<1>1. PICK p, a : p = Call("conn_fatal") /\ a = App
  OBVIOUS
<1>2. /\ p \in Frame /\ Light(p) /\ p.op = "conn_fatal"
      /\ a \in Frame /\ Light(a) /\ a.op = "app"
  BY <1>1, PlainCalls
<1>3. /\ q \in Seq(Frame) /\ Stacked(q) /\ Waiting(q) \subseteq {p, a}
  <2>1. <<>> \in Seq(Frame) /\ Stacked(<<>>) /\ Waiting(<<>>) = {}
    BY Lists, ShortStacks, WaitingLists
  <2>2. \A f \in {p, a} :
          <<f>> \in Seq(Frame) /\ Stacked(<<f>>) /\ Waiting(<<f>>) = {f}
    BY <1>2, Lists, ShortStacks, WaitingLists
  <2>3. q = <<>> \/ q = <<p>> \/ q = <<a>>
    BY <1>1
  <2> QED BY <2>1, <2>2, <2>3
<1>4. \A f \in Waiting(q) : Light(f)
  BY <1>2, <1>3
<1>5. Waiting(agenda) = {}
  BY AtRest
<1>6. /\ Stacked(agenda)' /\ InputReady' /\ (Fatal => Fatal')
      /\ \A t \in Slots : slot'[t].gen = slot[t].gen => DuesKept(t)
      /\ Waiting(agenda)' = Waiting(q) \cup Waiting(agenda)
  BY <1>3, <1>4, EnterSteady
<1>7. \A f \in Waiting(agenda)' : Owes(f)'
  BY <1>2, <1>3, <1>5, <1>6, PlainOwes
<1> QED BY <1>5, <1>6, <1>7

(* A stream object that no slot uses changes.                              *)
LEMMA StrayTouched ==
    ASSUME IInv, Agreed, Steady, NEW d \in DStreams, ectx[d] = NoSlot,
           OnlyObject(d), UNCHANGED <<slot, ectx, heard>>,
           \A t \in Slots : DuesKept(t), Stacked(agenda)', InputReady',
           PoolBound', ObjectOK(d)', \A f \in Waiting(agenda)' : Owes(f)'
    PROVE  Agreed'
<1>1. \A t \in Slots : SlotOK(t)'
  <2> SUFFICES ASSUME NEW t \in Slots PROVE SlotOK(t)'
    OBVIOUS
  <2>1. SlotOK(t) /\ DuesKept(t)
    BY DEF Agreed
  <2>2. slot[t].kind \in InUse => slot[t].ds \in DStreams \ {d}
    BY SlotAssumption DEF IInv, LinkIntegrity
  <2>3. slot[t].kind \in InUse =>
             /\ tx'[slot[t].ds] = tx[slot[t].ds]
             /\ rx'[slot[t].ds] = rx[slot[t].ds]
             /\ gone'[slot[t].ds] = gone[slot[t].ds]
    BY <2>2 DEF OnlyObject
  <2> QED BY <2>1, <2>3, SlotStays
<1>2. \A c \in DStreams : ObjectOK(c)'
  <2> SUFFICES ASSUME NEW c \in DStreams, c /= d PROVE ObjectOK(c)'
    OBVIOUS
  <2>1. ObjectOK(c)
    BY DEF Agreed
  <2> QED BY <2>1, ObjectStays DEF OnlyObject, Steady
<1> QED BY <1>1, <1>2 DEF Agreed

(* A peer stream gets a slot, or is rejected.                              *)
LEMMA OnPeerOpenedAgrees ==
    ASSUME IInv, IInv', Agreed, NEW d \in DStreams, NEW b \in BOOLEAN,
           OnPeerOpened(d, b)
    PROVE  Agreed'
<1>1. /\ Idle /\ ~closed /\ ~Budgeted
      /\ tx[d] = "none" /\ rx[d] = "none" /\ ectx[d] = NoSlot
      /\ closed' = closed /\ sess' = sess /\ held' = held
      /\ gone' = [gone EXCEPT ![d] = FALSE]
      /\ rx' = [rx EXCEPT ![d] = IF Spare = {} THEN "stopped" ELSE "open"]
      /\ tx' = [tx EXCEPT ![d] = CASE ~b -> "none"
                                   [] b /\ Spare = {} -> "ended"
                                   [] OTHER -> "open"]
  BY DEF OnPeerOpened, Unused, connVars
<1>2. ~gone[d] /\ ~held[d]
  BY <1>1 DEF Agreed, ObjectOK
<1>3. /\ OnlyObject(d) /\ ~gone'[d] /\ ~held'[d]
      /\ \A c \in DStreams : gone[c] => gone'[c]
      /\ Spare /= {} => /\ rx'[d] = "open"
                        /\ tx'[d] = IF b THEN "open" ELSE "none"
  BY <1>1, <1>2 DEF OnlyObject, IInv, TypeOK
<1>4. ObjectOK(d)'
  BY <1>3 DEF ObjectOK
<1>5. PoolBound'
  BY <1>1 DEF PoolBound
<1>6. ASSUME Enter(<<>>) \/ Enter(<<Call("conn_fatal")>>),
             UNCHANGED <<slot, ectx, heard>>
      PROVE  Agreed'
  <2>1. PICK q \in {<<>>, <<App>>, <<Call("conn_fatal")>>} : Enter(q)
    BY <1>6
  <2>2. /\ Stacked(agenda)' /\ InputReady' /\ (Fatal => Fatal')
        /\ \A t \in Slots : slot'[t].gen = slot[t].gen => DuesKept(t)
        /\ \A f \in Waiting(agenda)' : Owes(f)'
    BY <1>1, <2>1, MayEndFatal
  <2>3. Steady
    BY <1>1, <1>3, <2>2 DEF Steady
  <2> QED BY <1>1, <1>3, <1>4, <1>5, <1>6, <2>2, <2>3, StrayTouched
<1>7. ASSUME NEW s \in Spare,
             slot' = [slot EXCEPT ![s] = [Fresh(s) EXCEPT !.kind = "TYPE",
                                            !.ds = d, !.bidi = b]],
             ectx' = [ectx EXCEPT ![d] = s],
             heard' = [heard EXCEPT ![s] = {}], agenda' = agenda
      PROVE  Agreed'
  <2>1. PICK e : e = [Fresh(s) EXCEPT !.kind = "TYPE", !.ds = d, !.bidi = b]
    OBVIOUS
  <2>2. e.kind = "TYPE" /\ e.ds = d /\ e.bidi = b /\ Blank(e)
    <3>1. e = [EmptySlot EXCEPT !.gen = gens + 1, !.kind = "TYPE", !.ds = d,
                                !.bidi = b]
      BY <2>1, Zenon DEF Fresh
    <3> QED BY <3>1 DEF EmptySlot, Blank
  <2>3. s \in Slots /\ slot[s].kind = "FREE" /\ Spare /= {}
    BY DEF Spare
  <2>4. /\ slot'[s] = e /\ heard'[s] = {}
        /\ \A t \in Slots \ {s} : slot'[t] = slot[t] /\ heard'[t] = heard[t]
        /\ \A c \in DStreams \ {d} : ectx'[c] = ectx[c]
    BY <1>7, <2>1, <2>3 DEF IInv, TypeOK
  <2>5. /\ Stacked(agenda)' /\ InputReady' /\ (Fatal => Fatal')
        /\ \A t \in Slots : slot'[t].gen = slot[t].gen => DuesKept(t)
        /\ Waiting(agenda)' = Waiting(agenda)
    BY <1>1, <1>7, StaysSteady
  <2>6. Waiting(agenda) = {}
    BY <1>1, AtRest
  <2>7. Steady
    BY <1>1, <1>3, <2>5 DEF Steady
  <2>8. Elsewhere(s, d)
    <3>1. \A t \in Slots \ {s} : slot[t].kind \in InUse => slot[t].ds /= d
      BY <1>1, SlotAssumption DEF IInv, LinkIntegrity
    <3> QED BY <1>3, <2>4, <3>1 DEF Elsewhere, OnlyObject
  <2>9. SlotOK(s)'
    BY <1>1, <1>3, <2>2, <2>3, <2>4 DEF SlotOK, Starts
  <2>10. \A t \in Slots \ {s} : DuesKept(t)
    BY <2>4, <2>5
  <2> QED BY <1>4, <1>5, <2>3, <2>5, <2>6, <2>7, <2>8, <2>9, <2>10, OneTouched
          DEF InUse
<1> QED BY <1>1, <1>6, <1>7, Zenon DEF OnPeerOpened

(* A complete preamble joins the stream to the session, or rejects it.     *)
LEMMA WtAssociateAgrees ==
    ASSUME IInv, IInv', Agreed, NEW d \in DStreams, WtAssociate(d)
    PROVE  Agreed'
<1>1. PICK s : s = ectx[d]
  OBVIOUS
<1>2. /\ Idle /\ ~closed /\ s /= NoSlot /\ slot[s].kind = "TYPE"
      /\ rx[d] = "open"
      /\ UNCHANGED <<connVars, gens, ectx, dgen, heard>>
  BY <1>1 DEF WtAssociate
<1>3. /\ s \in Slots /\ slot[s].ds = d /\ slot[s].kind \in InUse
      /\ slot[s] \in Estream /\ SlotOK(s) /\ ObjectOK(d)
  BY <1>1, <1>2 DEF IInv, TypeOK, LinkIntegrity, Linked, Agreed
<1>4. /\ Starts(s) /\ ~held[d] /\ (Budgeted => slot[s].resident)
      /\ ectx'[d] = s /\ closed' = closed /\ sess' = sess /\ heard' = heard
      /\ ectx' = ectx
  BY <1>1, <1>2, <1>3 DEF SlotOK, ObjectOK, connVars
<1>5. \A t \in Slots \ {s} : slot[t].kind \in InUse => slot[t].ds /= d
  BY <1>3, Alone
<1>6. ASSUME NEW e, e.gen = slot[s].gen, e.ds = d,
             e.resident = slot[s].resident,
             slot' = [slot EXCEPT ![s] = e], OnlyObject(d),
             gone'[d] = gone[d],
             SlotOK(s)', ObjectOK(d)',
             NEW q \in {<<>>, <<App>>, <<Call("conn_fatal")>>}, Enter(q)
      PROVE  Agreed'
  <2>1. /\ slot'[s] = e /\ \A t \in Slots \ {s} : slot'[t] = slot[t]
    BY <1>3, <1>6 DEF IInv, TypeOK
  <2>2. /\ Stacked(agenda)' /\ InputReady' /\ (Fatal => Fatal')
        /\ \A t \in Slots : slot'[t].gen = slot[t].gen => DuesKept(t)
        /\ \A f \in Waiting(agenda)' : Owes(f)'
    BY <1>2, <1>4, <1>6, MayEndFatal
  <2>3. Steady
    BY <1>4, <1>6, <2>2 DEF Steady, OnlyObject
  <2>4. Elsewhere(s, d)
    BY <1>4, <1>5, <1>6, <2>1 DEF Elsewhere, OnlyObject
  <2>5. PoolBound'
    <3>1. \A t \in Slots : /\ slot'[t].ds = slot[t].ds
                           /\ slot'[t].resident = slot[t].resident
      BY <1>3, <1>6, <2>1
    <3>2. \A c \in DStreams \ {d} : tx'[c] = tx[c]
      BY <1>6 DEF OnlyObject
    <3> QED BY <1>3, <1>4, <3>1, <3>2 DEF Agreed, PoolBound
  <2>6. \A t \in Slots \ {s} : DuesKept(t)
    BY <2>1, <2>2
  <2> QED BY <1>3, <1>6, <2>2, <2>3, <2>4, <2>5, <2>6, OneTouched
<1>7. CASE Enter(<<Call("conn_fatal")>>) /\ UNCHANGED <<slot, wire>>
  BY <1>2, <1>7, EntersQuietly DEF connVars
<1>8. CASE /\ sess = "active"
           /\ slot' = [slot EXCEPT ![s] = [slot[s] EXCEPT !.kind = "WT",
                             !.recv = TRUE, !.send = slot[s].bidi]]
           /\ Enter(<<App>>)
           /\ UNCHANGED wire
  <2>1. PICK e : e = [slot[s] EXCEPT !.kind = "WT", !.recv = TRUE,
                                     !.send = slot[s].bidi]
    OBVIOUS
  <2>2. /\ e.kind = "WT" /\ e.gen = slot[s].gen /\ e.ds = d
        /\ e.resident = slot[s].resident /\ e.recv /\ e.send = slot[s].bidi
        /\ e.bidi = slot[s].bidi
        /\ ~e.local /\ ~e.drain /\ ~e.fin /\ ~e.commit /\ ~e.paused
    BY <1>3, <1>4, <2>1 DEF Estream, Starts, Blank
  <2>3. slot' = [slot EXCEPT ![s] = e] /\ slot'[s] = e
    BY <1>3, <1>8, <2>1 DEF IInv, TypeOK
  <2>4. /\ tx' = tx /\ rx' = rx /\ gone' = gone /\ held' = held
    BY <1>8 DEF wire
  <2>5. /\ tx[d] = (IF slot[s].bidi THEN "open" ELSE "none")
        /\ heard[s] = {}
    BY <1>3, <1>4, <1>8 DEF Starts
  <2>6. Lives(s)'
    <3>1. Shape(e)
      BY <2>2 DEF Shape
    <3>2. SendSide(s)'
      BY <2>2, <2>3, <2>4, <2>5 DEF SendSide
    <3>3. RecvSide(s)'
      BY <1>2, <2>2, <2>3, <2>4 DEF RecvSide
    <3>4. Told(s)'
      BY <1>4, <2>5 DEF Told
    <3>5. ~Done(e)
      BY <2>2 DEF Done
    <3> QED BY <1>4, <1>8, <2>3, <3>1, <3>2, <3>3, <3>4, <3>5 DEF Lives
  <2>7. SlotOK(s)'
    BY <1>3, <1>4, <2>2, <2>3, <2>6 DEF SlotOK
  <2>8. ObjectOK(d)'
    BY <1>3, <1>4, <2>4 DEF ObjectOK
  <2>9. OnlyObject(d) /\ gone'[d] = gone[d]
    BY <2>4 DEF OnlyObject
  <2> QED BY <1>6, <1>8, <2>2, <2>3, <2>7, <2>8, <2>9
<1>9. ASSUME NEW h, h = (IF slot[s].bidi THEN Halves ELSE {"recv"}),
             slot' = [slot EXCEPT ![s] = [@ EXCEPT !.kind = "DRAIN"]],
             WireShut(d, h), Enter(<<>>) \/ Enter(<<Call("conn_fatal")>>)
      PROVE  Agreed'
  <2>1. PICK e : e = [slot[s] EXCEPT !.kind = "DRAIN"]
    OBVIOUS
  <2>2. /\ e.kind = "DRAIN" /\ e.gen = slot[s].gen /\ e.ds = d
        /\ e.resident = slot[s].resident
    BY <1>3, <2>1 DEF Estream
  <2>3. slot' = [slot EXCEPT ![s] = e] /\ slot'[s] = e
    BY <1>3, <1>9, <2>1 DEF IInv, TypeOK
  <2>4. "recv" \in h
    BY <1>9 DEF Halves
  <2>5. /\ OnlyObject(d) /\ gone'[d] = gone[d] /\ ~held'[d]
        /\ rx'[d] = "stopped"
    BY <1>2, <1>9, <2>4 DEF WireShut, OnlyObject, IInv, TypeOK
  <2>6. ObjectOK(d)'
    BY <1>3, <2>5 DEF ObjectOK
  <2>7. SlotOK(s)'
    BY <1>3, <1>4, <2>2, <2>3 DEF SlotOK
  <2>8. PICK q \in {<<>>, <<App>>, <<Call("conn_fatal")>>} : Enter(q)
    BY <1>9
  <2> QED BY <1>6, <2>2, <2>3, <2>5, <2>6, <2>7, <2>8
<1> QED BY <1>1, <1>7, <1>8, <1>9, Zenon DEF WtAssociate

(* The backend forgets an object that ended whole, and its slot is spare.  *)
LEMMA RetireAgrees ==
    ASSUME IInv, IInv', Agreed, NEW d \in DStreams, Retire(d)
    PROVE  Agreed'
<1>1. /\ Idle /\ ectx[d] = NoSlot
      /\ tx' = [tx EXCEPT ![d] = "none"] /\ rx' = [rx EXCEPT ![d] = "none"]
      /\ gone' = [gone EXCEPT ![d] = FALSE] /\ held' = [held EXCEPT ![d] = FALSE]
      /\ UNCHANGED <<connVars, gens, ectx, dgen, agenda, heard>>
  BY DEF Retire
<1>2. /\ tx'[d] = "none" /\ ~gone'[d] /\ ~held'[d]
      /\ OnlyObject(d) /\ closed' = closed /\ sess' = sess
      /\ heard' = heard /\ ectx' = ectx
  BY <1>1 DEF OnlyObject, IInv, TypeOK, connVars
<1>3. ASSUME NEW t \in Slots
      PROVE  /\ slot'[t].kind = slot[t].kind /\ slot'[t].gen = slot[t].gen
             /\ (slot[t].kind /= "FREE" \/ slot[t].ds /= d)
                  => slot'[t] = slot[t]
  <2>1. PICK e : e = [slot[t] EXCEPT !.resident = FALSE, !.ds = NoDs]
    OBVIOUS
  <2>2. e.kind = slot[t].kind /\ e.gen = slot[t].gen
    BY <2>1 DEF IInv, TypeOK, Estream
  <2>3. CASE Budgeted /\ slot[t].ds = d /\ slot[t].kind = "FREE"
    BY <2>1, <2>2, <2>3 DEF Retire
  <2>4. CASE ~(Budgeted /\ slot[t].ds = d /\ slot[t].kind = "FREE")
    <3>1. slot'[t] = slot[t]
      BY <2>4 DEF Retire
    <3> QED BY <3>1
  <2> QED BY <2>3, <2>4
<1>4. /\ Stacked(agenda)' /\ InputReady' /\ (Fatal => Fatal')
      /\ \A t \in Slots : slot'[t].gen = slot[t].gen => DuesKept(t)
      /\ Waiting(agenda)' = Waiting(agenda) /\ Waiting(agenda) = {}
  BY <1>1, <1>2, StaysSteady, AtRest
<1>5. ASSUME NEW t \in Slots PROVE SlotOK(t)'
  <2>1. SlotOK(t) /\ DuesKept(t) /\ slot'[t].kind = slot[t].kind
    BY <1>3, <1>4 DEF Agreed
  <2>2. ASSUME slot[t].kind \in InUse
        PROVE  /\ slot'[t] = slot[t]
               /\ tx'[slot[t].ds] = tx[slot[t].ds]
               /\ rx'[slot[t].ds] = rx[slot[t].ds]
               /\ gone'[slot[t].ds] = gone[slot[t].ds]
    <3>1. slot[t].ds \in DStreams /\ slot[t].ds /= d
      BY <1>1, <2>2, SlotAssumption DEF IInv, LinkIntegrity
    <3> QED BY <1>2, <1>3, <3>1 DEF OnlyObject
  <2>3. ASSUME slot[t].kind = "WT" PROVE Lives(t)'
    <3>1. Lives(t)
      BY <2>1, <2>3 DEF SlotOK
    <3>2. /\ slot'[t] = slot[t]
          /\ tx'[slot[t].ds] = tx[slot[t].ds]
          /\ rx'[slot[t].ds] = rx[slot[t].ds]
          /\ gone'[slot[t].ds] = gone[slot[t].ds]
      BY <2>2, <2>3 DEF InUse
    <3>3. SendSide(t)'
      BY <1>4, <2>1, <2>3, <3>1, <3>2 DEF Lives, SendSide, DuesKept, Halves
    <3>4. RecvSide(t)'
      BY <1>4, <2>1, <2>3, <3>1, <3>2 DEF Lives, RecvSide, DuesKept, Halves
    <3>5. Told(t)'
      BY <1>2, <3>1, <3>2 DEF Lives, Told, LiveHalves
    <3>6. (sess = "ended" /\ LiveHalves(slot[t]) /= {})
            => (TornDue(t) \/ TeardownDue(t))'
      BY <2>1, <2>3, <3>1, Zenon DEF Lives, DuesKept
    <3>7. Done(slot[t]) => SettleDue(t)'
      BY <2>1, <2>3, <3>1 DEF Lives, DuesKept
    <3> QED BY <1>2, <3>1, <3>2, <3>3, <3>4, <3>5, <3>6, <3>7 DEF Lives
  <2>4. ASSUME slot[t].kind = "TYPE" PROVE Starts(t)'
    BY <1>2, <2>1, <2>2, <2>4 DEF SlotOK, Starts, InUse
  <2> QED BY <1>2, <2>1, <2>2, <2>3, <2>4 DEF SlotOK, InUse
<1>6. ASSUME NEW c \in DStreams PROVE ObjectOK(c)'
  <2>1. CASE c = d
    BY <1>2, <2>1 DEF ObjectOK
  <2>2. CASE c /= d
    <3>1. ectx[c] /= NoSlot => slot'[ectx[c]] = slot[ectx[c]]
      <4> SUFFICES ASSUME ectx[c] /= NoSlot
                   PROVE  slot'[ectx[c]] = slot[ectx[c]]
        OBVIOUS
      <4>1. ectx[c] \in Slots /\ slot[ectx[c]].kind \in InUse
        BY DEF IInv, TypeOK, LinkIntegrity, Linked
      <4>2. slot[ectx[c]].kind /= "FREE"
        BY <4>1 DEF InUse
      <4> QED BY <1>3, <4>1, <4>2
    <3>2. ObjectOK(c)
      BY DEF Agreed
    <3> QED BY <1>2, <2>2, <3>1, <3>2, ObjectStays DEF OnlyObject
  <2> QED BY <2>1, <2>2
<1>7. PoolBound'
  <2> SUFFICES ASSUME Budgeted, NEW c \in DStreams, tx'[c] /= "none"
               PROVE  \E t \in Slots : slot'[t].ds = c /\ slot'[t].resident
    BY DEF PoolBound
  <2>1. c /= d
    BY <1>2
  <2>2. PICK t \in Slots : slot[t].ds = c /\ slot[t].resident
    BY <1>2, <2>1 DEF Agreed, PoolBound, OnlyObject
  <2> QED BY <1>3, <2>1, <2>2
<1> QED BY <1>4, <1>5, <1>6, <1>7 DEF Agreed

-----------------------------------------------------------------------------
(* The theorems.                                                           *)

(* A new connection is in agreement.                                       *)
LEMMA InitAgrees == Init => Agreed
<1> SUFFICES ASSUME Init PROVE Agreed
  OBVIOUS
<1>1. agenda = <<>> /\ Waiting(agenda) = {} /\ Stacked(agenda)
  BY WaitingLists, ShortStacks DEF Init
<1>2. InputReady
  BY <1>1 DEF InputReady, At
<1>3. PoolBound
  BY DEF Init, PoolBound
<1>4. \A s \in Slots : SlotOK(s)
  BY DEF Init, SlotOK, EmptySlot, InUse
<1>5. \A d \in DStreams : ObjectOK(d)
  BY DEF Init, ObjectOK
<1> QED BY <1>1, <1>2, <1>3, <1>4, <1>5 DEF Agreed

(* Nothing happens on the connection.                                      *)
LEMMA StutterAgrees == ASSUME IInv, Agreed, UNCHANGED vars PROVE Agreed'
<1>1. /\ UNCHANGED <<closed, sess, slot, ectx, tx, rx, gone, held, heard>>
      /\ agenda' = agenda
  BY DEF vars, connVars, wire
<1>2. Waiting(agenda)' = Waiting(agenda) /\ Stacked(agenda)'
  BY <1>1 DEF Agreed
<1>3. \A t \in Slots : DuesKept(t)
  BY <1>1, <1>2, DuesStay
<1>4. Fatal => Fatal'
  BY <1>1, <1>2, FatalStays
<1>5. Steady
  BY <1>1, <1>4 DEF Steady
<1>6. InputReady'
  BY <1>1 DEF Agreed, InputReady, At, This
<1> QED BY <1>1, <1>2, <1>3, <1>5, <1>6, NoneChanged DEF wire

(* Every step of the connection keeps the agreement.                       *)
LEMMA StepAgrees == IInv /\ Agreed /\ [Next]_vars => Agreed'
<1> SUFFICES ASSUME IInv, Agreed, [Next]_vars PROVE Agreed'
  OBVIOUS
<1>1. IInv'
  BY StepHolds
<1>2. CASE EngineStep
  BY <1>1, <1>2, AppReturnsAgrees, ConnFatalAgrees, SessionClosedAgrees,
     TeardownAgrees, TornAgrees, WtOpenedAgrees, InputAgrees, MoreAgrees,
     FinDeliveredAgrees, SettleAfterResetAgrees, SettleIfSameAgrees,
     OnStreamTerminalAgrees, TerminalReleaseAgrees, WtSentAgrees,
     WtShutdownDoneAgrees DEF EngineStep
<1>3. CASE BackendInput
  BY <1>1, <1>3, EstablishAgrees, OnConnLostAgrees, OnPeerOpenedAgrees,
     OnSendShutdownAgrees, WtAssociateAgrees, RetireAgrees,
     OnStreamBytesAgrees, OnEarlyFinAgrees, OnStreamResetAgrees,
     OnStopSendingAgrees, TransportGoneAgrees, ReportTerminalAgrees,
     CapsAssumption, Zenon DEF BackendInput
<1>4. CASE AppOperation
  BY <1>1, <1>4, SessionEndsAgrees, WtOpenAgrees, WtSendAgrees,
     RecvEnableAgrees, WtShutdownAgrees, EnableSendCommitAgrees,
     CapsAssumption, Zenon DEF AppOperation
<1>5. CASE UNCHANGED vars
  BY <1>5, StutterAgrees
<1> QED BY <1>2, <1>3, <1>4, <1>5 DEF Next

(* Engine, transport, backend and application agree on every stream, and   *)
(* each call that waits on the stack still does the part that is missing:  *)
(* the invariant behind the theorems below.                                *)
THEOREM AgreedHolds == Spec => [](IInv /\ Agreed)
<1>1. Init => IInv /\ Agreed
  BY InitHolds, InitAgrees
<1>2. (IInv /\ Agreed) /\ [Next]_vars => (IInv /\ Agreed)'
  BY StepHolds, StepAgrees
<1> QED BY <1>1, <1>2, PTL DEF Spec

(* wt_send, wt_shutdown, the transport's events and the callbacks nested   *)
(* in them: whenever no call is running, the engine's record of the two    *)
(* halves of a live stream is the transport's, and no callback was late.   *)
THEOREM HalvesAgree == Spec => []StreamsAgree
<1>1. ASSUME IInv, Agreed PROVE StreamsAgree
  <2>1. CallbacksInOrder
    BY <1>1 DEF Agreed, SlotOK, CallbacksInOrder
  <2>2. ASSUME Idle, ~closed, NEW s \in Slots, slot[s].kind = "WT",
               ~gone[slot[s].ds]
        PROVE  /\ slot[s].send <=> tx[slot[s].ds] = "open"
               /\ slot[s].fin => tx[slot[s].ds] = "fin"
               /\ slot[s].recv <=> rx[slot[s].ds] = "open"
               /\ slot[s].drain <=> rx[slot[s].ds] = "stopped"
    <3>1. PICK e, d : e = slot[s] /\ d = e.ds
      OBVIOUS
    <3>2. /\ e.send => tx[d] = "open"
          /\ e.fin => tx[d] = "fin"
          /\ ~e.send => tx[d] /= "open"
          /\ e.recv => rx[d] = "open"
          /\ ~e.recv => rx[d] /= "open"
          /\ e.drain => rx[d] = "stopped"
          /\ rx[d] = "stopped" => (e.recv \/ e.drain)
      BY <1>1, <2>2, <3>1, AtRest
    <3>3. e \in Estream
      BY <1>1, <3>1 DEF IInv, TypeOK
    <3> QED BY <3>1, <3>2, <3>3 DEF Estream
  <2> QED BY <2>1, <2>2 DEF StreamsAgree, SendHalvesAgree, RecvHalvesAgree
<1> QED BY <1>1, AgreedHolds, PTL

(* wt_release_if_done and session_closed: whenever no call is running, no  *)
(* finished stream keeps its slot, and after the session's end the streams *)
(* that remain only wait for their drains.                                 *)
THEOREM NoneStranded == Spec => []NoStrandedStream
<1>1. ASSUME IInv, Agreed PROVE NoStrandedStream
  <2> SUFFICES ASSUME Idle, ~closed, NEW s \in Slots, slot[s].kind = "WT"
               PROVE  /\ LiveHalves(slot[s]) /= {} \/ slot[s].drain
                      /\ sess = "ended" => LiveHalves(slot[s]) = {}
    BY DEF NoStrandedStream
  <2>1. /\ ~Done(slot[s])
        /\ sess = "ended" => LiveHalves(slot[s]) = {}
    BY <1>1, AtRest
  <2>2. slot[s].send \/ slot[s].fin \/ slot[s].recv \/ slot[s].drain
    BY <2>1 DEF Done
  <2>3. (slot[s].send \/ slot[s].fin) => "send" \in LiveHalves(slot[s])
    BY DEF LiveHalves, Halves
  <2>4. slot[s].recv => "recv" \in LiveHalves(slot[s])
    BY DEF LiveHalves, Halves
  <2> QED BY <2>1, <2>2, <2>3, <2>4
<1> QED BY <1>1, AgreedHolds, PTL

(* recv_enable and admission mode's slots: a held FIN is only held for a   *)
(* pause that its application still asks for, and every native stream has  *)
(* a slot of its own until wtq_conn_stream_retire_v2.                      *)
THEOREM BudgetKept == Spec => []BudgetHonoured
<1>1. ASSUME IInv, Agreed PROVE HeldOnlyWhilePaused /\ PoolBound
  <2>1. PoolBound
    BY <1>1 DEF Agreed
  <2>2. HeldOnlyWhilePaused
    BY <1>1 DEF Agreed, ObjectOK, HeldOnlyWhilePaused, Linked
  <2> QED BY <2>1, <2>2
<1>2. Spec => [](HeldOnlyWhilePaused /\ PoolBound)
  BY <1>1, AgreedHolds, PTL
<1>3. (HeldOnlyWhilePaused /\ PoolBound /\ StreamsAgree) => BudgetHonoured
  BY DEF BudgetHonoured
<1> QED BY <1>2, <1>3, HalvesAgree, PTL
=============================================================================
