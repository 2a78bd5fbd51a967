------------------------ MODULE EngineStreams_proof ------------------------
(***************************************************************************)
(* Proofs about EngineStreams, for every number of slots and stream        *)
(* objects, in both modes: every variable keeps its type, and the link     *)
(* from a stream object to its slot never outlives the slot's use.         *)
(***************************************************************************)
EXTENDS EngineStreams, SequenceTheorems, TLAPS

-----------------------------------------------------------------------------
(* The call stack.                                                         *)

(* At most one wt_open is pending for a slot; in the shared pool nothing   *)
(* runs under the driver's open, so it can only be on top.                 *)
OpensDistinct(q) ==
    /\ \A i, j \in 1..Len(q) :
         (q[i].op = "wt_open" /\ q[j].op = "wt_open" /\ i /= j)
            => q[i].s /= q[j].s
    /\ ~Budgeted => \A i \in 2..Len(q) : q[i].op /= "wt_open"

(* Every pending wt_open of r is pending in q.                             *)
OpensFrom(q, r) ==
    \A i \in 1..Len(r) : r[i].op = "wt_open" =>
        \E j \in 1..Len(q) : q[j] = r[i]

(* A call stack that is not empty, without its top frame.                  *)
LEMMA TailFacts ==
    ASSUME NEW q \in Seq(Frame), q /= <<>>
    PROVE  /\ Tail(q) \in Seq(Frame) /\ Len(Tail(q)) = Len(q) - 1
           /\ \A i \in 1..Len(Tail(q)) : Tail(q)[i] = q[i + 1]
           /\ Len(q) \in Nat \ {0} /\ Head(q) = q[1] /\ q[1] \in Frame
  BY SMT

(* A call stack with further calls on top.                                 *)
LEMMA ConcatFacts ==
    ASSUME NEW c \in Seq(Frame), NEW q \in Seq(Frame)
    PROVE  /\ c \o q \in Seq(Frame) /\ Len(c \o q) = Len(c) + Len(q)
           /\ \A i \in 1..Len(c) : (c \o q)[i] = c[i]
           /\ \A i \in 1..Len(q) : (c \o q)[Len(c) + i] = q[i]
           /\ Len(c) \in Nat /\ Len(q) \in Nat
  BY SMT

(* Frames a step may push: any but a pending wt_open.                      *)
Pushables == {f \in Frame : f.op /= "wt_open"}

(* Calls a step may push are frames, none of them a pending wt_open.       *)
LEMMA PushablesAreFrames ==
    ASSUME NEW c \in Seq(Pushables)
    PROVE  /\ c \in Seq(Frame)
           /\ \A i \in 1..Len(c) : c[i].op /= "wt_open"
  BY SMT DEF Pushables

(* r can follow the present stack: it is well formed and has no pending    *)
(* wt_open that the stack does not have.                                   *)
StackKept(r) == r \in Seq(Frame) /\ OpensDistinct(r) /\ OpensFrom(agenda, r)

(* Calls pushed by a callback or an event leave the pending opens alone.   *)
LEMMA Push ==
    ASSUME agenda \in Seq(Frame), OpensDistinct(agenda),
           NEW c \in Seq(Pushables),
           agenda = <<>> \/ Head(agenda).op /= "wt_open"
    PROVE  StackKept(c \o agenda)
<1>1. /\ c \in Seq(Frame)
      /\ \A i \in 1..Len(c) : c[i].op /= "wt_open"
  BY PushablesAreFrames
<1>2. /\ c \o agenda \in Seq(Frame) /\ Len(c \o agenda) = Len(c) + Len(agenda)
      /\ \A i \in 1..Len(c) : (c \o agenda)[i] = c[i]
      /\ \A i \in 1..Len(agenda) : (c \o agenda)[Len(c) + i] = agenda[i]
      /\ Len(c) \in Nat /\ Len(agenda) \in Nat
  BY <1>1, ConcatFacts
<1>3. ASSUME NEW i \in 1..Len(c \o agenda), (c \o agenda)[i].op = "wt_open"
      PROVE  /\ i - Len(c) \in 1..Len(agenda)
             /\ (c \o agenda)[i] = agenda[i - Len(c)]
  BY <1>1, <1>2, <1>3
<1>4. OpensFrom(agenda, c \o agenda)
  BY <1>3 DEF OpensFrom
<1>5. ASSUME NEW i \in 1..Len(c \o agenda), NEW j \in 1..Len(c \o agenda),
             (c \o agenda)[i].op = "wt_open", (c \o agenda)[j].op = "wt_open",
             i /= j
      PROVE  (c \o agenda)[i].s /= (c \o agenda)[j].s
  <2>1. i - Len(c) /= j - Len(c)
    BY <1>2, <1>5
  <2> QED BY <1>3, <1>5, <2>1 DEF OpensDistinct
<1>6. ASSUME ~Budgeted, NEW i \in 2..Len(c \o agenda),
             (c \o agenda)[i].op = "wt_open"
      PROVE  FALSE
  <2>1. i \in 1..Len(c \o agenda)
    BY <1>2
  <2>2. /\ i - Len(c) \in 1..Len(agenda)
        /\ agenda[i - Len(c)].op = "wt_open"
    BY <1>3, <1>6, <2>1
  <2>3. i - Len(c) /= 1
    BY <2>2, <1>2
  <2> QED BY <1>2, <1>6, <2>2, <2>3 DEF OpensDistinct
<1> QED BY <1>2, <1>4, <1>5, <1>6 DEF StackKept, OpensDistinct

(* Calls that take the place of the running one do too, and the opens that *)
(* remain are those below it.                                              *)
LEMMA Replace ==
    ASSUME agenda \in Seq(Frame), OpensDistinct(agenda), agenda /= <<>>,
           NEW c \in Seq(Pushables)
    PROVE  /\ StackKept(c \o Tail(agenda))
           /\ \A i \in 1..Len(c \o Tail(agenda)) :
                (c \o Tail(agenda))[i].op = "wt_open" =>
                  \E j \in 2..Len(agenda) : agenda[j] = (c \o Tail(agenda))[i]
<1> DEFINE r == c \o Tail(agenda)
<1>1. /\ c \in Seq(Frame)
      /\ \A i \in 1..Len(c) : c[i].op /= "wt_open"
  BY PushablesAreFrames
<1>2. /\ Tail(agenda) \in Seq(Frame) /\ Len(Tail(agenda)) = Len(agenda) - 1
      /\ \A i \in 1..Len(Tail(agenda)) : Tail(agenda)[i] = agenda[i + 1]
      /\ Len(agenda) \in Nat \ {0}
  BY TailFacts
<1>3. /\ r \in Seq(Frame) /\ Len(r) = Len(c) + Len(agenda) - 1
      /\ \A i \in 1..Len(c) : r[i] = c[i]
      /\ \A i \in 1..(Len(agenda) - 1) : r[Len(c) + i] = agenda[i + 1]
      /\ Len(c) \in Nat
  BY <1>1, <1>2, ConcatFacts
<1> HIDE DEF r
<1>4. ASSUME NEW i \in 1..Len(r), r[i].op = "wt_open"
      PROVE  /\ i - Len(c) + 1 \in 2..Len(agenda)
             /\ r[i] = agenda[i - Len(c) + 1]
  <2>1. i \notin 1..Len(c)
    BY <1>1, <1>3, <1>4
  <2>2. PICK k \in 1..(Len(agenda) - 1) : i = Len(c) + k
    <3>1. i - Len(c) \in 1..(Len(agenda) - 1)
      BY <1>2, <1>3, <2>1
    <3>2. i = Len(c) + (i - Len(c))
      BY <1>2, <1>3
    <3> QED BY <3>1, <3>2
  <2>3. i - Len(c) + 1 = k + 1
    BY <1>2, <1>3, <2>2
  <2> QED BY <1>2, <1>3, <2>2, <2>3
<1>5. OpensFrom(agenda, r)
  BY <1>2, <1>4, SMTT(30) DEF OpensFrom
<1>6. ASSUME NEW i \in 1..Len(r), NEW j \in 1..Len(r), i /= j,
             r[i].op = "wt_open", r[j].op = "wt_open"
      PROVE  r[i].s /= r[j].s
  <2>1. i - Len(c) + 1 /= j - Len(c) + 1
    BY <1>3, <1>6
  <2>2. /\ i - Len(c) + 1 \in 1..Len(agenda)
        /\ j - Len(c) + 1 \in 1..Len(agenda)
    BY <1>2, <1>3, <1>4, <1>6
  <2> QED BY <1>4, <1>6, <2>1, <2>2 DEF OpensDistinct
<1>7. ASSUME ~Budgeted, NEW i \in 1..Len(r), r[i].op = "wt_open"
      PROVE  FALSE
  BY <1>4, <1>7 DEF OpensDistinct
<1>8. StackKept(r)
  BY <1>3, <1>5, <1>6, <1>7 DEF StackKept, OpensDistinct
<1>9. \A i \in 1..Len(r) : r[i].op = "wt_open" =>
        \E j \in 2..Len(agenda) : agenda[j] = r[i]
  BY <1>4
<1> QED BY <1>8, <1>9 DEF r

(* The frames the actions push.                                            *)
LEMMA PlainFrames ==
    /\ App \in Pushables /\ Call("conn_fatal") \in Pushables
    /\ Call("session_closed") \in Pushables
    /\ \A x \in SUBSET Slots : [Call("teardown") EXCEPT !.x = x] \in Pushables
  BY DEF App, Call, Pushables, Frame, PlainOps

(* A call for a stream object (on_stream_bytes, on_stream_terminal).       *)
LEMMA StreamFrames ==
    ASSUME NEW d \in DStreams, NEW op \in StreamOps
    PROVE  CallFor(op, d) \in Pushables
  BY DEF CallFor, Pushables, Frame, StreamOps

(* A call for the stream in a slot: the rest of a function that holds an   *)
(* estream pointer.                                                        *)
LEMMA SlotFrames ==
    ASSUME slot \in [Slots -> Estream], NEW s \in Slots,
           NEW op \in SlotOps, op /= "wt_open",
           NEW x \in SUBSET (Slots \cup Halves \cup {"fin"})
    PROVE  CallOn(op, s, x) \in Pushables
  BY DEF CallOn, Pushables, Frame, SlotOps, Estream

(* What the frame on top of the stack names.                               *)
LEMMA TopFrame ==
    ASSUME agenda \in Seq(Frame), agenda /= <<>>
    PROVE  /\ This \in Frame
           /\ This.op \in SlotOps => This.s \in Slots
           /\ This.op \in SlotOps => This.x \in SUBSET (Slots \cup Halves \cup {"fin"})
           /\ This.op \in StreamOps => This.d \in DStreams
           /\ This.op = "teardown" =>
                /\ This.x \in SUBSET Slots
                /\ \A y \in SUBSET Slots : [This EXCEPT !.x = y] \in Pushables
<1>1. This \in Frame
  BY TailFacts DEF This
<1> QED BY <1>1 DEF Frame, SlotOps, StreamOps, PlainOps, Pushables

-----------------------------------------------------------------------------
(* The slots.                                                              *)

Freeish == {"FREE", "RESERVED"}

(* A pending wt_open keeps its slot: nobody else uses it meanwhile.        *)
OpensReserved ==
    \A i \in 1..Len(agenda) : agenda[i].op = "wt_open" =>
        /\ slot[agenda[i].s].kind \in Freeish
        /\ Budgeted => slot[agenda[i].s].resident

(* The inductive invariant.                                                *)
IInv == TypeOK /\ LinkIntegrity /\ OpensDistinct(agenda) /\ OpensReserved

(* e is the same stream as f, up to the state of its halves.               *)
SameUse(e, f) == /\ e.kind = f.kind /\ e.ds = f.ds /\ e.gen = f.gen
                 /\ e.resident = f.resident

(* What every step but an open, an association and a retirement does to    *)
(* the slots.                                                              *)
SlotsKept ==
    /\ slot' \in [Slots -> Estream]
    /\ ectx' \in [DStreams -> Slots \cup {NoSlot}]
    /\ LinkIntegrity'
    /\ \A t \in Slots :
         /\ slot'[t].gen = slot[t].gen /\ slot'[t].resident = slot[t].resident
         /\ slot[t].kind \in Freeish => slot'[t].kind \in Freeish

(* A step that touches no slot and no link.                                *)
LEMMA NoneTouched ==
    ASSUME TypeOK, LinkIntegrity, UNCHANGED <<slot, ectx, dgen>>
    PROVE  SlotsKept
  BY DEF SlotsKept, TypeOK, LinkIntegrity, Linked, InUse

(* A step that changes only the state of a stream's halves.                *)
LEMMA Updated ==
    ASSUME TypeOK, LinkIntegrity, NEW s \in Slots, NEW e \in Estream,
           SameUse(e, slot[s]), slot' = [slot EXCEPT ![s] = e],
           UNCHANGED <<ectx, dgen>>
    PROVE  SlotsKept
<1>1. slot' \in [Slots -> Estream] /\ ectx' \in [DStreams -> Slots \cup {NoSlot}]
  BY DEF TypeOK
<1>2. \A t \in Slots : SameUse(slot'[t], slot[t])
  BY DEF TypeOK, SameUse
<1>3. LinkIntegrity'
  BY <1>2 DEF LinkIntegrity, Linked, TypeOK, SameUse, InUse
<1> QED BY <1>1, <1>2, <1>3 DEF SlotsKept, SameUse

(* estream_release severs the link with the slot's use.                    *)
LEMMA Released ==
    ASSUME TypeOK, LinkIntegrity, NEW s \in Slots, NEW e \in Estream,
           SameUse(e, slot[s]), ReleaseAs(s, e), dgen' = dgen
    PROVE  SlotsKept
<1> DEFINE free == [e EXCEPT !.kind = "FREE"]
<1>1. /\ free \in Estream /\ free.kind = "FREE" /\ free.gen = e.gen
      /\ free.resident = e.resident
  BY DEF Estream, Kinds, InUse
<1>2. slot' = [slot EXCEPT ![s] = free] /\ ectx' = Unlink(s, e)
  BY DEF ReleaseAs
<1> HIDE DEF free
<1>3. slot' \in [Slots -> Estream]
  BY <1>1, <1>2 DEF TypeOK
<1>4. ectx' \in [DStreams -> Slots \cup {NoSlot}]
  BY <1>2 DEF TypeOK, Unlink
<1>5. \A d \in DStreams : ectx'[d] = ectx[d] \/ ectx'[d] = NoSlot
  BY <1>2 DEF TypeOK, Unlink
<1>6. \A d \in DStreams : ectx'[d] /= s
  <2> SUFFICES ASSUME NEW d \in DStreams, ectx'[d] = s PROVE FALSE
    OBVIOUS
  <2>1. ectx[d] = s
    BY <1>5, SlotAssumption
  <2>2. e.ds = d
    BY <2>1, SlotAssumption DEF LinkIntegrity, Linked, SameUse
  <2>3. e.ds /= NoDs
    BY <2>2, SlotAssumption
  <2>4. ectx'[d] = NoSlot
    BY <1>2, <2>1, <2>2, <2>3 DEF Unlink, TypeOK
  <2> QED BY <2>4, SlotAssumption
<1>7. LinkIntegrity'
  <2>1. ASSUME NEW d \in DStreams, ectx'[d] /= NoSlot
        PROVE  /\ slot'[ectx'[d]].kind \in InUse
               /\ slot'[ectx'[d]].ds = d
               /\ slot'[ectx'[d]].gen = dgen'[d]
    <3>1. ectx'[d] = ectx[d] /\ ectx[d] /= s /\ ectx[d] \in Slots
      BY <1>4, <1>5, <1>6, <2>1
    <3>2. slot'[ectx[d]] = slot[ectx[d]]
      BY <1>2, <3>1 DEF TypeOK
    <3> QED BY <2>1, <3>1, <3>2 DEF LinkIntegrity, Linked
  <2>2. ASSUME NEW t \in Slots, slot'[t].kind \in InUse
        PROVE  slot'[t].ds \in DStreams /\ ectx'[slot'[t].ds] = t
    <3>1. t /= s /\ slot'[t] = slot[t]
      BY <1>1, <1>2, <2>2 DEF TypeOK, InUse
    <3>2. slot[t].ds \in DStreams /\ ectx[slot[t].ds] = t
      BY <2>2, <3>1 DEF LinkIntegrity
    <3>3. ectx'[slot[t].ds] = t
      BY <1>2, <3>1, <3>2 DEF Unlink, TypeOK
    <3> QED BY <3>1, <3>2, <3>3
  <2> QED BY <2>1, <2>2 DEF LinkIntegrity, Linked
<1>8. \A t \in Slots : /\ slot'[t].gen = slot[t].gen
                       /\ slot'[t].resident = slot[t].resident
                       /\ slot[t].kind \in Freeish => slot'[t].kind \in Freeish
  BY <1>1, <1>2 DEF TypeOK, SameUse, Freeish
<1> QED BY <1>3, <1>4, <1>7, <1>8 DEF SlotsKept

(* wt_release_if_done, whether or not the stream is done.                  *)
LEMMA Settled ==
    ASSUME TypeOK, LinkIntegrity, NEW s \in Slots, NEW e \in Estream,
           SameUse(e, slot[s]), Settle(s, e), dgen' = dgen
    PROVE  SlotsKept
<1>1. CASE Done(e)
  BY <1>1, Released DEF Settle
<1>2. CASE ~Done(e)
  BY <1>2, Updated DEF Settle
<1> QED BY <1>1, <1>2

(* The types of the variables other than slot, ectx and agenda.            *)
RestTypes ==
    /\ closed \in BOOLEAN /\ sess \in {"none", "active", "ended"}
    /\ gens \in Nat /\ dgen \in [DStreams -> Nat]
    /\ tx \in [DStreams -> {"none", "open", "fin", "ended"}]
    /\ rx \in [DStreams -> {"none", "open", "stopped", "ended"}]
    /\ gone \in [DStreams -> BOOLEAN] /\ held \in [DStreams -> BOOLEAN]
    /\ heard \in [Slots -> SUBSET Marks]

(* A step that keeps the slots, the stack and the other types keeps the    *)
(* invariant.                                                              *)
LEMMA Combine ==
    ASSUME IInv, SlotsKept, StackKept(agenda'), RestTypes', gens' = gens
    PROVE  IInv'
<1>1. \A t \in Slots : slot'[t].gen <= gens'
  BY DEF IInv, TypeOK, SlotsKept
<1>2. TypeOK'
  BY <1>1 DEF TypeOK, RestTypes, SlotsKept, StackKept
<1>3. OpensReserved'
  <2> SUFFICES ASSUME NEW i \in 1..Len(agenda'), agenda'[i].op = "wt_open"
               PROVE  /\ slot'[agenda'[i].s].kind \in Freeish
                      /\ Budgeted => slot'[agenda'[i].s].resident
    BY DEF OpensReserved
  <2>1. PICK j \in 1..Len(agenda) : agenda[j] = agenda'[i]
    BY DEF StackKept, OpensFrom
  <2>2. agenda[j] \in Frame /\ agenda[j].s \in Slots
    <3>1. agenda[j] \in Frame
      BY DEF IInv, TypeOK
    <3> QED BY <2>1, <3>1 DEF Frame, SlotOps, StreamOps, PlainOps
  <2> QED BY <2>1, <2>2 DEF IInv, OpensReserved, SlotsKept
<1> QED BY <1>2, <1>3 DEF IInv, SlotsKept, StackKept

(* Ways to change the stack.                                               *)
LEMMA Stays ==
    ASSUME IInv, agenda' = agenda
    PROVE  StackKept(agenda')
  BY DEF IInv, TypeOK, StackKept, OpensFrom, OpensDistinct

(* The running call is replaced.                                           *)
LEMMA Thens ==
    ASSUME IInv, agenda /= <<>>, NEW c \in Seq(Pushables), Then(c)
    PROVE  StackKept(agenda')
  BY Replace DEF IInv, TypeOK, Then

(* Calls are pushed by an event, or by the application from a callback.    *)
LEMMA Enters ==
    ASSUME IInv, Idle \/ At("app"), NEW c \in Seq(Pushables), Enter(c)
    PROVE  StackKept(agenda')
  BY Push DEF IInv, TypeOK, Enter, Idle, At

(* A step may push nothing.                                                *)
LEMMA Stack0 == <<>> \in Seq(Pushables)
  BY SMT

(* A step may push one call.                                               *)
LEMMA Stack1 ==
    ASSUME NEW a \in Pushables PROVE <<a>> \in Seq(Pushables)
  BY SMT

(* A step may push two calls.                                              *)
LEMMA Stack2 ==
    ASSUME NEW a \in Pushables, NEW b \in Pushables
    PROVE  <<a, b>> \in Seq(Pushables)
  BY SMT

(* A step may push three calls.                                            *)
LEMMA Stack3 ==
    ASSUME NEW a \in Pushables, NEW b \in Pushables, NEW c \in Pushables
    PROVE  <<a, b, c>> \in Seq(Pushables)
  BY SMT

(* A step may push four calls.                                             *)
LEMMA Stack4 ==
    ASSUME NEW a \in Pushables, NEW b \in Pushables, NEW c \in Pushables,
           NEW d \in Pushables
    PROVE  <<a, b, c, d>> \in Seq(Pushables)
  BY SMT

(* A step may push two lists of calls.                                     *)
LEMMA StackCat ==
    ASSUME NEW a \in Seq(Pushables), NEW b \in Seq(Pushables)
    PROVE  a \o b \in Seq(Pushables)
  BY SMT

(* The record updates that leave a stream in its use: of the send half,    *)
LEMMA SendHalfSet ==
    ASSUME NEW e \in Estream, NEW a \in BOOLEAN, NEW b \in BOOLEAN,
           NEW f, f = [e EXCEPT !.send = a, !.fin = b]
    PROVE  f \in Estream /\ SameUse(f, e)
<1>1. f \in Estream
  BY DEF Estream
<1>2. SameUse(f, e)
  BY DEF Estream, SameUse
<1> QED BY <1>1, <1>2

(* of the receive half,                                                    *)
LEMMA RecvHalfSet ==
    ASSUME NEW e \in Estream, NEW c \in BOOLEAN, NEW d \in BOOLEAN,
           NEW f, f = [e EXCEPT !.recv = c, !.drain = d]
    PROVE  f \in Estream /\ SameUse(f, e)
<1>1. f \in Estream
  BY DEF Estream
<1>2. SameUse(f, e)
  BY DEF Estream, SameUse
<1> QED BY <1>1, <1>2

(* and of both.                                                            *)
LEMMA HalvesSet ==
    ASSUME NEW e \in Estream, NEW a \in BOOLEAN, NEW b \in BOOLEAN,
           NEW c \in BOOLEAN, NEW d \in BOOLEAN,
           NEW f, f = [e EXCEPT !.send = a, !.fin = b, !.recv = c, !.drain = d]
    PROVE  f \in Estream /\ SameUse(f, e)
<1> DEFINE g == [e EXCEPT !.send = a, !.fin = b]
<1>1. g \in Estream /\ SameUse(g, e)
  BY SendHalfSet
<1>2. f = [g EXCEPT !.recv = c, !.drain = d]
  OBVIOUS
<1> HIDE DEF g
<1>3. SameUse(f, g) /\ f \in Estream
  BY <1>1, <1>2, RecvHalfSet
<1> QED BY <1>1, <1>3 DEF SameUse

(* The local shutdown of halves (wt_shutdown, session_closed).             *)
LEMMA ShutKeepsUse ==
    ASSUME NEW e \in Estream, NEW h
    PROVE  Shut(e, h) \in Estream /\ SameUse(Shut(e, h), e)
<1> DEFINE a == e.send /\ "send" \notin h
           b == e.fin /\ "send" \notin h
           c == e.recv /\ "recv" \notin h
           d == e.drain \/ "recv" \in h
<1>1. a \in BOOLEAN /\ b \in BOOLEAN /\ c \in BOOLEAN /\ d \in BOOLEAN
  BY Zenon
<1>2. Shut(e, h) = [e EXCEPT !.send = a, !.fin = b, !.recv = c, !.drain = d]
  BY Zenon DEF Shut
<1> HIDE DEF a, b, c, d
<1> QED BY <1>1, <1>2, HalvesSet

(* The loss of the send half to a STOP_SENDING.                            *)
LEMMA StoppedKeepsUse ==
    ASSUME NEW e \in Estream
    PROVE  Stopped(e) \in Estream /\ SameUse(Stopped(e), e)
<1> DEFINE a == e.send /\ ~e.commit
           b == e.fin /\ ~e.commit
<1>1. a \in BOOLEAN /\ b \in BOOLEAN
  BY Zenon
<1>2. Stopped(e) = [e EXCEPT !.send = a, !.fin = b]
  BY Zenon DEF Stopped
<1> HIDE DEF a, b
<1> QED BY <1>1, <1>2, SendHalfSet

(* The halves behind session_closed's shutdown, and behind a delivered     *)
(* FIN.                                                                    *)
LEMMA HalfUpdates ==
    ASSUME NEW e \in Estream
    PROVE  /\ TornSlot(e) \in Estream /\ SameUse(TornSlot(e), e)
           /\ Finished(e) \in Estream /\ SameUse(Finished(e), e)
  BY ShutKeepsUse, RecvHalfSet DEF TornSlot, Finished

(* The history of callbacks.                                               *)
LEMMA HeardType ==
    ASSUME TypeOK, NEW s \in Slots, NEW cb \in Marks \cup {"data"}, Hear(s, cb)
    PROVE  heard' \in [Slots -> SUBSET Marks]
  BY DEF Hear, TypeOK, Marks

-----------------------------------------------------------------------------
(* The actions.                                                            *)

(* The application's return from a callback keeps the inductive invariant. *)
LEMMA AppReturnsKeeps == ASSUME IInv, AppReturns PROVE IInv'
<1>1. StackKept(agenda')
  BY Thens, Stack0 DEF AppReturns, At
<1>2. SlotsKept
  BY NoneTouched DEF AppReturns, IInv
<1>3. RestTypes' /\ gens' = gens
  BY DEF AppReturns, IInv, TypeOK, RestTypes, connVars, wire
<1> QED BY <1>1, <1>2, <1>3, Combine

(* session_established keeps the inductive invariant.                      *)
LEMMA EstablishKeeps == ASSUME IInv, Establish PROVE IInv'
<1>1. StackKept(agenda')
  BY Stays DEF Establish
<1>2. SlotsKept
  BY NoneTouched DEF Establish, IInv
<1>3. RestTypes' /\ gens' = gens
  BY DEF Establish, IInv, TypeOK, RestTypes, connVars, wire
<1> QED BY <1>1, <1>2, <1>3, Combine

(* The loss of the connection keeps the inductive invariant.               *)
LEMMA OnConnLostKeeps == ASSUME IInv, OnConnLost PROVE IInv'
<1>1. StackKept(agenda')
  BY Enters, Stack1, PlainFrames DEF OnConnLost
<1>2. SlotsKept
  BY NoneTouched DEF OnConnLost, IInv
<1>3. RestTypes' /\ gens' = gens
  BY DEF OnConnLost, IInv, TypeOK, RestTypes, connVars, wire
<1> QED BY <1>1, <1>2, <1>3, Combine

(* wtq_conn_session_close, or the peer's close, keeps the inductive        *)
(* invariant.                                                              *)
LEMMA SessionEndsKeeps == ASSUME IInv, SessionEnds PROVE IInv'
<1>1. StackKept(agenda')
  BY Enters, Stack1, PlainFrames DEF SessionEnds, AppMay
<1>2. SlotsKept
  BY NoneTouched DEF SessionEnds, IInv
<1>3. RestTypes' /\ gens' = gens
  BY DEF SessionEnds, IInv, TypeOK, RestTypes, connVars, wire
<1> QED BY <1>1, <1>2, <1>3, Combine

(* conn_fatal keeps the inductive invariant.                               *)
LEMMA ConnFatalKeeps == ASSUME IInv, ConnFatal PROVE IInv'
<1>1. StackKept(agenda')
  BY Thens, Stack0, Stack1, PlainFrames DEF ConnFatal, At
<1>2. SlotsKept
  BY NoneTouched DEF ConnFatal, IInv
<1>3. RestTypes' /\ gens' = gens
  BY DEF ConnFatal, IInv, TypeOK, RestTypes, wire
<1> QED BY <1>1, <1>2, <1>3, Combine

(* The start of session_closed keeps the inductive invariant.              *)
LEMMA SessionClosedKeeps == ASSUME IInv, SessionClosed PROVE IInv'
<1>1. StackKept(agenda')
  <2>1. <<[Call("teardown") EXCEPT !.x = Slots]>> \in Seq(Pushables)
    BY Stack1, PlainFrames
  <2> QED BY Thens, Stack0, <2>1 DEF SessionClosed, At
<1>2. SlotsKept
  BY NoneTouched DEF SessionClosed, IInv
<1>3. RestTypes' /\ gens' = gens
  BY DEF SessionClosed, IInv, TypeOK, RestTypes, wire
<1> QED BY <1>1, <1>2, <1>3, Combine

(* The end of a turn of session_closed's loop keeps the inductive          *)
(* invariant.                                                              *)
LEMMA TornKeeps == ASSUME IInv, Torn PROVE IInv'
<1>1. This.s \in Slots
  BY TopFrame DEF Torn, At, This, SlotOps, IInv, TypeOK
<1>2. StackKept(agenda')
  BY Thens, Stack0 DEF Torn, At
<1>3. slot[This.s] \in Estream
  BY <1>1 DEF IInv, TypeOK
<1>4. SlotsKept
  BY <1>1, <1>3, HalfUpdates, Settled DEF Torn, IInv
<1>5. RestTypes' /\ gens' = gens
  BY DEF Torn, IInv, TypeOK, RestTypes, connVars, wire
<1> QED BY <1>2, <1>4, <1>5, Combine

(* The driver's shutdown_stream.                                           *)
LEMMA WireShutTypes ==
    ASSUME TypeOK, NEW d, NEW h, WireShut(d, h)
    PROVE  /\ tx' \in [DStreams -> {"none", "open", "fin", "ended"}]
           /\ rx' \in [DStreams -> {"none", "open", "stopped", "ended"}]
           /\ gone' \in [DStreams -> BOOLEAN] /\ held' \in [DStreams -> BOOLEAN]
  BY DEF TypeOK, WireShut

(* A turn of session_closed's loop keeps the inductive invariant.          *)
LEMMA TeardownKeeps == ASSUME IInv, Teardown PROVE IInv'
<1> USE DEF IInv
<1> DEFINE todo == {s \in This.x : slot[s].kind = "WT"}
           Rest(s) == [This EXCEPT !.x = todo \ {s}]
<1>1. agenda /= <<>> /\ This.op = "teardown"
  BY DEF Teardown, At, This
<1>2. /\ todo \in SUBSET Slots
      /\ \A y \in SUBSET Slots : [This EXCEPT !.x = y] \in Pushables
  BY <1>1, TopFrame DEF TypeOK
<1>3. \A s \in Slots : /\ Rest(s) \in Pushables
                       /\ CallOn("torn", s, {}) \in Pushables
  BY <1>2, SlotFrames DEF TypeOK, SlotOps
<1>4. SlotsKept
  BY NoneTouched DEF Teardown
<1>5. gens' = gens /\ UNCHANGED <<closed, sess, dgen>>
  BY DEF Teardown, connVars
<1>6. App \in Pushables /\ Call("conn_fatal") \in Pushables
  BY PlainFrames
<1>7. CASE /\ heard' = [s \in Slots |-> heard[s] \cup {"session"}]
           /\ Then(<<App>>) /\ UNCHANGED wire
  <2>1. StackKept(agenda')
    BY <1>1, <1>6, <1>7, Thens, Stack1
  <2>2. RestTypes'
    BY <1>5, <1>7 DEF TypeOK, RestTypes, wire, Marks
  <2> QED BY <1>4, <1>5, <2>1, <2>2, Combine
<1>8. ASSUME NEW s \in todo, UNCHANGED heard,
             \/ /\ Then(<<CallOn("torn", s, {}), Rest(s)>>)
                /\ UNCHANGED wire
             \/ /\ WireShut(slot[s].ds, LiveHalves(slot[s]))
                /\ \/ Then(<<App, CallOn("torn", s, {}), Rest(s)>>)
                   \/ Then(<<App, Call("conn_fatal"),
                             CallOn("torn", s, {}), Rest(s)>>)
      PROVE  IInv'
  <2> HIDE DEF Rest
  <2>1. Rest(s) \in Pushables /\ CallOn("torn", s, {}) \in Pushables
    BY <1>2, <1>3
  <2>2. StackKept(agenda')
    BY <1>1, <1>6, <1>8, <2>1, Thens, Stack2, Stack3, Stack4
  <2>3. RestTypes'
    BY <1>5, <1>8, WireShutTypes DEF TypeOK, RestTypes, wire
  <2> QED BY <1>4, <1>5, <2>2, <2>3, Combine
<1> QED BY <1>7, <1>8 DEF Teardown

(* stream_bytes on a slot the connection has.                              *)
LEMMA StreamBytesKeeps ==
    ASSUME IInv, agenda /= <<>>, NEW s \in Slots, NEW d,
           NEW fin \in BOOLEAN, StreamBytes(s, d, fin),
           UNCHANGED <<connVars, gens, dgen, tx, gone>>
    PROVE  IInv'
<1> USE DEF IInv
<1> DEFINE e == slot[s]
<1>1. e \in Estream
  BY DEF TypeOK
<1>2. /\ [e EXCEPT !.drain = FALSE] \in Estream
      /\ SameUse([e EXCEPT !.drain = FALSE], e)
  BY <1>1 DEF Estream, SameUse
<1>3. rx' \in [DStreams -> {"none", "open", "stopped", "ended"}]
  BY DEF StreamBytes, TypeOK
<1>4. held' \in [DStreams -> BOOLEAN]
  BY DEF StreamBytes, TypeOK
<1>5. heard' \in [Slots -> SUBSET Marks]
  BY HeardType DEF StreamBytes, Deliver, TypeOK, Marks
<1>6. RestTypes' /\ gens' = gens
  BY <1>3, <1>4, <1>5 DEF TypeOK, RestTypes, connVars
<1>7. SlotsKept
  <2>1. CASE UNCHANGED <<slot, ectx>>
    BY <2>1, NoneTouched
  <2>2. CASE Settle(s, [e EXCEPT !.drain = FALSE])
    BY <1>2, <2>2, Settled
  <2> QED BY <2>1, <2>2 DEF StreamBytes
<1>8. StackKept(agenda')
  <2>1. /\ CallOn("fin_delivered", s, {}) \in Pushables
        /\ CallOn("more", s, {}) \in Pushables /\ App \in Pushables
    BY SlotFrames, PlainFrames DEF TypeOK, SlotOps
  <2>2. <<>> \in Seq(Pushables)
    BY Stack0
  <2>3. /\ <<App, CallOn("fin_delivered", s, {})>> \in Seq(Pushables)
        /\ <<App, CallOn("more", s, {})>> \in Seq(Pushables)
    BY <2>1, Stack2
  <2>4. \/ Then(<<>>) \/ Then(<<App, CallOn("fin_delivered", s, {})>>)
        \/ Then(<<App, CallOn("more", s, {})>>)
    BY DEF StreamBytes, Deliver
  <2> QED BY <2>2, <2>3, <2>4, Thens
<1> QED BY <1>6, <1>7, <1>8, Combine

(* stream_bytes on a linked stream keeps the inductive invariant.          *)
LEMMA InputKeeps == ASSUME IInv, Input PROVE IInv'
<1> USE DEF IInv
<1>1. agenda /= <<>> /\ This.d \in DStreams
  BY TopFrame DEF Input, At, This, StreamOps, TypeOK
<1>2. CASE /\ Then(<<>>)
           /\ UNCHANGED <<slot, ectx, rx, held, heard>>
  <2>1. StackKept(agenda')
    BY <1>1, <1>2, Thens, Stack0
  <2>2. SlotsKept
    BY <1>2, NoneTouched DEF Input
  <2>3. RestTypes' /\ gens' = gens
    BY <1>2 DEF Input, TypeOK, RestTypes, connVars
  <2> QED BY <2>1, <2>2, <2>3, Combine
<1>3. CASE Linked(This.d) /\ StreamBytes(ectx[This.d], This.d, At("input_fin"))
  <2>1. ectx[This.d] \in Slots
    BY <1>1, <1>3 DEF Linked, TypeOK
  <2>2. At("input_fin") \in BOOLEAN
    BY Zenon DEF At
  <2> QED BY <1>1, <1>3, <2>1, <2>2, StreamBytesKeeps DEF Input
<1> QED BY <1>2, <1>3 DEF Input

(* The next chunk of an input keeps the inductive invariant.               *)
LEMMA MoreKeeps == ASSUME IInv, More PROVE IInv'
<1> USE DEF IInv
<1>1. agenda /= <<>> /\ This.s \in Slots
  BY TopFrame DEF More, At, This, SlotOps, TypeOK
<1>2. CASE /\ Then(<<>>)
           /\ UNCHANGED <<slot, ectx, rx, held, heard>>
  <2>1. StackKept(agenda')
    BY <1>1, <1>2, Thens, Stack0
  <2>2. SlotsKept
    BY <1>2, NoneTouched DEF More
  <2>3. RestTypes' /\ gens' = gens
    BY <1>2 DEF More, TypeOK, RestTypes, connVars
  <2> QED BY <2>1, <2>2, <2>3, Combine
<1>3. ASSUME NEW fin \in BOOLEAN, StreamBytes(This.s, This.d, fin)
      PROVE  IInv'
  BY <1>1, <1>3, StreamBytesKeeps DEF More
<1> QED BY <1>2, <1>3 DEF More

(* The end of the receive half behind the FIN's callback keeps the         *)
(* inductive invariant.                                                    *)
LEMMA FinDeliveredKeeps == ASSUME IInv, FinDelivered PROVE IInv'
<1> USE DEF IInv
<1>1. agenda /= <<>> /\ This.s \in Slots
  BY TopFrame DEF FinDelivered, At, This, SlotOps, TypeOK
<1>2. StackKept(agenda')
  BY <1>1, Thens, Stack0 DEF FinDelivered
<1>3. slot[This.s] \in Estream
  BY <1>1 DEF TypeOK
<1>4. SlotsKept
  BY <1>1, <1>3, HalfUpdates, Settled, NoneTouched DEF FinDelivered
<1>5. RestTypes' /\ gens' = gens
  BY DEF FinDelivered, TypeOK, RestTypes, connVars, wire
<1> QED BY <1>2, <1>4, <1>5, Combine

(* wt_release_if_done behind on_wt_stream_reset, which checks no           *)
(* generation, keeps the inductive invariant.                              *)
LEMMA SettleAfterResetKeeps == ASSUME IInv, SettleAfterReset PROVE IInv'
<1> USE DEF IInv
<1>1. agenda /= <<>> /\ This.s \in Slots
  BY TopFrame DEF SettleAfterReset, At, This, SlotOps, TypeOK
<1>2. StackKept(agenda')
  BY <1>1, Thens, Stack0 DEF SettleAfterReset
<1>3. slot[This.s] \in Estream /\ SameUse(slot[This.s], slot[This.s])
  BY <1>1 DEF TypeOK, SameUse
<1>4. SlotsKept
  BY <1>1, <1>3, Settled DEF SettleAfterReset
<1>5. RestTypes' /\ gens' = gens
  BY DEF SettleAfterReset, TypeOK, RestTypes, connVars, wire
<1> QED BY <1>2, <1>4, <1>5, Combine

(* wt_release_if_done behind on_stop_sending and send_shutdown_v1 keeps    *)
(* the inductive invariant.                                                *)
LEMMA SettleIfSameKeeps == ASSUME IInv, SettleIfSame PROVE IInv'
<1> USE DEF IInv
<1>1. agenda /= <<>> /\ This.s \in Slots
  BY TopFrame DEF SettleIfSame, At, This, SlotOps, TypeOK
<1>2. StackKept(agenda')
  BY <1>1, Thens, Stack0 DEF SettleIfSame
<1>3. slot[This.s] \in Estream /\ SameUse(slot[This.s], slot[This.s])
  BY <1>1 DEF TypeOK, SameUse
<1>4. SlotsKept
  BY <1>1, <1>3, Settled, NoneTouched DEF SettleIfSame
<1>5. RestTypes' /\ gens' = gens
  BY DEF SettleIfSame, TypeOK, RestTypes, connVars, wire
<1> QED BY <1>2, <1>4, <1>5, Combine

(* wtq_conn_on_stream_bytes_accounted keeps the inductive invariant.       *)
LEMMA OnStreamBytesKeeps ==
    ASSUME IInv, NEW d \in DStreams, OnStreamBytes(d) PROVE IInv'
<1> USE DEF IInv
<1>1. StackKept(agenda')
  BY Enters, Stack1, StreamFrames DEF OnStreamBytes, StreamOps
<1>2. SlotsKept
  BY NoneTouched DEF OnStreamBytes
<1>3. RestTypes' /\ gens' = gens
  BY DEF OnStreamBytes, TypeOK, RestTypes, connVars, wire
<1> QED BY <1>1, <1>2, <1>3, Combine

(* The backend's report of a stream's end keeps the inductive invariant.   *)
LEMMA ReportTerminalKeeps ==
    ASSUME IInv, NEW d \in DStreams, ReportTerminal(d) PROVE IInv'
<1> USE DEF IInv
<1>1. StackKept(agenda')
  BY Enters, Stack1, StreamFrames DEF ReportTerminal, StreamOps
<1>2. SlotsKept
  BY NoneTouched DEF ReportTerminal
<1>3. RestTypes' /\ gens' = gens
  BY DEF ReportTerminal, TypeOK, RestTypes, connVars, wire
<1> QED BY <1>1, <1>2, <1>3, Combine

(* wtq_conn_on_stream_reset keeps the inductive invariant.                 *)
LEMMA OnStreamResetKeeps ==
    ASSUME IInv, NEW d \in DStreams, OnStreamReset(d) PROVE IInv'
<1> USE DEF IInv
<1> DEFINE s == ectx[d]  e == slot[s]
<1>1. s \in Slots /\ e \in Estream /\ SameUse(e, e)
  BY DEF OnStreamReset, Linked, TypeOK, SameUse
<1>2. /\ [e EXCEPT !.drain = FALSE] \in Estream
      /\ SameUse([e EXCEPT !.drain = FALSE], e)
      /\ [e EXCEPT !.recv = FALSE] \in Estream
      /\ SameUse([e EXCEPT !.recv = FALSE], e)
  BY <1>1 DEF Estream, SameUse
<1>3. SlotsKept
  <2>1. CASE Release(s)
    BY <1>1, <2>1, Released DEF Release, OnStreamReset
  <2>2. CASE Settle(s, [e EXCEPT !.drain = FALSE])
    BY <1>1, <1>2, <2>2, Settled DEF OnStreamReset
  <2>3. CASE /\ slot' = [slot EXCEPT ![s] = [e EXCEPT !.recv = FALSE]]
             /\ UNCHANGED ectx
    BY <1>1, <1>2, <2>3, Updated DEF OnStreamReset
  <2> QED BY <2>1, <2>2, <2>3 DEF OnStreamReset
<1>4. StackKept(agenda')
  <2>1. <<App, CallOn("settle", s, {})>> \in Seq(Pushables)
    BY <1>1, SlotFrames, PlainFrames, Stack2 DEF TypeOK, SlotOps
  <2> QED BY <2>1, Enters, Stays DEF OnStreamReset
<1>5. heard' \in [Slots -> SUBSET Marks]
  BY <1>1, HeardType DEF OnStreamReset, TypeOK, Marks
<1>6. RestTypes' /\ gens' = gens
  BY <1>5 DEF OnStreamReset, TypeOK, RestTypes, connVars
<1> QED BY <1>3, <1>4, <1>6, Combine

(* A FIN on an unassociated stream keeps the inductive invariant.          *)
LEMMA OnEarlyFinKeeps ==
    ASSUME IInv, NEW d \in DStreams, OnEarlyFin(d) PROVE IInv'
<1> USE DEF IInv
<1>1. /\ ectx[d] \in Slots /\ slot[ectx[d]] \in Estream
      /\ SameUse(slot[ectx[d]], slot[ectx[d]])
  BY DEF OnEarlyFin, Linked, TypeOK, SameUse
<1>2. SlotsKept
  BY <1>1, Released, NoneTouched DEF OnEarlyFin, Release
<1>3. StackKept(agenda')
  BY Enters, Stays, Stack1, PlainFrames DEF OnEarlyFin
<1>4. RestTypes' /\ gens' = gens
  BY DEF OnEarlyFin, TypeOK, RestTypes, connVars
<1> QED BY <1>2, <1>3, <1>4, Combine

(* wtq_conn_on_stop_sending keeps the inductive invariant.                 *)
LEMMA OnStopSendingKeeps ==
    ASSUME IInv, NEW d \in DStreams, OnStopSending(d) PROVE IInv'
<1> USE DEF IInv
<1> DEFINE s == ectx[d]
<1>1. s \in Slots /\ slot[s] \in Estream
  BY DEF OnStopSending, Linked, TypeOK
<1>2. SlotsKept
  BY <1>1, StoppedKeepsUse, Updated DEF OnStopSending
<1>3. StackKept(agenda')
  <2> DEFINE c == IF slot[s].commit THEN <<CallOn("settle_same", s, {})>>
                                    ELSE <<>>
  <2>1. <<App>> \in Seq(Pushables) /\ c \in Seq(Pushables)
    BY <1>1, SlotFrames, PlainFrames, Stack0, Stack1 DEF TypeOK, SlotOps
  <2>2. Idle /\ Enter(<<App>> \o c)
    BY DEF OnStopSending
  <2> HIDE DEF c
  <2> QED BY <2>1, <2>2, Enters, StackCat
<1>4. heard' \in [Slots -> SUBSET Marks]
  BY <1>1, HeardType DEF OnStopSending, TypeOK, Marks
<1>5. RestTypes' /\ gens' = gens
  BY <1>4 DEF OnStopSending, TypeOK, RestTypes, connVars
<1> QED BY <1>2, <1>3, <1>5, Combine

(* wtq_conn_on_stream_send_shutdown_v1 keeps the inductive invariant.      *)
LEMMA OnSendShutdownKeeps ==
    ASSUME IInv, NEW d \in DStreams, NEW b \in BOOLEAN, OnSendShutdown(d, b)
    PROVE  IInv'
<1> USE DEF IInv
<1> DEFINE s == ectx[d]  e == slot[s]
<1>1. s \in Slots /\ e \in Estream
  BY DEF OnSendShutdown, Linked, TypeOK
<1>2. /\ [e EXCEPT !.fin = FALSE, !.send = FALSE] \in Estream
      /\ SameUse([e EXCEPT !.fin = FALSE, !.send = FALSE], e)
  BY <1>1 DEF Estream, SameUse
<1>3. SlotsKept
  BY <1>1, <1>2, Updated DEF OnSendShutdown
<1>4. StackKept(agenda')
  <2>1. <<App, CallOn("settle_same", s, {})>> \in Seq(Pushables)
    BY <1>1, SlotFrames, PlainFrames, Stack2 DEF TypeOK, SlotOps
  <2> QED BY <2>1, Enters DEF OnSendShutdown
<1>5. heard' \in [Slots -> SUBSET Marks]
  BY <1>1, HeardType DEF OnSendShutdown, TypeOK, Marks
<1>6. RestTypes' /\ gens' = gens
  BY <1>5 DEF OnSendShutdown, TypeOK, RestTypes, connVars
<1> QED BY <1>3, <1>4, <1>6, Combine

(* The end of a transport stream keeps the inductive invariant.            *)
LEMMA TransportGoneKeeps ==
    ASSUME IInv, NEW d \in DStreams, TransportGone(d) PROVE IInv'
<1> USE DEF IInv
<1>1. StackKept(agenda')
  BY Stays DEF TransportGone
<1>2. SlotsKept
  BY NoneTouched DEF TransportGone
<1>3. held' \in [DStreams -> BOOLEAN]
  BY DEF TransportGone, TypeOK
<1>4. RestTypes' /\ gens' = gens
  BY <1>3 DEF TransportGone, TypeOK, RestTypes, connVars
<1> QED BY <1>1, <1>2, <1>4, Combine

(* wtq_conn_on_stream_terminal keeps the inductive invariant.              *)
LEMMA OnStreamTerminalKeeps == ASSUME IInv, OnStreamTerminal PROVE IInv'
<1> USE DEF IInv
<1> DEFINE d == This.d  s == ectx[d]  e == slot[s]
           shut == [e EXCEPT !.send = FALSE, !.fin = FALSE,
                             !.recv = FALSE, !.drain = FALSE]
<1>1. agenda /= <<>> /\ d \in DStreams
  BY TopFrame DEF OnStreamTerminal, At, This, StreamOps, TypeOK
<1>2. gens' = gens /\ UNCHANGED <<closed, sess, dgen, wire>>
  BY DEF OnStreamTerminal, connVars
<1>3. CASE Then(<<>>) /\ UNCHANGED <<slot, ectx, heard>>
  <2>1. StackKept(agenda')
    BY <1>1, <1>3, Thens, Stack0
  <2>2. SlotsKept
    BY <1>2, <1>3, NoneTouched
  <2>3. RestTypes'
    BY <1>2, <1>3 DEF TypeOK, RestTypes, wire
  <2> QED BY <1>2, <2>1, <2>2, <2>3, Combine
<1>4. CASE Linked(d) /\ Release(s) /\ Then(<<>>) /\ UNCHANGED heard
  <2>1. s \in Slots /\ e \in Estream /\ SameUse(e, e)
    BY <1>1, <1>4 DEF Linked, TypeOK, SameUse
  <2>2. SlotsKept
    BY <1>2, <1>4, <2>1, Released DEF Release
  <2>3. StackKept(agenda')
    BY <1>1, <1>4, Thens, Stack0
  <2>4. RestTypes'
    BY <1>2, <1>4 DEF TypeOK, RestTypes, wire
  <2> QED BY <1>2, <2>2, <2>3, <2>4, Combine
<1>5. CASE /\ Linked(d) /\ slot' = [slot EXCEPT ![s] = shut] /\ UNCHANGED ectx
           /\ \/ Hear(s, "terminal") /\ Then(<<App, CallOn("release", s, {})>>)
              \/ UNCHANGED heard /\ Then(<<CallOn("release", s, {})>>)
  <2>1. s \in Slots /\ e \in Estream
    BY <1>1, <1>5 DEF Linked, TypeOK
  <2>2. shut \in Estream /\ SameUse(shut, e)
    BY <2>1 DEF Estream, SameUse
  <2> HIDE DEF shut
  <2>3. SlotsKept
    BY <1>2, <1>5, <2>1, <2>2, Updated
  <2>4. CallOn("release", s, {}) \in Pushables /\ App \in Pushables
    BY <2>1, SlotFrames, PlainFrames DEF TypeOK, SlotOps
  <2>5. StackKept(agenda')
    BY <1>1, <1>5, <2>4, Thens, Stack1, Stack2
  <2>6. heard' \in [Slots -> SUBSET Marks]
    BY <1>5, <2>1, HeardType DEF TypeOK, Marks
  <2>7. RestTypes'
    BY <1>2, <2>6 DEF TypeOK, RestTypes, wire
  <2> QED BY <1>2, <2>3, <2>5, <2>7, Combine
<1> QED BY <1>3, <1>4, <1>5 DEF OnStreamTerminal

(* Its release of the slot, repeated or not, keeps the inductive           *)
(* invariant.                                                              *)
LEMMA TerminalReleaseKeeps == ASSUME IInv, TerminalRelease PROVE IInv'
<1> USE DEF IInv
<1>1. agenda /= <<>> /\ This.s \in Slots
  BY TopFrame DEF TerminalRelease, At, This, SlotOps, TypeOK
<1>2. StackKept(agenda')
  BY <1>1, Thens, Stack0 DEF TerminalRelease
<1>3. slot[This.s] \in Estream /\ SameUse(slot[This.s], slot[This.s])
  BY <1>1 DEF TypeOK, SameUse
<1>4. SlotsKept
  BY <1>1, <1>3, Released DEF TerminalRelease, Release
<1>5. RestTypes' /\ gens' = gens
  BY DEF TerminalRelease, TypeOK, RestTypes, connVars, wire
<1> QED BY <1>2, <1>4, <1>5, Combine

(* wtq_conn_wt_send keeps the inductive invariant.                         *)
LEMMA WtSendKeeps ==
    ASSUME IInv, NEW s \in Slots, NEW fin \in BOOLEAN, WtSend(s, fin)
    PROVE  IInv'
<1> USE DEF IInv
<1>1. StackKept(agenda')
  <2> DEFINE x == IF fin THEN {"fin"} ELSE {}
  <2>1. x \in SUBSET (Slots \cup Halves \cup {"fin"})
    OBVIOUS
  <2>2. (Idle \/ At("app")) /\ Enter(<<App, CallOn("send_done", s, x)>>)
    BY DEF WtSend, AppMay
  <2> HIDE DEF x
  <2>3. <<App, CallOn("send_done", s, x)>> \in Seq(Pushables)
    BY <2>1, SlotFrames, PlainFrames, Stack2 DEF TypeOK, SlotOps
  <2> QED BY <2>2, <2>3, Enters
<1>2. SlotsKept
  BY NoneTouched DEF WtSend
<1>3. tx' \in [DStreams -> {"none", "open", "fin", "ended"}]
  BY DEF WtSend, TypeOK
<1>4. RestTypes' /\ gens' = gens
  BY <1>3 DEF WtSend, TypeOK, RestTypes, connVars
<1> QED BY <1>1, <1>2, <1>4, Combine

(* What wt_send does behind the driver's send keeps the inductive          *)
(* invariant.                                                              *)
LEMMA WtSentKeeps == ASSUME IInv, WtSent PROVE IInv'
<1> USE DEF IInv
<1> DEFINE s == This.s  e == slot[s]
           f == [e EXCEPT !.sent = TRUE, !.send = FALSE, !.fin = e.commit]
           g == [e EXCEPT !.sent = TRUE]
<1>1. agenda /= <<>> /\ s \in Slots
  BY TopFrame DEF WtSent, At, This, SlotOps, TypeOK
<1>2. StackKept(agenda')
  BY <1>1, Thens, Stack0 DEF WtSent
<1>3. e \in Estream
  BY <1>1 DEF TypeOK
<1>4. f \in Estream /\ SameUse(f, e)
  <2> HIDE DEF e
  <2> QED BY <1>3 DEF Estream, SameUse
<1>5. g \in Estream /\ SameUse(g, e)
  <2> HIDE DEF e
  <2> QED BY <1>3 DEF Estream, SameUse
<1>6. \/ Settle(s, f) \/ UNCHANGED <<slot, ectx>>
      \/ slot' = [slot EXCEPT ![s] = g] /\ ectx' = ectx
  BY Zenon DEF WtSent
<1>7. dgen' = dgen
  BY DEF WtSent
<1> HIDE DEF f, g
<1>8. SlotsKept
  BY <1>1, <1>4, <1>5, <1>6, <1>7, Settled, Updated, NoneTouched
<1>9. RestTypes' /\ gens' = gens
  BY DEF WtSent, TypeOK, RestTypes, connVars, wire
<1> QED BY <1>2, <1>8, <1>9, Combine

(* wt_shutdown keeps the inductive invariant.                              *)
LEMMA WtShutdownKeeps ==
    ASSUME IInv, NEW s \in Slots, NEW h \in SUBSET Halves, WtShutdown(s, h)
    PROVE  IInv'
<1> USE DEF IInv
<1>1. CallOn("shutdown_done", s, h) \in Pushables
  BY SlotFrames DEF TypeOK, SlotOps
<1>2. StackKept(agenda')
  BY <1>1, PlainFrames, Stack2, Enters DEF WtShutdown, AppMay
<1>3. SlotsKept
  BY NoneTouched DEF WtShutdown
<1>4. heard' \in [Slots -> SUBSET Marks]
  BY HeardType DEF WtShutdown, TypeOK, Marks
<1>5. RestTypes' /\ gens' = gens
  BY <1>4, WireShutTypes DEF WtShutdown, TypeOK, RestTypes, connVars
<1> QED BY <1>2, <1>3, <1>5, Combine

(* What wt_shutdown does behind the driver's shutdown keeps the inductive  *)
(* invariant.                                                              *)
LEMMA WtShutdownDoneKeeps == ASSUME IInv, WtShutdownDone PROVE IInv'
<1> USE DEF IInv
<1>1. agenda /= <<>> /\ This.s \in Slots
  BY TopFrame DEF WtShutdownDone, At, This, SlotOps, TypeOK
<1>2. StackKept(agenda')
  BY <1>1, Thens, Stack0 DEF WtShutdownDone
<1>3. slot[This.s] \in Estream
  BY <1>1 DEF TypeOK
<1>4. SlotsKept
  BY <1>1, <1>3, ShutKeepsUse, Settled, NoneTouched DEF WtShutdownDone
<1>5. RestTypes' /\ gens' = gens
  BY DEF WtShutdownDone, TypeOK, RestTypes, connVars, wire
<1> QED BY <1>2, <1>4, <1>5, Combine

(* wtq_conn_wt_enable_send_commit keeps the inductive invariant.           *)
LEMMA EnableSendCommitKeeps ==
    ASSUME IInv, NEW s \in Slots, EnableSendCommit(s) PROVE IInv'
<1> USE DEF IInv
<1>1. slot[s] \in Estream
  BY DEF TypeOK
<1>2. /\ [slot[s] EXCEPT !.commit = TRUE] \in Estream
      /\ SameUse([slot[s] EXCEPT !.commit = TRUE], slot[s])
  BY <1>1 DEF Estream, SameUse
<1>3. SlotsKept
  BY <1>2, Updated DEF EnableSendCommit
<1>4. StackKept(agenda')
  BY Stays DEF EnableSendCommit
<1>5. RestTypes' /\ gens' = gens
  BY DEF EnableSendCommit, TypeOK, RestTypes, connVars, wire
<1> QED BY <1>3, <1>4, <1>5, Combine

(* wtq_conn_wt_recv_enable keeps the inductive invariant.                  *)
LEMMA RecvEnableKeeps ==
    ASSUME IInv, NEW s \in Slots, NEW on \in BOOLEAN, RecvEnable(s, on)
    PROVE  IInv'
<1> USE DEF IInv
<1> DEFINE d == slot[s].ds
           p == ~on
           c1 == IF on /\ held[d] THEN <<CallFor("input_fin", d)>> ELSE <<>>
           c2 == IF on /\ gone[d] THEN <<CallFor("terminal", d)>> ELSE <<>>
<1>1. slot[s] \in Estream
  BY DEF TypeOK
<1>2. /\ [slot[s] EXCEPT !.paused = p] \in Estream
      /\ SameUse([slot[s] EXCEPT !.paused = p], slot[s])
  <2>1. p \in BOOLEAN
    OBVIOUS
  <2> HIDE DEF p
  <2> QED BY <1>1, <2>1 DEF Estream, SameUse
<1>3. SlotsKept
  BY <1>2, Updated DEF RecvEnable
<1>4. StackKept(agenda')
  <2>1. d \in DStreams
    BY DEF RecvEnable, LinkIntegrity, InUse
  <2>2. c1 \in Seq(Pushables) /\ c2 \in Seq(Pushables)
    BY <2>1, StreamFrames, Stack0, Stack1 DEF StreamOps
  <2>3. (Idle \/ At("app")) /\ Enter(c1 \o c2)
    BY DEF RecvEnable, AppMay
  <2> HIDE DEF c1, c2
  <2> QED BY <2>2, <2>3, StackCat, Enters
<1>5. held' \in [DStreams -> BOOLEAN]
  BY DEF RecvEnable, TypeOK
<1>6. RestTypes' /\ gens' = gens
  BY <1>5 DEF RecvEnable, TypeOK, RestTypes, connVars
<1> QED BY <1>3, <1>4, <1>6, Combine

-----------------------------------------------------------------------------
(* The actions that give a slot another use.                               *)

(* A free slot is taken for a stream object without a link.                *)
LEMMA NewLink ==
    ASSUME TypeOK, LinkIntegrity, NEW s \in Slots, slot[s].kind \in Freeish,
           NEW d \in DStreams, ectx[d] = NoSlot,
           NEW e \in Estream, e.kind \in InUse, e.ds = d,
           slot' = [slot EXCEPT ![s] = e], ectx' = [ectx EXCEPT ![d] = s],
           dgen' = [dgen EXCEPT ![d] = e.gen]
    PROVE  /\ slot' \in [Slots -> Estream]
           /\ ectx' \in [DStreams -> Slots \cup {NoSlot}]
           /\ dgen' \in [DStreams -> Nat] /\ LinkIntegrity'
<1>1. /\ slot' \in [Slots -> Estream]
      /\ ectx' \in [DStreams -> Slots \cup {NoSlot}]
      /\ dgen' \in [DStreams -> Nat]
  BY DEF TypeOK, Estream
<1>2. ASSUME NEW b \in DStreams, ectx'[b] /= NoSlot
      PROVE  /\ slot'[ectx'[b]].kind \in InUse /\ slot'[ectx'[b]].ds = b
             /\ slot'[ectx'[b]].gen = dgen'[b]
  <2>1. CASE b = d
    BY <2>1 DEF TypeOK
  <2>2. CASE b /= d
    <3>1. ectx'[b] = ectx[b] /\ dgen'[b] = dgen[b]
      BY <2>2 DEF TypeOK
    <3>2. slot[ectx[b]].kind \in InUse /\ ectx[b] \in Slots
      BY <1>2, <3>1 DEF LinkIntegrity, Linked, TypeOK
    <3>3. ectx[b] /= s
      BY <3>2 DEF InUse, Freeish
    <3> QED BY <1>2, <3>1, <3>2, <3>3 DEF LinkIntegrity, Linked, TypeOK
  <2> QED BY <2>1, <2>2
<1>3. ASSUME NEW t \in Slots, slot'[t].kind \in InUse
      PROVE  slot'[t].ds \in DStreams /\ ectx'[slot'[t].ds] = t
  <2>1. CASE t = s
    BY <2>1 DEF TypeOK
  <2>2. CASE t /= s
    <3>1. /\ slot'[t] = slot[t] /\ slot[t].ds \in DStreams
          /\ ectx[slot[t].ds] = t
      BY <1>3, <2>2 DEF TypeOK, LinkIntegrity
    <3>2. slot[t].ds /= d
      BY <3>1, SlotAssumption
    <3> QED BY <3>1, <3>2 DEF TypeOK
  <2> QED BY <2>1, <2>2
<1> QED BY <1>1, <1>2, <1>3 DEF LinkIntegrity, Linked

(* A free slot is prepared for an open, or the open is undone.             *)
LEMMA StillFree ==
    ASSUME TypeOK, LinkIntegrity, NEW s \in Slots, slot[s].kind \in Freeish,
           NEW e \in Estream, e.kind \in Freeish,
           slot' = [slot EXCEPT ![s] = e], ectx' = ectx,
           \A d \in DStreams : ectx[d] /= NoSlot => dgen'[d] = dgen[d]
    PROVE  slot' \in [Slots -> Estream] /\ LinkIntegrity'
<1>1. slot' \in [Slots -> Estream]
  BY DEF TypeOK
<1>2. ASSUME NEW b \in DStreams, ectx[b] /= NoSlot
      PROVE  /\ slot'[ectx[b]].kind \in InUse /\ slot'[ectx[b]].ds = b
             /\ slot'[ectx[b]].gen = dgen'[b]
  <2>1. slot[ectx[b]].kind \in InUse /\ ectx[b] \in Slots
    BY <1>2 DEF LinkIntegrity, Linked, TypeOK
  <2>2. ectx[b] /= s
    BY <2>1 DEF InUse, Freeish
  <2> QED BY <1>2, <2>1, <2>2 DEF LinkIntegrity, Linked, TypeOK
<1>3. ASSUME NEW t \in Slots, slot'[t].kind \in InUse
      PROVE  slot'[t].ds \in DStreams /\ ectx[slot'[t].ds] = t
  <2>1. t /= s
    BY <1>3 DEF TypeOK, InUse, Freeish
  <2> QED BY <1>3, <2>1 DEF TypeOK, LinkIntegrity
<1> QED BY <1>1, <1>2, <1>3 DEF LinkIntegrity, Linked

(* A peer's preamble turns a slot in use into a slot in use.               *)
LEMMA Reclassified ==
    ASSUME TypeOK, LinkIntegrity, NEW s \in Slots, slot[s].kind \in InUse,
           NEW e \in Estream, e.kind \in InUse, e.ds = slot[s].ds,
           e.gen = slot[s].gen, e.resident = slot[s].resident,
           slot' = [slot EXCEPT ![s] = e], UNCHANGED <<ectx, dgen>>
    PROVE  SlotsKept
<1>1. slot' \in [Slots -> Estream] /\ ectx' \in [DStreams -> Slots \cup {NoSlot}]
  BY DEF TypeOK
<1>2. \A t \in Slots : /\ slot'[t].ds = slot[t].ds /\ slot'[t].gen = slot[t].gen
                       /\ slot'[t].resident = slot[t].resident
                       /\ slot'[t].kind \in InUse <=> slot[t].kind \in InUse
                       /\ slot[t].kind \in Freeish => slot'[t].kind \in Freeish
  BY DEF TypeOK, Freeish, InUse
<1>3. LinkIntegrity'
  BY <1>2 DEF LinkIntegrity, Linked, TypeOK
<1> QED BY <1>1, <1>2, <1>3 DEF SlotsKept

(* No open is pending when no call is running.                             *)
LEMMA NoOpensIdle ==
    ASSUME IInv, Idle, StackKept(agenda')
    PROVE  OpensReserved'
<1>1. Len(agenda) = 0
  BY DEF Idle
<1> QED BY <1>1 DEF StackKept, OpensFrom, OpensReserved

(* wt_associate keeps the inductive invariant.                             *)
LEMMA WtAssociateKeeps ==
    ASSUME IInv, NEW d \in DStreams, WtAssociate(d) PROVE IInv'
<1> USE DEF IInv
<1> DEFINE s == ectx[d]  e == slot[s]
<1>1. s \in Slots /\ e \in Estream /\ e.kind = "TYPE"
  BY DEF WtAssociate, TypeOK
<1>2. StackKept(agenda')
  BY Enters, Stack0, Stack1, PlainFrames DEF WtAssociate
<1>3. RestTypes' /\ gens' = gens
  <2>1. /\ tx' \in [DStreams -> {"none", "open", "fin", "ended"}]
        /\ rx' \in [DStreams -> {"none", "open", "stopped", "ended"}]
        /\ gone' \in [DStreams -> BOOLEAN] /\ held' \in [DStreams -> BOOLEAN]
    BY WireShutTypes DEF WtAssociate, TypeOK, wire
  <2> QED BY <2>1 DEF WtAssociate, TypeOK, RestTypes, connVars
<1>4. SlotsKept
  <2> DEFINE f == [e EXCEPT !.kind = "WT", !.recv = TRUE, !.send = e.bidi]
             g == [e EXCEPT !.kind = "DRAIN"]
  <2>1. /\ f \in Estream /\ f.kind \in InUse /\ f.ds = e.ds
        /\ f.gen = e.gen /\ f.resident = e.resident
    BY <1>1 DEF Estream, Kinds, InUse
  <2>2. /\ g \in Estream /\ g.kind \in InUse /\ g.ds = e.ds
        /\ g.gen = e.gen /\ g.resident = e.resident
    BY <1>1 DEF Estream, Kinds, InUse
  <2>3. \/ slot' = slot \/ slot' = [slot EXCEPT ![s] = f]
        \/ slot' = [slot EXCEPT ![s] = g]
    BY Zenon DEF WtAssociate
  <2>4. UNCHANGED <<ectx, dgen>> /\ e.kind \in InUse
    BY <1>1 DEF WtAssociate, InUse
  <2> HIDE DEF f, g
  <2>5. CASE slot' = slot
    BY <2>4, <2>5, NoneTouched
  <2>6. CASE slot' = [slot EXCEPT ![s] = f]
    BY <1>1, <2>1, <2>4, <2>6, Reclassified
  <2>7. CASE slot' = [slot EXCEPT ![s] = g]
    BY <1>1, <2>2, <2>4, <2>7, Reclassified
  <2> QED BY <2>3, <2>5, <2>6, <2>7
<1> QED BY <1>2, <1>3, <1>4, Combine

(* A pending wt_open is pushed, for a slot that has none.                  *)
LEMMA PushOpen ==
    ASSUME agenda \in Seq(Frame), OpensDistinct(agenda),
           agenda = <<>> \/ Head(agenda).op /= "wt_open",
           NEW f \in Frame, f.op = "wt_open",
           \A i \in 1..Len(agenda) : agenda[i].op = "wt_open" =>
              agenda[i].s /= f.s,
           NEW c, c = IF Budgeted THEN <<App, f>> ELSE <<f>>
    PROVE  /\ c \o agenda \in Seq(Frame) /\ OpensDistinct(c \o agenda)
           /\ \A i \in 1..Len(c \o agenda) : (c \o agenda)[i].op = "wt_open" =>
                \/ (c \o agenda)[i] = f
                \/ \E j \in 1..Len(agenda) : agenda[j] = (c \o agenda)[i]
<1> DEFINE r == c \o agenda
           n == Len(c)
<1>0. App \in Frame /\ App.op /= "wt_open"
  BY PlainFrames DEF Pushables
<1>1. /\ c \in Seq(Frame) /\ n \in {1, 2} /\ c[n] = f
      /\ \A i \in 1..n : i /= n => c[i].op /= "wt_open"
      /\ ~Budgeted => n = 1
  <2>1. CASE Budgeted
    <3>1. c = <<App, f>>
      BY <2>1
    <3> HIDE DEF App
    <3> QED BY <1>0, <2>1, <3>1
  <2>2. CASE ~Budgeted
    BY <2>2
  <2> QED BY <2>1, <2>2
<1>2. /\ r \in Seq(Frame) /\ Len(r) = n + Len(agenda)
      /\ \A i \in 1..n : r[i] = c[i]
      /\ \A i \in 1..Len(agenda) : r[n + i] = agenda[i]
      /\ Len(agenda) \in Nat
  BY <1>1, ConcatFacts
<1> HIDE DEF r, n
<1>3. ASSUME NEW i \in 1..Len(r), r[i].op = "wt_open"
      PROVE  \/ i = n /\ r[i] = f
             \/ i - n \in 1..Len(agenda) /\ r[i] = agenda[i - n]
  <2>1. CASE i \in 1..n
    BY <1>1, <1>2, <1>3, <2>1
  <2>2. CASE i \notin 1..n
    <3>1. i - n \in 1..Len(agenda) /\ i = n + (i - n)
      BY <1>1, <1>2, <2>2
    <3> QED BY <1>2, <3>1
  <2> QED BY <2>1, <2>2
<1>4. ASSUME NEW i \in 1..Len(r), NEW j \in 1..Len(r), i /= j,
             r[i].op = "wt_open", r[j].op = "wt_open"
      PROVE  r[i].s /= r[j].s
  <2>1. CASE i - n \in 1..Len(agenda) /\ j - n \in 1..Len(agenda)
    <3>1. i - n /= j - n /\ i /= n /\ j /= n
      BY <1>1, <1>2, <1>4, <2>1
    <3>2. r[i] = agenda[i - n] /\ r[j] = agenda[j - n]
      BY <1>3, <1>4, <3>1
    <3> QED BY <1>4, <2>1, <3>1, <3>2 DEF OpensDistinct
  <2>2. CASE i - n \notin 1..Len(agenda)
    <3>1. i = n /\ r[i] = f
      BY <1>3, <1>4, <2>2
    <3>2. j - n \in 1..Len(agenda) /\ r[j] = agenda[j - n]
      BY <1>3, <1>4, <3>1
    <3> QED BY <1>4, <3>1, <3>2
  <2>3. CASE j - n \notin 1..Len(agenda)
    <3>1. j = n /\ r[j] = f
      BY <1>3, <1>4, <2>3
    <3>2. i - n \in 1..Len(agenda) /\ r[i] = agenda[i - n]
      BY <1>3, <1>4, <3>1
    <3> QED BY <1>4, <3>1, <3>2
  <2> QED BY <2>1, <2>2, <2>3
<1>5. ASSUME ~Budgeted, NEW i \in 2..Len(r), r[i].op = "wt_open"
      PROVE  FALSE
  <2>1. n = 1 /\ i \in 1..Len(r) /\ i /= 1
    BY <1>1, <1>2, <1>5
  <2>2. i - 1 \in 1..Len(agenda) /\ agenda[i - 1].op = "wt_open"
    BY <1>3, <1>5, <2>1
  <2>3. i - 1 /= 1
    BY <1>2, <2>2
  <2>4. i - 1 \in 2..Len(agenda)
    BY <1>2, <2>2, <2>3
  <2> QED BY <1>5, <2>2, <2>4 DEF OpensDistinct
<1>6. OpensDistinct(r)
  BY <1>4, <1>5 DEF OpensDistinct
<1>7. \A i \in 1..Len(r) : r[i].op = "wt_open" =>
        \/ r[i] = f
        \/ \E j \in 1..Len(agenda) : agenda[j] = r[i]
  BY <1>3
<1> QED BY <1>2, <1>6, <1>7 DEF r

(* wt_open up to the driver's open keeps the inductive invariant.          *)
LEMMA WtOpenKeeps ==
    ASSUME IInv, NEW s \in Slots, NEW b \in BOOLEAN, WtOpen(s, b) PROVE IInv'
<1> USE DEF IInv
<1> DEFINE e == [Fresh(s) EXCEPT !.kind = OpeningKind, !.bidi = b,
                                 !.resident = Budgeted]
           f == [op |-> "wt_open", s |-> s, g |-> gens + 1, d |-> NoDs,
                 x |-> {}]
           c == IF Budgeted THEN <<App, f>> ELSE <<f>>
<1>1. /\ slot[s].kind = "FREE" /\ ~slot[s].resident
      /\ gens' = gens + 1 /\ gens \in Nat
      /\ slot' = [slot EXCEPT ![s] = e]
      /\ agenda' = c \o agenda
      /\ UNCHANGED <<closed, sess, ectx, dgen, tx, rx, gone, held>>
      /\ heard' = [heard EXCEPT ![s] = {}]
      /\ agenda = <<>> \/ Head(agenda).op /= "wt_open"
  BY DEF WtOpen, Spare, connVars, wire, Enter, AppMay, Idle, At, TypeOK
<1>2. /\ e \in Estream /\ e.kind \in Freeish /\ e.gen = gens + 1
      /\ e.resident = Budgeted
  <2> DEFINE k == OpeningKind
             B == Budgeted
  <2>1. k \in Freeish /\ k \in Kinds /\ B \in BOOLEAN
    BY ModeAssumption DEF OpeningKind, Kinds, Freeish
  <2>2. e = [EmptySlot EXCEPT !.gen = gens + 1, !.kind = k, !.bidi = b,
                              !.resident = B]
    BY Zenon DEF Fresh
  <2> HIDE DEF k, B
  <2>3. /\ e \in Estream /\ e.kind = k /\ e.gen = gens + 1
        /\ e.resident = B
    <3>1. gens + 1 \in Nat
      BY <1>1
    <3> HIDE DEF e
    <3> QED BY <2>1, <2>2, <3>1, b \in BOOLEAN DEF EmptySlot, Estream
  <2> QED BY <2>1, <2>3 DEF B
<1>3. f \in Frame /\ f.op = "wt_open" /\ f.s = s
  BY <1>1 DEF Frame, SlotOps
<1> HIDE DEF e, f
<1>4. ASSUME NEW i \in 1..Len(agenda), agenda[i].op = "wt_open"
      PROVE  agenda[i].s /= s /\ agenda[i].s \in Slots
  <2>1. agenda[i] \in Frame
    BY DEF TypeOK
  <2>2. agenda[i].s \in Slots
    BY <1>4, <2>1 DEF Frame, SlotOps, StreamOps, PlainOps
  <2>3. CASE Budgeted
    BY <1>1, <1>4, <2>2, <2>3 DEF OpensReserved
  <2>4. CASE ~Budgeted
    <3>1. agenda /= <<>> /\ Head(agenda) = agenda[1] /\ Len(agenda) \in Nat
      BY TailFacts DEF TypeOK
    <3>2. i /= 1
      BY <1>1, <1>4, <3>1
    <3>3. i \in 2..Len(agenda)
      BY <3>1, <3>2
    <3> QED BY <1>4, <2>4, <3>3 DEF OpensDistinct
  <2> QED BY <2>2, <2>3, <2>4
<1>5. /\ agenda' \in Seq(Frame) /\ OpensDistinct(agenda')
      /\ \A i \in 1..Len(agenda') : agenda'[i].op = "wt_open" =>
           agenda'[i] = f \/ \E j \in 1..Len(agenda) : agenda[j] = agenda'[i]
  <2>1. agenda \in Seq(Frame) /\ OpensDistinct(agenda)
    BY DEF TypeOK
  <2>2. \A i \in 1..Len(agenda) : agenda[i].op = "wt_open" =>
          agenda[i].s /= f.s
    BY <1>3, <1>4
  <2> HIDE DEF IInv
  <2> QED BY <1>1, <1>3, <2>1, <2>2, PushOpen
<1>6. slot' \in [Slots -> Estream] /\ LinkIntegrity'
  BY <1>1, <1>2, StillFree DEF Freeish
<1>7. \A t \in Slots : slot'[t].gen <= gens'
  BY <1>1, <1>2 DEF TypeOK, Estream
<1>8. TypeOK'
  BY <1>1, <1>5, <1>6, <1>7 DEF TypeOK
<1>9. OpensReserved'
  <2> SUFFICES ASSUME NEW i \in 1..Len(agenda'), agenda'[i].op = "wt_open"
               PROVE  /\ slot'[agenda'[i].s].kind \in Freeish
                      /\ Budgeted => slot'[agenda'[i].s].resident
    BY DEF OpensReserved
  <2>1. CASE agenda'[i] = f
    BY <1>1, <1>2, <1>3, <2>1 DEF TypeOK
  <2>2. CASE \E j \in 1..Len(agenda) : agenda[j] = agenda'[i]
    <3>1. PICK j \in 1..Len(agenda) : agenda[j] = agenda'[i]
      BY <2>2
    <3>2. /\ agenda[j].s \in Slots /\ agenda[j].s /= s
          /\ slot'[agenda[j].s] = slot[agenda[j].s]
      BY <1>1, <1>4, <3>1 DEF TypeOK
    <3> QED BY <3>1, <3>2 DEF OpensReserved
  <2> QED BY <1>5, <2>1, <2>2
<1> QED BY <1>5, <1>6, <1>8, <1>9

(* The invariant after a step that changes slot s alone and leaves no      *)
(* wt_open pending for it.                                                 *)
LEMMA OpensElsewhere ==
    ASSUME IInv, NEW s \in Slots, NEW e, slot' = [slot EXCEPT ![s] = e],
           \A i \in 1..Len(agenda') : agenda'[i].op = "wt_open" =>
              \E j \in 1..Len(agenda) : /\ agenda[j] = agenda'[i]
                                        /\ agenda[j].s /= s
    PROVE  OpensReserved'
<1> SUFFICES ASSUME NEW i \in 1..Len(agenda'), agenda'[i].op = "wt_open"
             PROVE  /\ slot'[agenda'[i].s].kind \in Freeish
                    /\ Budgeted => slot'[agenda'[i].s].resident
  BY DEF OpensReserved
<1>1. PICK j \in 1..Len(agenda) : agenda[j] = agenda'[i] /\ agenda[j].s /= s
  OBVIOUS
<1>2. agenda[j] \in Frame
  BY DEF IInv, TypeOK
<1>3. agenda[j].s \in Slots
  BY <1>1, <1>2 DEF Frame, SlotOps, StreamOps, PlainOps
<1>4. slot'[agenda[j].s] = slot[agenda[j].s]
  BY <1>1, <1>3 DEF IInv, TypeOK
<1> QED BY <1>1, <1>4 DEF IInv, OpensReserved

(* The rest of wt_open, run after whatever the open's callbacks did, keeps *)
(* the inductive invariant.                                                *)
LEMMA WtOpenedKeeps == ASSUME IInv, WtOpened PROVE IInv'
<1> USE DEF IInv
<1> DEFINE s == This.s
           f0 == [slot[s] EXCEPT !.kind = "FREE", !.resident = FALSE]
<1>1. /\ agenda \in Seq(Frame) /\ OpensDistinct(agenda) /\ agenda /= <<>>
      /\ This = agenda[1] /\ This.op = "wt_open" /\ Len(agenda) \in Nat \ {0}
  BY TailFacts DEF WtOpened, At, This, TypeOK
<1>2. s \in Slots
  BY <1>1, TopFrame DEF SlotOps
<1>3. slot[s] \in Estream /\ slot[s].kind \in Freeish
  BY <1>1, <1>2 DEF TypeOK, OpensReserved
<1>4. UNCHANGED <<closed, sess, gens, heard>>
  BY DEF WtOpened, connVars
<1>5. PICK c \in Seq(Pushables) : Then(c)
  BY Stack0, Stack1, PlainFrames DEF WtOpened
<1>6. StackKept(agenda')
  BY <1>1, <1>5, Thens
<1>7. ASSUME NEW i \in 1..Len(agenda'), agenda'[i].op = "wt_open"
      PROVE  \E j \in 1..Len(agenda) : agenda[j] = agenda'[i] /\ agenda[j].s /= s
  <2>1. PICK j \in 2..Len(agenda) : agenda[j] = agenda'[i]
    BY <1>1, <1>5, <1>7, Replace DEF Then
  <2>2. j \in 1..Len(agenda) /\ 1 \in 1..Len(agenda) /\ j /= 1
    BY <1>1
  <2> QED BY <1>1, <1>7, <2>1, <2>2 DEF OpensDistinct
<1>8. ASSUME NEW e \in Estream, slot' = [slot EXCEPT ![s] = e],
             e.gen = slot[s].gen, slot' \in [Slots -> Estream],
             ectx' \in [DStreams -> Slots \cup {NoSlot}],
             dgen' \in [DStreams -> Nat], LinkIntegrity',
             tx' \in [DStreams -> {"none", "open", "fin", "ended"}],
             rx' \in [DStreams -> {"none", "open", "stopped", "ended"}],
             gone' \in [DStreams -> BOOLEAN], held' \in [DStreams -> BOOLEAN]
      PROVE  IInv'
  <2>1. OpensReserved'
    BY <1>2, <1>7, <1>8, OpensElsewhere
  <2>2. \A t \in Slots : slot'[t].gen <= gens'
    BY <1>2, <1>4, <1>8 DEF TypeOK
  <2>3. TypeOK'
    BY <1>4, <1>6, <1>8, <2>2 DEF TypeOK, StackKept
  <2> QED BY <1>6, <1>8, <2>1, <2>3 DEF StackKept
<1>9. CASE slot' = [slot EXCEPT ![s] = f0] /\ UNCHANGED <<ectx, dgen, wire>>
  <2>1. f0 \in Estream /\ f0.kind \in Freeish /\ f0.gen = slot[s].gen
    BY <1>3 DEF Estream, Kinds, InUse, Freeish
  <2> HIDE DEF f0
  <2>2. slot' \in [Slots -> Estream] /\ LinkIntegrity'
    BY <1>2, <1>3, <1>9, <2>1, StillFree
  <2> QED BY <1>8, <1>9, <2>1, <2>2 DEF TypeOK, wire
<1>10. ASSUME NEW d \in DStreams, Unused(d),
              tx' = [tx EXCEPT ![d] = "open"],
              rx' = [rx EXCEPT ![d] = IF slot[s].bidi THEN "open" ELSE @],
              gone' = [gone EXCEPT ![d] = FALSE], held' = held,
              dgen' = [dgen EXCEPT ![d] = slot[s].gen],
              \/ /\ slot' = [slot EXCEPT ![s] = [slot[s] EXCEPT !.kind = "WT",
                           !.ds = d, !.local = TRUE, !.send = TRUE,
                           !.recv = slot[s].bidi]]
                 /\ ectx' = [ectx EXCEPT ![d] = s]
              \/ /\ slot' = [slot EXCEPT ![s] = [slot[s] EXCEPT !.kind = "FREE",
                                                                !.ds = d]]
                 /\ ectx' = ectx
       PROVE  IInv'
  <2> DEFINE live == [slot[s] EXCEPT !.kind = "WT", !.ds = d, !.local = TRUE,
                        !.send = TRUE, !.recv = slot[s].bidi]
             free == [slot[s] EXCEPT !.kind = "FREE", !.ds = d]
  <2>1. /\ live \in Estream /\ live.kind \in InUse /\ live.ds = d
        /\ live.gen = slot[s].gen
    BY <1>3 DEF Estream, Kinds, InUse
  <2>2. free \in Estream /\ free.kind \in Freeish /\ free.gen = slot[s].gen
    BY <1>3 DEF Estream, Kinds, InUse, Freeish
  <2>3. /\ tx' \in [DStreams -> {"none", "open", "fin", "ended"}]
        /\ rx' \in [DStreams -> {"none", "open", "stopped", "ended"}]
        /\ gone' \in [DStreams -> BOOLEAN] /\ held' \in [DStreams -> BOOLEAN]
    BY <1>10 DEF TypeOK
  <2>4. ectx[d] = NoSlot
    BY <1>10 DEF Unused
  <2>5. dgen' \in [DStreams -> Nat]
    BY <1>3, <1>10 DEF TypeOK, Estream
  <2>6. \/ slot' = [slot EXCEPT ![s] = live] /\ ectx' = [ectx EXCEPT ![d] = s]
        \/ slot' = [slot EXCEPT ![s] = free] /\ ectx' = ectx
    BY <1>10
  <2> HIDE DEF live, free
  <2>7. CASE slot' = [slot EXCEPT ![s] = live] /\ ectx' = [ectx EXCEPT ![d] = s]
    <3>1. /\ slot' \in [Slots -> Estream]
          /\ ectx' \in [DStreams -> Slots \cup {NoSlot}] /\ LinkIntegrity'
      BY <1>2, <1>3, <1>10, <2>1, <2>4, <2>7, NewLink
    <3> QED BY <1>8, <2>1, <2>3, <2>5, <2>7, <3>1
  <2>8. CASE slot' = [slot EXCEPT ![s] = free] /\ ectx' = ectx
    <3>1. \A b \in DStreams : ectx[b] /= NoSlot => dgen'[b] = dgen[b]
      BY <1>10, <2>4 DEF TypeOK
    <3>2. slot' \in [Slots -> Estream] /\ LinkIntegrity'
      BY <1>2, <1>3, <2>2, <2>8, <3>1, StillFree
    <3>3. ectx' \in [DStreams -> Slots \cup {NoSlot}]
      BY <2>8 DEF TypeOK
    <3> QED BY <1>8, <2>2, <2>3, <2>5, <2>8, <3>2, <3>3
  <2> QED BY <2>6, <2>7, <2>8
<1> QED BY <1>9, <1>10, Zenon DEF WtOpened

(* wtq_conn_on_peer_uni_opened and _bidi_opened keep the inductive         *)
(* invariant.                                                              *)
LEMMA OnPeerOpenedKeeps ==
    ASSUME IInv, NEW d \in DStreams, NEW b \in BOOLEAN, OnPeerOpened(d, b)
    PROVE  IInv'
<1> USE DEF IInv
<1>1. /\ UNCHANGED <<closed, sess, held>> /\ ectx[d] = NoSlot
      /\ tx' \in [DStreams -> {"none", "open", "fin", "ended"}]
      /\ rx' \in [DStreams -> {"none", "open", "stopped", "ended"}]
      /\ gone' \in [DStreams -> BOOLEAN] /\ Idle
  BY DEF OnPeerOpened, TypeOK, connVars, Unused
<1>2. CASE UNCHANGED <<gens, slot, ectx, dgen, heard>>
  <2>1. StackKept(agenda')
    BY <1>1, Stays, Enters, Stack0, Stack1, PlainFrames DEF OnPeerOpened
  <2>2. SlotsKept
    BY <1>2, NoneTouched
  <2>3. RestTypes' /\ gens' = gens
    BY <1>1, <1>2 DEF TypeOK, RestTypes
  <2> QED BY <2>1, <2>2, <2>3, Combine
<1>3. ASSUME NEW s \in Spare, gens' = gens + 1,
             slot' = [slot EXCEPT ![s] = [Fresh(s) EXCEPT !.kind = "TYPE",
                                            !.ds = d, !.bidi = b]],
             ectx' = [ectx EXCEPT ![d] = s],
             dgen' = [dgen EXCEPT ![d] = gens + 1],
             heard' = [heard EXCEPT ![s] = {}], agenda' = agenda
      PROVE  IInv'
  <2> DEFINE e == [Fresh(s) EXCEPT !.kind = "TYPE", !.ds = d, !.bidi = b]
  <2>1. gens \in Nat /\ s \in Slots /\ slot[s].kind \in Freeish
    BY DEF TypeOK, Spare, Freeish
  <2>2. e \in Estream /\ e.kind \in InUse /\ e.ds = d /\ e.gen = gens + 1
    <3>1. gens + 1 \in Nat
      BY <2>1
    <3>2. e = [EmptySlot EXCEPT !.gen = gens + 1, !.kind = "TYPE", !.ds = d,
                                !.bidi = b]
      BY Zenon DEF Fresh
    <3> HIDE DEF e, IInv
    <3>3. e \in Estream /\ e.kind = "TYPE" /\ e.ds = d /\ e.gen = gens + 1
      BY <3>1, <3>2 DEF EmptySlot, Estream, Kinds, InUse
    <3> QED BY <3>3 DEF InUse
  <2>3. slot' = [slot EXCEPT ![s] = e]
    BY <1>3
  <2> HIDE DEF e
  <2>4. /\ slot' \in [Slots -> Estream]
        /\ ectx' \in [DStreams -> Slots \cup {NoSlot}]
        /\ dgen' \in [DStreams -> Nat] /\ LinkIntegrity'
    BY <1>1, <1>3, <2>1, <2>2, <2>3, NewLink
  <2>5. ASSUME NEW t \in Slots PROVE slot'[t].gen <= gens'
    <3>1. slot[t].gen <= gens /\ slot[t].gen \in Nat
      BY DEF TypeOK, Estream
    <3>2. slot'[t].gen = slot[t].gen \/ slot'[t].gen = gens + 1
      BY <2>1, <2>2, <2>3 DEF TypeOK
    <3> QED BY <1>3, <2>1, <3>1, <3>2
  <2>6. StackKept(agenda')
    BY <1>3, Stays
  <2>7. OpensReserved'
    BY <1>1, <2>6, NoOpensIdle
  <2>8. TypeOK'
    BY <1>1, <1>3, <2>1, <2>4, <2>5, <2>6 DEF TypeOK, StackKept
  <2> QED BY <2>4, <2>6, <2>7, <2>8 DEF StackKept
<1> QED BY <1>2, <1>3, Zenon DEF OnPeerOpened

(* wtq_conn_stream_retire_v2 keeps the inductive invariant.                *)
LEMMA RetireKeeps ==
    ASSUME IInv, NEW d \in DStreams, Retire(d) PROVE IInv'
<1> USE DEF IInv
<1>1. /\ UNCHANGED <<closed, sess, gens, ectx, dgen, agenda, heard>> /\ Idle
      /\ tx' \in [DStreams -> {"none", "open", "fin", "ended"}]
      /\ rx' \in [DStreams -> {"none", "open", "stopped", "ended"}]
      /\ gone' \in [DStreams -> BOOLEAN] /\ held' \in [DStreams -> BOOLEAN]
  BY DEF Retire, TypeOK, connVars
<1>2. ASSUME NEW t \in Slots
      PROVE  /\ slot'[t] \in Estream /\ slot'[t].kind = slot[t].kind
             /\ slot'[t].gen = slot[t].gen
             /\ slot[t].kind /= "FREE" => slot'[t] = slot[t]
  <2> DEFINE e == [slot[t] EXCEPT !.resident = FALSE, !.ds = NoDs]
  <2>1. slot[t] \in Estream
    BY DEF TypeOK
  <2>2. e \in Estream /\ e.kind = slot[t].kind /\ e.gen = slot[t].gen
    BY <2>1 DEF Estream
  <2>3. slot'[t] = slot[t] \/ (slot'[t] = e /\ slot[t].kind = "FREE")
    BY DEF Retire
  <2> HIDE DEF e
  <2> QED BY <2>1, <2>2, <2>3
<1>3. slot' \in [Slots -> Estream]
  <2>1. slot' = [t \in Slots |-> slot'[t]]
    BY DEF Retire
  <2> QED BY <1>2, <2>1
<1>4. LinkIntegrity'
  <2>1. \A t \in Slots : slot'[t].kind \in InUse => slot'[t] = slot[t]
    BY <1>2 DEF InUse
  <2>2. \A t \in Slots : slot[t].kind \in InUse => slot'[t] = slot[t]
    BY <1>2 DEF InUse
  <2> QED BY <1>1, <2>1, <2>2 DEF LinkIntegrity, Linked, TypeOK
<1>5. StackKept(agenda')
  BY <1>1, Stays
<1>6. OpensReserved'
  BY <1>1, <1>5, NoOpensIdle
<1>7. TypeOK'
  BY <1>1, <1>2, <1>3, <1>5 DEF TypeOK, StackKept
<1> QED BY <1>4, <1>5, <1>6, <1>7 DEF StackKept

-----------------------------------------------------------------------------
(* The theorems.                                                           *)

(* A new connection satisfies the inductive invariant.                     *)
LEMMA InitHolds == Init => IInv
<1> SUFFICES ASSUME Init PROVE IInv
  OBVIOUS
<1>1. EmptySlot \in Estream /\ EmptySlot.kind = "FREE" /\ EmptySlot.gen = 0
  BY DEF EmptySlot, Estream, Kinds, InUse
<1>2. agenda = <<>> /\ agenda \in Seq(Frame) /\ Len(agenda) = 0
  BY SMT DEF Init
<1>3. TypeOK
  <2>1. /\ slot = [s \in Slots |-> EmptySlot] /\ gens = 0
        /\ heard = [s \in Slots |-> {}]
    BY DEF Init
  <2> HIDE DEF EmptySlot
  <2>2. slot \in [Slots -> Estream] /\ \A s \in Slots : slot[s].gen <= gens
    BY <1>1, <2>1
  <2>3. heard \in [Slots -> SUBSET Marks]
    BY <2>1
  <2>4. /\ closed \in BOOLEAN /\ sess \in {"none", "active", "ended"}
        /\ gens \in Nat /\ ectx \in [DStreams -> Slots \cup {NoSlot}]
        /\ dgen \in [DStreams -> Nat]
        /\ tx \in [DStreams -> {"none", "open", "fin", "ended"}]
        /\ rx \in [DStreams -> {"none", "open", "stopped", "ended"}]
        /\ gone \in [DStreams -> BOOLEAN] /\ held \in [DStreams -> BOOLEAN]
    BY DEF Init
  <2> QED BY <1>2, <2>2, <2>3, <2>4 DEF TypeOK
<1>4. LinkIntegrity
  BY <1>1 DEF Init, LinkIntegrity, Linked, InUse
<1>5. OpensDistinct(agenda) /\ OpensReserved
  BY <1>2 DEF OpensDistinct, OpensReserved
<1> QED BY <1>3, <1>4, <1>5 DEF IInv

(* Every step of the engine, the backend or the application keeps it.      *)
LEMMA StepHolds == IInv /\ [Next]_vars => IInv'
<1> SUFFICES ASSUME IInv, [Next]_vars PROVE IInv'
  OBVIOUS
<1>1. CASE EngineStep
  BY <1>1, AppReturnsKeeps, ConnFatalKeeps, SessionClosedKeeps, TeardownKeeps,
     TornKeeps, WtOpenedKeeps, InputKeeps, MoreKeeps, FinDeliveredKeeps,
     SettleAfterResetKeeps, SettleIfSameKeeps, OnStreamTerminalKeeps,
     TerminalReleaseKeeps, WtSentKeeps, WtShutdownDoneKeeps
  DEF EngineStep
<1>2. CASE BackendInput
  <2>1. \A b \in Directions : b \in BOOLEAN
    BY CapsAssumption
  <2> QED
    BY <1>2, <2>1, EstablishKeeps, OnConnLostKeeps, OnPeerOpenedKeeps,
       OnSendShutdownKeeps, WtAssociateKeeps, RetireKeeps, OnStreamBytesKeeps,
       OnEarlyFinKeeps, OnStreamResetKeeps, OnStopSendingKeeps,
       TransportGoneKeeps, ReportTerminalKeeps
    DEF BackendInput
<1>3. CASE AppOperation
  <2>1. \A b \in Directions : b \in BOOLEAN
    BY CapsAssumption
  <2> QED
    BY <1>3, <2>1, SessionEndsKeeps, WtOpenKeeps, WtSendKeeps, RecvEnableKeeps,
       WtShutdownKeeps, EnableSendCommitKeeps
    DEF AppOperation
<1>4. CASE UNCHANGED vars
  <2>1. StackKept(agenda')
    BY <1>4, Stays DEF vars
  <2>2. SlotsKept
    BY <1>4, NoneTouched DEF vars, IInv
  <2>3. RestTypes' /\ gens' = gens
    BY <1>4 DEF vars, connVars, wire, IInv, TypeOK, RestTypes
  <2> QED BY <2>1, <2>2, <2>3, Combine
<1> QED BY <1>1, <1>2, <1>3, <1>4 DEF Next

(* The inductive invariant holds in every reachable state.                 *)
THEOREM Inductive == Spec => []IInv
  BY InitHolds, StepHolds, PTL DEF Spec

(* Every variable keeps its type, however calls nest: every function still *)
(* to run on the stack of conn.c names a slot and a stream object of this  *)
(* connection, and no estream has a generation conn->stream_generation has *)
(* not reached.                                                            *)
THEOREM TypeCorrect == Spec => []TypeOK
<1>1. IInv => TypeOK
  BY DEF IInv
<1> QED BY <1>1, Inductive, PTL

(* estream_release keeps the backend's links exact: for any number of      *)
(* slots and stream objects, in both modes and at any depth of nesting, a  *)
(* linked stream object is served by the slot that was taken for it, in    *)
(* that generation, and a slot in use can be reached by its stream.        *)
THEOREM LinksHold == Spec => []LinkIntegrity
<1>1. IInv => LinkIntegrity
  BY DEF IInv
<1> QED BY <1>1, Inductive, PTL
=============================================================================
