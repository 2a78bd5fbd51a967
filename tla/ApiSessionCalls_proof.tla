----------------------- MODULE ApiSessionCalls_proof -----------------------
(***************************************************************************)
(* The inductive invariant of ApiSession, and the proof that every step of *)
(* the call stack keeps it, for every number of slots, streams and         *)
(* references and every depth of the stack, in both pool modes.  The steps *)
(* of the session and its streams, and the theorems, are in                *)
(* ApiSession_proof.                                                       *)
(*                                                                         *)
(* The argument counts.  A session's reference is the backend's, the       *)
(* running service's, or one of the application's; a handle's reference is *)
(* the library's, a waiting call's, or one of the application's; and       *)
(* cb_depth is the number of the waiting calls that close a bracket.       *)
(***************************************************************************)
EXTENDS ApiSession, SequenceTheorems, FiniteSets, FiniteSetTheorems,
        FunctionTheorems, WellFoundedInduction, TLAPS

Bit(b) == IF b THEN 1 ELSE 0

(* How many calls of a kind wait on stack q, and how many of them for      *)
(* handle h.                                                               *)
N(q, op) == Cardinality({i \in 1..Len(q) : q[i].op = op})
M(q, op, h) == Cardinality({i \in 1..Len(q) : q[i].op = op /\ q[i].at = h})
Waiting(q) == {q[i] : i \in 1..Len(q)}

(* The calls that close a bracket.                                         *)
BracketOps == {"exit", "drop", "committed", "commit_end", "open_rest",
               "open_failed", "service"}
Brackets(q) == Cardinality({i \in 1..Len(q) : q[i].op \in BracketOps})
OpenOps == {"open_rest", "open_failed"}
Tells == {"tell_closed", "tell_failed"}

(* The session is over, whatever is still to be told.                      *)
Over == closed \/ sess = "ended"

(* The application's references to streams, one by one; H is hs.           *)
Tokens(H) == UNION {{h} \X (1..H[h].app) : h \in Slots}

-----------------------------------------------------------------------------
(* The types the proofs need: no bound on a counter.                       *)
Ops == HandleOps \cup StreamOps \cup SlotSetOps \cup PlainOps \cup {"open_rest"}
Frame == {f \in [op : Ops, at : Slots \cup {None}, gen : Nat,
                 x : SUBSET (Slots \cup Marks)] :
            /\ f.op \in HandleOps \cup StreamOps \cup {"open_rest"}
                 => f.at \in Slots
            /\ f.op \in SlotSetOps \cup {"open_rest"} => f.x \subseteq Slots}
HandleType ==
    [refs : Nat, app : Nat, alive : BOOLEAN, send : BOOLEAN, recv : BOOLEAN,
     fin : BOOLEAN, commit : BOOLEAN, bidi : BOOLEAN, local : BOOLEAN,
     es : Slots \cup {None}, credit : Slots \cup {None}, gen : Nat]
StreamType ==
    [kind : {"FREE", "RESERVED", "WT"}, user : Slots \cup {None},
     send : BOOLEAN, recv : BOOLEAN, fin : BOOLEAN, drain : BOOLEAN,
     commit : BOOLEAN, sent : BOOLEAN, bidi : BOOLEAN, local : BOOLEAN,
     lease : BOOLEAN, resident : BOOLEAN, gen : Nat]
ToldType == [Slots -> {"none", "given", "closed", "unasked"}]
Types ==
    /\ admission \in BOOLEAN /\ freed \in BOOLEAN /\ backend \in BOOLEAN
    /\ attached \in BOOLEAN /\ running \in BOOLEAN /\ terminal \in BOOLEAN
    /\ deferred \in BOOLEAN /\ closed \in BOOLEAN
    /\ refs \in Int /\ commitDepth \in Int
    /\ appRefs \in Nat /\ streams \in Nat
    /\ sess \in {"none", "active", "ended"}
    /\ outcome \in {"none", "closed", "failed"}
    /\ es \in [Slots -> StreamType]

(* Which call may wait above which, in admission mode (m) or not.          *)
Above(m, f, g) ==
    /\ f.op \in OpenOps /\ f.x /= {} =>
         /\ ~(g.op \in HandleOps /\ g.at \in f.x)
         /\ g.op \in OpenOps => g.x \cap f.x = {}
    /\ ~(f.op \in Tells /\ g.op = "streams_teardown")
    /\ f.op = "backend_release" => g.op = "exit"
    /\ g.op = "open_rest" => m
(* A handle that is to be settled is held by a call below.                 *)
Holder(f, g) == g.op = "drop" /\ g.at = f.at
Stacked(m, q) ==
    /\ \A i, j \in 1..Len(q) : i < j => Above(m, q[i], q[j])
    /\ \A i \in 1..Len(q) : q[i].op = "settle" =>
         \E j \in 1..Len(q) : i < j /\ Holder(q[i], q[j])
    /\ q /= <<>> => q[Len(q)].op \in BracketOps

-----------------------------------------------------------------------------
(* The invariant, of stack q, of depth d of open brackets, of handles H    *)
(* and of what was told of them, T: so that a step can be followed change  *)
(* by change.                                                              *)

(* The session's count and its brackets.                                   *)
Counted(q, d, H) ==
    /\ d = Brackets(q)
    /\ N(q, "service") = Bit(running)
    /\ IsFiniteSet(Tokens(H))
    /\ refs = Bit(backend) + Bit(running) + appRefs + Cardinality(Tokens(H))

(* How the session ends.                                                   *)
Ending(q) ==
    /\ N(q, "on_session_closed") > 0 => sess = "ended"
    /\ N(q, "on_conn_error") > 0 => closed
    /\ N(q, "session_failed") > 0 => sess = "none" \/ terminal
    /\ N(q, "streams_teardown") > 0 => terminal
    /\ N(q, "tell_closed") + N(q, "tell_failed") + Bit(deferred)
         + Bit(outcome /= "none") = Bit(terminal)
    /\ terminal => Over
    /\ deferred => N(q, "committed") + N(q, "commit_end") > 0
    /\ closed /\ ~terminal => N(q, "on_conn_error") > 0
    /\ ~backend => closed
    /\ N(q, "backend_release") > 0 =>
         backend /\ (closed \/ N(q, "conn_fatal") > 0)
    /\ deferred \/ outcome /= "none" => N(q, "streams_teardown") = 0
    /\ N(q, "open_rest") > 0 /\ ~admission => sess = "active" /\ ~closed
    /\ attached => admission

(* A handle's count: n references, a of them the application's; the        *)
(* library's own is the live handle's or goes with its last events: cm     *)
(* commits (held, too) and sr closes; dr calls hold it.  A handle whose    *)
(* reserved slot was given back twice is owed nothing any more.            *)
Balanced(n, a, alive, cm, sr, dr) == n >= a + Bit(alive) + 2 * cm + sr + dr
Settled(t, alive, cm, sr, dr) ==
    Over /\ ~alive /\ t = "none" /\ cm = 0 /\ sr = 0 /\ dr = 0
Sound(n, a, alive, t, cm, sr, dr) ==
    /\ Balanced(n, a, alive, cm, sr, dr) \/ Settled(t, alive, cm, sr, dr)
    /\ Bit(alive) + cm + sr <= 1
    /\ t = "given" <=> (cm > 0 \/ (alive /\ t /= "none"))
    /\ t \in {"closed", "unasked"} <=> sr > 0
Holds(q, h) == M(q, "drop", h) + M(q, "commit_end", h)
HandleSound(q, H, T, h) ==
    Sound(H[h].refs, H[h].app, H[h].alive, T[h],
          M(q, "committed", h), M(q, "slot_release", h), Holds(q, h))

(* What a waiting call relies on.                                          *)
Reserved(r, t) ==
    /\ t /= "given"
    /\ r.alive => r.refs = 1 /\ r.app = 0 /\ t = "none"
    /\ ~Over => r.alive
Relies(H, T, f) ==
    /\ f.op \in HandleOps => f.gen = H[f.at].gen
    /\ f.op \in OpenOps /\ f.x /= {} =>
         admission /\ \E h \in Slots : f.x = {h} /\ Reserved(H[h], T[h])

(* What the application was told, and still has to be: a stream's close is *)
(* still to come when the session is over, in its commit or the teardown.  *)
TornLater(q, T, h) ==
    terminal /\ T[h] = "given" =>
        \/ M(q, "committed", h) > 0
        \/ \E f \in Waiting(q) : f.op = "streams_teardown" /\ h \in f.x
Telling(q, H, T) ==
    /\ sess = "none" => \A h \in Slots : T[h] = "none" /\ ~H[h].alive
    /\ outcome = "closed" => \A h \in Slots : T[h] /= "given"
    /\ outcome = "failed" \/ N(q, "tell_failed") > 0 =>
         closed \/ \A h \in Slots : T[h] /= "given"

Handles(q, H, T) ==
    /\ q \in Seq(Frame) /\ H \in [Slots -> HandleType] /\ T \in ToldType
    /\ Stacked(admission, q)
    /\ \A h \in Slots : HandleSound(q, H, T, h)
    /\ \A f \in Waiting(q) : Relies(H, T, f)
Books(q, d, H, T) ==
    d \in Int /\ Handles(q, H, T) /\ Counted(q, d, H) /\ Telling(q, H, T)
Accounts(q, d, H, T) ==
    /\ Books(q, d, H, T) /\ Ending(q)
    /\ \A h \in Slots : TornLater(q, T, h)

(* An engine stream in use points to a live handle that points back and    *)
(* was given out.  A live handle without a stream is not given out yet.    *)
Linked ==
    /\ \A e \in Slots : es[e].kind = "WT" /\ es[e].user /= None =>
         LET r == hs[es[e].user] IN
         told[es[e].user] = "given" /\ r.alive /\ r.es = e
    /\ \A h \in Slots : hs[h].alive /\ hs[h].es = None =>
         told[h] = "none" /\ hs[h].app = 0

IInv ==
    /\ Types /\ Accounts(agenda, cbDepth, hs, told) /\ Linked
    /\ commitDepth = N(agenda, "committed")
    /\ freed <=> (refs = 0 /\ cbDepth = 0)
    /\ late = FALSE

-----------------------------------------------------------------------------
(* The stack, call by call.                                                *)

Put(f, q) == <<f>> \o q

(* Putting a call on a stack moves the others down by one place.           *)
LEMMA PutPlaces ==
    ASSUME NEW f \in Frame, NEW q \in Seq(Frame)
    PROVE  /\ Put(f, q) \in Seq(Frame)
           /\ Len(Put(f, q)) = Len(q) + 1
           /\ Put(f, q)[1] = f
           /\ \A i \in 1..Len(q) : Put(f, q)[i + 1] = q[i]
           /\ \A i \in 1..(Len(q) + 1) :
                i /= 1 => i - 1 \in 1..Len(q) /\ Put(f, q)[i] = q[i - 1]
<1>1. <<f>> \in Seq(Frame) /\ Len(<<f>>) = 1 /\ <<f>>[1] = f
  OBVIOUS
<1>2. Len(q) \in Nat
  OBVIOUS
<1>3. /\ <<f>> \o q \in Seq(Frame)
      /\ Len(<<f>> \o q) = 1 + Len(q)
      /\ \A i \in 1..(1 + Len(q)) : (<<f>> \o q)[i] =
            IF i <= 1 THEN <<f>>[i] ELSE q[i - 1]
  BY <1>1, ConcatProperties
<1> QED
  BY <1>1, <1>2, <1>3 DEF Put

(* A stack with calls on it is its head on its tail.                       *)
LEMMA HeadOnTail ==
    ASSUME NEW q \in Seq(Frame), q /= <<>>
    PROVE  /\ Head(q) \in Frame /\ Tail(q) \in Seq(Frame)
           /\ q = Put(Head(q), Tail(q))
<1>1. /\ Head(q) \in Frame /\ Tail(q) \in Seq(Frame)
      /\ Len(Tail(q)) = Len(q) - 1
      /\ \A i \in 1..Len(Tail(q)) : Tail(q)[i] = q[i + 1]
  BY HeadTailProperties
<1>2. Head(q) = q[1] /\ Len(q) \in Nat
  OBVIOUS
<1> PICK f \in Frame, t \in Seq(Frame) : f = Head(q) /\ t = Tail(q)
  BY <1>1
<1>3. /\ Put(f, t) \in Seq(Frame)
      /\ Len(Put(f, t)) = Len(t) + 1
      /\ Put(f, t)[1] = f
      /\ \A i \in 1..(Len(t) + 1) :
           i /= 1 => i - 1 \in 1..Len(t) /\ Put(f, t)[i] = t[i - 1]
  BY PutPlaces, ZenonT(60)
<1>4. \A i \in 1..Len(q) : Put(f, t)[i] = q[i]
  <2> SUFFICES ASSUME NEW i \in 1..Len(q)
               PROVE  Put(f, t)[i] = q[i]
    OBVIOUS
  <2>1. CASE i = 1
    BY <2>1, <1>2, <1>3
  <2>2. CASE i /= 1
    <3>1. i - 1 \in 1..Len(t) /\ Put(f, t)[i] = t[i - 1]
      BY <2>2, <1>1, <1>2, <1>3
    <3>2. t[i - 1] = q[(i - 1) + 1]
      BY <3>1, <1>1
    <3> QED
      BY <3>1, <3>2, <1>2
  <2> QED
    BY <2>1, <2>2
<1>5. q = Put(f, t)
  BY <1>1, <1>2, <1>3, <1>4, SeqEqual
<1> QED
  BY <1>1, <1>5

(* The calls pushed at once are pushed one by one.                         *)
LEMMA PutTwo ==
    ASSUME NEW f \in Frame, NEW g \in Frame, NEW q \in Seq(Frame)
    PROVE  <<f, g>> \o q = Put(f, Put(g, q))
<1>1. <<f, g>> = <<f>> \o <<g>>
  <2>1. /\ <<f>> \o <<g>> \in Seq(Frame) /\ Len(<<f>> \o <<g>>) = 2
        /\ (<<f>> \o <<g>>)[1] = f /\ (<<f>> \o <<g>>)[2] = g
    OBVIOUS
  <2>2. \A i \in 1..2 : (<<f>> \o <<g>>)[i] = <<f, g>>[i]
    BY <2>1
  <2>3. <<f, g>> \in Seq(Frame) /\ Len(<<f, g>>) = 2
    OBVIOUS
  <2> QED
    BY <2>1, <2>2, <2>3, SeqEqual
<1>2. <<f>> \in Seq(Frame) /\ <<g>> \in Seq(Frame)
  OBVIOUS
<1>3. (<<f>> \o <<g>>) \o q = <<f>> \o (<<g>> \o q)
  BY <1>2, ConcatAssociative
<1> QED
  BY <1>1, <1>3 DEF Put

(* Three calls pushed at once.                                             *)
LEMMA PutThree ==
    ASSUME NEW f \in Frame, NEW g \in Frame, NEW k \in Frame,
           NEW q \in Seq(Frame)
    PROVE  <<f, g, k>> \o q = Put(f, Put(g, Put(k, q)))
<1>1. <<f, g, k>> = <<f>> \o <<g, k>>
  OBVIOUS
<1>2. <<f>> \in Seq(Frame) /\ <<g, k>> \in Seq(Frame)
  OBVIOUS
<1>3. (<<f>> \o <<g, k>>) \o q = <<f>> \o (<<g, k>> \o q)
  BY <1>2, ConcatAssociative
<1>4. <<g, k>> \o q = Put(g, Put(k, q))
  BY PutTwo
<1> QED
  BY <1>1, <1>3, <1>4 DEF Put

-----------------------------------------------------------------------------
(* Counting the calls.                                                     *)

Places(q, D) == {i \in 1..Len(q) : q[i] \in D}

(* One more call is one more place.                                        *)
LEMMA PlacesPut ==
    ASSUME NEW f \in Frame, NEW q \in Seq(Frame), NEW D
    PROVE  /\ IsFiniteSet(Places(q, D)) /\ Cardinality(Places(q, D)) \in Nat
           /\ Cardinality(Places(Put(f, q), D))
                = Cardinality(Places(q, D)) + Bit(f \in D)
<1> DEFINE S == Places(q, D)
           T == {i + 1 : i \in S}
           F == [i \in S |-> i + 1]
<1>1. Len(q) \in Nat
  OBVIOUS
<1>2. IsFiniteSet(S) /\ Cardinality(S) \in Nat
  <2>1. IsFiniteSet(1..Len(q))
    BY <1>1, FS_Interval
  <2>2. S \in SUBSET (1..Len(q))
    BY DEF Places
  <2> QED
    BY <2>1, <2>2, FS_Subset, FS_CardinalityType
<1>3. S \subseteq Nat
  BY <1>1 DEF Places
<1>4. ExistsBijection(S, T)
  <2>1. F \in [S -> T]
    OBVIOUS
  <2>2. \A a, b \in S : F[a] = F[b] => a = b
    BY <1>3
  <2>3. \A t \in T : \E i \in S : F[i] = t
    OBVIOUS
  <2> QED
    BY <2>1, <2>2, <2>3, Fun_IsBij DEF ExistsBijection
<1>5. IsFiniteSet(T) /\ Cardinality(T) = Cardinality(S)
  BY <1>2, <1>4, FS_Bijection
<1>6. 1 \notin T
  BY <1>1, <1>3 DEF Places
<1>7. Places(Put(f, q), D) = IF f \in D THEN T \cup {1} ELSE T
  <2>1. /\ Len(Put(f, q)) = Len(q) + 1
        /\ Put(f, q)[1] = f
        /\ \A i \in 1..Len(q) : Put(f, q)[i + 1] = q[i]
        /\ \A i \in 1..(Len(q) + 1) :
             i /= 1 => i - 1 \in 1..Len(q) /\ Put(f, q)[i] = q[i - 1]
    BY PutPlaces
  <2> HIDE DEF Put
  <2>2. ASSUME NEW i \in Places(Put(f, q), D), i /= 1
        PROVE  i \in T
    <3>1. i - 1 \in S
      BY <1>1, <2>1, <2>2 DEF Places
    <3>2. i = (i - 1) + 1
      BY <1>1, <2>1, <2>2 DEF Places
    <3> QED
      BY <3>1, <3>2
  <2>3. ASSUME NEW i \in S
        PROVE  i + 1 \in Places(Put(f, q), D)
    BY <1>1, <2>1 DEF Places
  <2>4. 1 \in Places(Put(f, q), D) <=> f \in D
    BY <1>1, <2>1 DEF Places
  <2> QED
    BY <2>2, <2>3, <2>4, <1>6
<1>8. Cardinality(T \cup {1}) = Cardinality(T) + 1
  BY <1>5, <1>6, FS_AddElement
<1> QED
  BY <1>2, <1>5, <1>7, <1>8 DEF Bit

(* What a call more does to the counts.                                    *)
LEMMA PutCounts ==
    ASSUME NEW f \in Frame, NEW q \in Seq(Frame), NEW op
    PROVE  /\ N(Put(f, q), op) = N(q, op) + Bit(f.op = op)
           /\ \A h : M(Put(f, q), op, h)
                       = M(q, op, h) + Bit(f.op = op /\ f.at = h)
<1>1. Put(f, q) \in Seq(Frame)
  BY PutPlaces
<1> SUFFICES ASSUME NEW h
             PROVE  /\ N(Put(f, q), op) = N(q, op) + Bit(f.op = op)
                    /\ M(Put(f, q), op, h)
                         = M(q, op, h) + Bit(f.op = op /\ f.at = h)
  OBVIOUS
<1>2. ASSUME NEW D
      PROVE  Cardinality(Places(Put(f, q), D))
               = Cardinality(Places(q, D)) + Bit(f \in D)
  BY PlacesPut
<1> DEFINE D == {k \in Frame : k.op = op}
           E == {k \in Frame : k.op = op /\ k.at = h}
<1>3. ASSUME NEW r \in Seq(Frame)
      PROVE  /\ N(r, op) = Cardinality(Places(r, D))
             /\ M(r, op, h) = Cardinality(Places(r, E))
  <2>1. \A i \in 1..Len(r) : r[i] \in Frame
    OBVIOUS
  <2>2. {i \in 1..Len(r) : r[i].op = op} = Places(r, D)
    BY <2>1 DEF Places
  <2>3. {i \in 1..Len(r) : r[i].op = op /\ r[i].at = h} = Places(r, E)
    BY <2>1 DEF Places
  <2> HIDE DEF D, E
  <2> QED
    BY <2>2, <2>3 DEF N, M
<1>4. (f \in D <=> f.op = op) /\ (f \in E <=> f.op = op /\ f.at = h)
  OBVIOUS
<1> HIDE DEF D, E
<1> QED
  BY <1>1, <1>2, <1>3, <1>4 DEF Bit

(* A count is the number of the calls there are.                           *)
LEMMA CountRange ==
    ASSUME NEW q \in Seq(Frame), NEW op
    PROVE  /\ N(q, op) \in Nat
           /\ N(q, op) > 0 <=> \E f \in Waiting(q) : f.op = op
           /\ \A h : /\ M(q, op, h) \in Nat /\ M(q, op, h) <= N(q, op)
                     /\ M(q, op, h) > 0 <=>
                          \E f \in Waiting(q) : f.op = op /\ f.at = h
<1> SUFFICES ASSUME NEW h
             PROVE  /\ N(q, op) \in Nat
                    /\ N(q, op) > 0 <=> \E f \in Waiting(q) : f.op = op
                    /\ M(q, op, h) \in Nat /\ M(q, op, h) <= N(q, op)
                    /\ M(q, op, h) > 0 <=>
                         \E f \in Waiting(q) : f.op = op /\ f.at = h
  OBVIOUS
<1> DEFINE S == {i \in 1..Len(q) : q[i].op = op}
           T == {i \in 1..Len(q) : q[i].op = op /\ q[i].at = h}
<1>1. IsFiniteSet(1..Len(q))
  <2>1. Len(q) \in Nat
    OBVIOUS
  <2> QED
    BY <2>1, FS_Interval
<1>2. S \in SUBSET (1..Len(q)) /\ T \in SUBSET S
  OBVIOUS
<1>3. IsFiniteSet(S) /\ IsFiniteSet(T) /\ Cardinality(T) <= Cardinality(S)
  BY <1>1, <1>2, FS_Subset
<1>4. /\ Cardinality(S) \in Nat /\ Cardinality(T) \in Nat
      /\ Cardinality(S) = 0 <=> S = {}
      /\ Cardinality(T) = 0 <=> T = {}
  BY <1>3, FS_CardinalityType, FS_EmptySet
<1>5. S /= {} <=> \E f \in Waiting(q) : f.op = op
  BY DEF Waiting
<1>6. T /= {} <=> \E f \in Waiting(q) : f.op = op /\ f.at = h
  BY DEF Waiting
<1>7. N(q, op) = Cardinality(S) /\ M(q, op, h) = Cardinality(T)
  BY DEF N, M
<1> HIDE DEF S, T
<1> QED
  BY <1>3, <1>4, <1>5, <1>6, <1>7

(* Nothing waits on an empty stack.                                        *)
LEMMA EmptyStack ==
    ASSUME NEW op, NEW h
    PROVE  /\ <<>> \in Seq(Frame) /\ Waiting(<<>>) = {}
           /\ N(<<>>, op) = 0 /\ M(<<>>, op, h) = 0
<1>1. <<>> \in Seq(Frame) /\ Waiting(<<>>) = {}
  BY DEF Waiting
<1>2. /\ N(<<>>, op) \in Nat /\ M(<<>>, op, h) \in Nat
      /\ M(<<>>, op, h) <= N(<<>>, op)
      /\ N(<<>>, op) > 0 <=> \E f \in Waiting(<<>>) : f.op = op
  BY <1>1, CountRange
<1>3. ~(N(<<>>, op) > 0)
  BY <1>1, <1>2
<1> QED
  BY <1>1, <1>2, <1>3

(* Which calls wait on a stack with one call more.                         *)
LEMMA PutWaiting ==
    ASSUME NEW f \in Frame, NEW q \in Seq(Frame)
    PROVE  /\ Waiting(Put(f, q)) = {f} \cup Waiting(q)
           /\ Put(f, q) /= <<>> /\ Put(f, q) \in Seq(Frame)
           /\ Waiting(q) \subseteq Frame
<1>1. /\ Put(f, q) \in Seq(Frame)
      /\ Len(Put(f, q)) = Len(q) + 1
      /\ Put(f, q)[1] = f
      /\ \A i \in 1..Len(q) : Put(f, q)[i + 1] = q[i]
      /\ \A i \in 1..(Len(q) + 1) :
           i /= 1 => i - 1 \in 1..Len(q) /\ Put(f, q)[i] = q[i - 1]
  BY PutPlaces
<1>2. Len(q) \in Nat /\ Waiting(q) \subseteq Frame
  BY DEF Waiting
<1> HIDE DEF Put
<1>3. ASSUME NEW g \in Waiting(Put(f, q)) PROVE g \in {f} \cup Waiting(q)
  <2>1. PICK i \in 1..(Len(q) + 1) : g = Put(f, q)[i]
    BY <1>1 DEF Waiting
  <2>2. CASE i = 1
    BY <2>1, <2>2, <1>1
  <2>3. CASE i /= 1
    BY <2>1, <2>3, <1>1 DEF Waiting
  <2> QED
    BY <2>2, <2>3
<1>4. f \in Waiting(Put(f, q))
  BY <1>1, <1>2 DEF Waiting
<1>5. ASSUME NEW g \in Waiting(q) PROVE g \in Waiting(Put(f, q))
  <2>1. PICK i \in 1..Len(q) : g = q[i]
    BY DEF Waiting
  <2>2. i + 1 \in 1..Len(Put(f, q)) /\ Put(f, q)[i + 1] = g
    BY <2>1, <1>1, <1>2
  <2> QED
    BY <2>2 DEF Waiting
<1>6. Put(f, q) /= <<>>
  BY <1>1, <1>2
<1> QED
  BY <1>1, <1>2, <1>3, <1>4, <1>5, <1>6

(* Whether a stack with one call more is in order.                         *)
LEMMA PutStacked ==
    ASSUME NEW m, NEW f \in Frame, NEW q \in Seq(Frame)
    PROVE  Stacked(m, Put(f, q)) <=>
             /\ Stacked(m, q)
             /\ \A g \in Waiting(q) : Above(m, f, g)
             /\ f.op = "settle" => \E g \in Waiting(q) : Holder(f, g)
             /\ q = <<>> => f.op \in BracketOps
<1>1. /\ Put(f, q) \in Seq(Frame)
      /\ Len(Put(f, q)) = Len(q) + 1
      /\ Put(f, q)[1] = f
      /\ \A i \in 1..Len(q) : Put(f, q)[i + 1] = q[i]
      /\ \A i \in 1..(Len(q) + 1) :
           i /= 1 => i - 1 \in 1..Len(q) /\ Put(f, q)[i] = q[i - 1]
  BY PutPlaces
<1>2. Len(q) \in Nat /\ (q = <<>> <=> Len(q) = 0)
  BY EmptySeq
<1>3. Put(f, q) /= <<>>
  BY PutWaiting
<1> PICK p \in Seq(Frame) : p = Put(f, q)
  BY <1>1
<1>4. /\ Len(p) = Len(q) + 1 /\ p[1] = f
      /\ \A i \in 1..Len(q) : p[i + 1] = q[i]
      /\ \A i \in 1..(Len(q) + 1) :
           i /= 1 => i - 1 \in 1..Len(q) /\ p[i] = q[i - 1]
  BY <1>1
<1>5. ASSUME Stacked(m, p)
      PROVE  /\ Stacked(m, q)
             /\ \A g \in Waiting(q) : Above(m, f, g)
             /\ f.op = "settle" => \E g \in Waiting(q) : Holder(f, g)
             /\ q = <<>> => f.op \in BracketOps
  <2>1. ASSUME NEW i \in 1..Len(q), NEW j \in 1..Len(q), i < j
        PROVE  Above(m, q[i], q[j])
    <3>1. i + 1 \in 1..Len(p) /\ j + 1 \in 1..Len(p) /\ i + 1 < j + 1
      BY <2>1, <1>2, <1>4
    <3> QED
      BY <3>1, <1>4, <1>5 DEF Stacked
  <2>2. ASSUME NEW i \in 1..Len(q), q[i].op = "settle"
        PROVE  \E j \in 1..Len(q) : i < j /\ Holder(q[i], q[j])
    <3>1. i + 1 \in 1..Len(p) /\ p[i + 1].op = "settle"
      BY <2>2, <1>2, <1>4
    <3>2. PICK j \in 1..Len(p) : i + 1 < j /\ Holder(p[i + 1], p[j])
      BY <3>1, <1>5 DEF Stacked
    <3>3. j /= 1 /\ j - 1 \in 1..Len(q) /\ p[j] = q[j - 1] /\ i < j - 1
      BY <3>2, <1>2, <1>4
    <3> QED
      BY <3>2, <3>3, <1>4
  <2>3. q /= <<>> => q[Len(q)].op \in BracketOps
    <3>1. p[Len(p)].op \in BracketOps
      BY <1>3, <1>5 DEF Stacked
    <3>2. q /= <<>> => p[Len(p)] = q[Len(q)]
      BY <1>2, <1>4
    <3> QED
      BY <3>1, <3>2
  <2>4. ASSUME NEW g \in Waiting(q) PROVE Above(m, f, g)
    <3>1. PICK j \in 1..Len(q) : g = q[j]
      BY DEF Waiting
    <3>2. j + 1 \in 1..Len(p) /\ 1 \in 1..Len(p) /\ 1 < j + 1
      BY <1>2, <1>4
    <3> QED
      BY <3>1, <3>2, <1>4, <1>5 DEF Stacked
  <2>5. ASSUME f.op = "settle" PROVE \E g \in Waiting(q) : Holder(f, g)
    <3>1. 1 \in 1..Len(p) /\ p[1].op = "settle"
      BY <2>5, <1>2, <1>4
    <3>2. PICK j \in 1..Len(p) : 1 < j /\ Holder(p[1], p[j])
      BY <3>1, <1>5 DEF Stacked
    <3>3. j - 1 \in 1..Len(q) /\ p[j] = q[j - 1]
      BY <3>2, <1>2, <1>4
    <3> QED
      BY <3>2, <3>3, <1>4 DEF Waiting
  <2>6. q = <<>> => f.op \in BracketOps
    <3>1. p[Len(p)].op \in BracketOps
      BY <1>3, <1>5 DEF Stacked
    <3> QED
      BY <3>1, <1>2, <1>4
  <2> QED
    BY <2>1, <2>2, <2>3, <2>4, <2>5, <2>6 DEF Stacked
<1>6. ASSUME /\ Stacked(m, q)
             /\ \A g \in Waiting(q) : Above(m, f, g)
             /\ f.op = "settle" => \E g \in Waiting(q) : Holder(f, g)
             /\ q = <<>> => f.op \in BracketOps
      PROVE  Stacked(m, p)
  <2>1. ASSUME NEW i \in 1..Len(p), NEW j \in 1..Len(p), i < j
        PROVE  Above(m, p[i], p[j])
    <3>1. j - 1 \in 1..Len(q) /\ p[j] = q[j - 1]
      BY <2>1, <1>2, <1>4
    <3>2. CASE i = 1
      <4>1. p[j] \in Waiting(q)
        BY <3>1 DEF Waiting
      <4> QED
        BY <4>1, <3>2, <1>4, <1>6
    <3>3. CASE i /= 1
      <4>1. i - 1 \in 1..Len(q) /\ p[i] = q[i - 1] /\ i - 1 < j - 1
        BY <2>1, <3>3, <1>2, <1>4
      <4> QED
        BY <4>1, <3>1, <1>6 DEF Stacked
    <3> QED
      BY <3>2, <3>3
  <2>2. ASSUME NEW i \in 1..Len(p), p[i].op = "settle"
        PROVE  \E j \in 1..Len(p) : i < j /\ Holder(p[i], p[j])
    <3>1. CASE i = 1
      <4>1. PICK g \in Waiting(q) : Holder(p[i], g)
        BY <2>2, <3>1, <1>4, <1>6
      <4>2. PICK j \in 1..Len(q) : g = q[j]
        BY DEF Waiting
      <4>3. j + 1 \in 1..Len(p) /\ i < j + 1 /\ p[j + 1] = g
        BY <4>2, <3>1, <1>2, <1>4
      <4> QED
        BY <4>1, <4>3
    <3>2. CASE i /= 1
      <4>1. i - 1 \in 1..Len(q) /\ p[i] = q[i - 1]
        BY <2>2, <3>2, <1>2, <1>4
      <4>2. PICK j \in 1..Len(q) : i - 1 < j /\ Holder(q[i - 1], q[j])
        BY <4>1, <2>2, <1>6 DEF Stacked
      <4>3. j + 1 \in 1..Len(p) /\ i < j + 1 /\ p[j + 1] = q[j]
        BY <4>2, <2>2, <1>2, <1>4
      <4> QED
        BY <4>1, <4>2, <4>3
    <3> QED
      BY <3>1, <3>2
  <2>3. p[Len(p)].op \in BracketOps
    <3>1. CASE q = <<>>
      BY <3>1, <1>2, <1>4, <1>6
    <3>2. CASE q /= <<>>
      <4>1. p[Len(p)] = q[Len(q)]
        BY <3>2, <1>2, <1>4
      <4> QED
        BY <4>1, <3>2, <1>6 DEF Stacked
    <3> QED
      BY <3>1, <3>2
  <2> QED
    BY <2>1, <2>2, <2>3 DEF Stacked
<1> QED
  BY <1>5, <1>6

(* The least of a set of numbers is one of them.                           *)
LEMMA FirstIn ==
    ASSUME NEW S, S \subseteq Slots, S /= {}
    PROVE  First(S) \in S
<1>1. S \subseteq Nat
  BY ApiAssumption DEF ApiAssumption
<1>2. PICK i \in S : \A j \in S : <<j, i>> \notin OpToRel(<, Nat)
  BY <1>1, NatLessThanWellFounded, WFMin
<1>3. \A j \in S : ~(j < i)
  BY <1>1, <1>2, Zenon DEF OpToRel
<1>4. \A j \in S : i <= j
  BY <1>1, <1>3
<1> QED
  BY <1>4 DEF First

(* The same facts at once, of every kind of call and every handle.         *)
LEMMA PutFacts ==
    ASSUME NEW f \in Frame, NEW q \in Seq(Frame)
    PROVE  /\ \A op : N(Put(f, q), op) = N(q, op) + Bit(f.op = op)
           /\ \A op : N(q, op) \in Nat
           /\ \A op, h : M(Put(f, q), op, h)
                             = M(q, op, h) + Bit(f.op = op /\ f.at = h)
           /\ \A op, h : M(q, op, h) \in Nat
           /\ \A op, h : M(q, op, h) <= N(q, op)
           /\ Waiting(Put(f, q)) = {f} \cup Waiting(q)
           /\ Put(f, q) \in Seq(Frame) /\ Put(f, q) /= <<>>
<1>1. ASSUME NEW op
      PROVE  N(Put(f, q), op) = N(q, op) + Bit(f.op = op) /\ N(q, op) \in Nat
  BY PutCounts, CountRange
<1>2. ASSUME NEW op, NEW h
      PROVE  /\ M(Put(f, q), op, h) = M(q, op, h) + Bit(f.op = op /\ f.at = h)
             /\ M(q, op, h) \in Nat /\ M(q, op, h) <= N(q, op)
  BY PutCounts, CountRange
<1>3. /\ Waiting(Put(f, q)) = {f} \cup Waiting(q)
      /\ Put(f, q) \in Seq(Frame) /\ Put(f, q) /= <<>>
  BY PutWaiting
<1> HIDE DEF Put
<1>4. /\ \A op : N(Put(f, q), op) = N(q, op) + Bit(f.op = op)
      /\ \A op : N(q, op) \in Nat
  BY <1>1
<1>5. /\ \A op, h : M(Put(f, q), op, h)
                        = M(q, op, h) + Bit(f.op = op /\ f.at = h)
      /\ \A op, h : M(q, op, h) \in Nat
      /\ \A op, h : M(q, op, h) <= N(q, op)
  BY <1>2
<1> QED
  BY <1>3, <1>4, <1>5

(* The open brackets are those of the calls.                               *)
LEMMA PutBrackets ==
    ASSUME NEW f \in Frame, NEW q \in Seq(Frame)
    PROVE  /\ f.op \in BracketOps => Brackets(Put(f, q)) = Brackets(q) + 1
           /\ f.op \notin BracketOps => Brackets(Put(f, q)) = Brackets(q)
           /\ Brackets(q) \in Nat /\ Brackets(<<>>) = 0
<1>1. Put(f, q) \in Seq(Frame) /\ <<>> \in Seq(Frame)
  BY PutPlaces
<1> DEFINE D == {k \in Frame : k.op \in BracketOps}
<1>2. /\ Cardinality(Places(q, D)) \in Nat
      /\ Cardinality(Places(Put(f, q), D))
           = Cardinality(Places(q, D)) + Bit(f \in D)
  BY PlacesPut
<1>3. ASSUME NEW r \in Seq(Frame)
      PROVE  Brackets(r) = Cardinality(Places(r, D))
  <2>1. \A i \in 1..Len(r) : r[i] \in Frame
    OBVIOUS
  <2>2. {i \in 1..Len(r) : r[i].op \in BracketOps} = Places(r, D)
    BY <2>1 DEF Places
  <2> HIDE DEF D
  <2> QED
    BY <2>2 DEF Brackets
<1>4. Cardinality(Places(<<>>, D)) = 0
  <2>1. Places(<<>>, D) = {}
    BY DEF Places
  <2> QED
    BY <2>1, FS_EmptySet
<1>5. f \in D <=> f.op \in BracketOps
  OBVIOUS
<1> HIDE DEF D
<1>6. /\ Brackets(q) = Cardinality(Places(q, D))
      /\ Brackets(Put(f, q)) = Cardinality(Places(Put(f, q), D))
      /\ Brackets(<<>>) = Cardinality(Places(<<>>, D))
  BY <1>1, <1>3
<1> QED
  BY <1>2, <1>4, <1>5, <1>6 DEF Bit

-----------------------------------------------------------------------------
(* One change at a time.                                                   *)

(* All of it but how the session ends, when another call may come: behind  *)
(* session_open without a reserved handle none may.                        *)
Ready(q, d, H, T) ==
    /\ Books(q, d, H, T)
    /\ \A h \in Slots : TornLater(q, T, h)
    /\ N(q, "open_rest") > 0 => admission
Calm(q, d, H, T) == Ready(q, d, H, T) /\ Ending(q)

(* The calls that nothing is counted for.                                  *)
NeutralOps == {"app", "engine", "engine_torn", "resume", "engine_teardown",
               "session_closed"}

(* Such a call may come and go.  A connection error may come.              *)
LEMMA NeutralCall ==
    ASSUME NEW q \in Seq(Frame), NEW d, NEW H, NEW T, NEW f \in Frame
    PROVE  /\ f.op \in NeutralOps /\ Accounts(Put(f, q), d, H, T)
                => Calm(q, d, H, T) /\ q /= <<>>
           /\ f.op \in NeutralOps \cup {"conn_fatal"} =>
                /\ q /= <<>> /\ Ready(q, d, H, T) => Ready(Put(f, q), d, H, T)
                /\ Ending(q) => Ending(Put(f, q))
<1>1. /\ \A op : N(Put(f, q), op) = N(q, op) + Bit(f.op = op)
      /\ \A op : N(q, op) \in Nat
      /\ \A op, h : M(Put(f, q), op, h)
                        = M(q, op, h) + Bit(f.op = op /\ f.at = h)
      /\ \A op, h : M(q, op, h) \in Nat
  BY PutFacts
<1>2. /\ Waiting(Put(f, q)) = {f} \cup Waiting(q)
      /\ Put(f, q) \in Seq(Frame)
  BY PutFacts
<1>3. Stacked(admission, Put(f, q)) <=>
             /\ Stacked(admission, q)
             /\ \A g \in Waiting(q) : Above(admission, f, g)
             /\ f.op = "settle" => \E g \in Waiting(q) : Holder(f, g)
             /\ q = <<>> => f.op \in BracketOps
  BY PutStacked
<1> HIDE DEF Put
<1> SUFFICES ASSUME f.op \in NeutralOps \cup {"conn_fatal"}
             PROVE  /\ f.op \in NeutralOps /\ Accounts(Put(f, q), d, H, T)
                         => Calm(q, d, H, T) /\ q /= <<>>
                    /\ q /= <<>> /\ Ready(q, d, H, T)
                         => Ready(Put(f, q), d, H, T)
                    /\ Ending(q) => Ending(Put(f, q))
  OBVIOUS
<1>4. /\ f.op \notin BracketOps /\ f.op \notin HandleOps
      /\ f.op \notin OpenOps /\ f.op \notin Tells
      /\ f.op \notin {"on_session_closed", "on_conn_error", "session_failed",
                      "streams_teardown", "backend_release", "settle"}
  BY DEF NeutralOps, BracketOps, HandleOps, OpenOps, Tells
<1>5. Counted(Put(f, q), d, H) <=> Counted(q, d, H)
  <2>1. Brackets(Put(f, q)) = Brackets(q)
    BY <1>4, PutBrackets
  <2>2. N(Put(f, q), "service") = N(q, "service")
    BY <1>1, <1>4 DEF BracketOps, Bit
  <2> QED
    BY <2>1, <2>2 DEF Counted
<1>6. /\ f.op \in NeutralOps => (Ending(Put(f, q)) <=> Ending(q))
      /\ Ending(q) => Ending(Put(f, q))
  <2>1. /\ N(Put(f, q), "on_session_closed") = N(q, "on_session_closed")
        /\ N(Put(f, q), "on_conn_error") = N(q, "on_conn_error")
        /\ N(Put(f, q), "session_failed") = N(q, "session_failed")
        /\ N(Put(f, q), "streams_teardown") = N(q, "streams_teardown")
        /\ N(Put(f, q), "tell_closed") = N(q, "tell_closed")
        /\ N(Put(f, q), "tell_failed") = N(q, "tell_failed")
        /\ N(Put(f, q), "committed") = N(q, "committed")
        /\ N(Put(f, q), "commit_end") = N(q, "commit_end")
        /\ N(Put(f, q), "backend_release") = N(q, "backend_release")
        /\ N(Put(f, q), "open_rest") = N(q, "open_rest")
    BY <1>1, <1>4 DEF BracketOps, OpenOps, Tells, Bit
  <2>2. /\ N(q, "conn_fatal") > 0 => N(Put(f, q), "conn_fatal") > 0
        /\ f.op \in NeutralOps =>
             N(Put(f, q), "conn_fatal") = N(q, "conn_fatal")
    BY <1>1 DEF Bit, NeutralOps
  <2> QED
    BY <2>1, <2>2 DEF Ending
<1>7. \A h : HandleSound(Put(f, q), H, T, h) <=> HandleSound(q, H, T, h)
  BY <1>1, <1>4 DEF HandleSound, Holds, HandleOps, Bit
<1>8. Relies(H, T, f)
  BY <1>4 DEF Relies
<1>9. /\ Telling(Put(f, q), H, T) <=> Telling(q, H, T)
      /\ \A h : TornLater(Put(f, q), T, h) <=> TornLater(q, T, h)
  <2>1. \A h : TornLater(Put(f, q), T, h) <=> TornLater(q, T, h)
    BY <1>1, <1>2, <1>4 DEF TornLater, BracketOps, Bit
  <2> QED
    BY <2>1, <1>1, <1>4 DEF Telling, Tells, Bit
<1>10. \A g \in Waiting(q) : Above(admission, f, g) <=>
           (g.op = "open_rest" => admission)
  BY <1>4 DEF Above
<1>11. (N(q, "open_rest") > 0 => admission)
         <=> \A g \in Waiting(q) : g.op = "open_rest" => admission
  BY CountRange
<1>12. N(Put(f, q), "open_rest") = N(q, "open_rest")
  BY <1>1, <1>4 DEF OpenOps, Bit
<1> QED
  BY <1>2, <1>3, <1>4, <1>5, <1>6, <1>7, <1>8, <1>9, <1>10, <1>11, <1>12
     DEF Accounts, Books, Handles, Calm, Ready

(* What may become of a handle of which a call waits: r and t are its      *)
(* record and its history behind the step.                                 *)
StillReserved(H, T, h, r, t) == Reserved(H[h], T[h]) => Reserved(r, t)
NoneFor(q, h) ==
    \A g \in Waiting(q) : ~(g.op \in HandleOps /\ g.at = h)
NoneOpens(q, h) ==
    \A g \in Waiting(q) : g.op \in OpenOps => h \notin g.x
StillTold(T, h, r, t) ==
    /\ t \in {"none", "given", "closed", "unasked"}
    /\ t = "given" => T[h] = "given"
    /\ sess = "none" => t = "none" /\ ~r.alive

(* A call comes, for handle h or for none, and h changes with it.          *)
LEMMA Push ==
    ASSUME NEW q, NEW d, NEW H, NEW T, Ready(q, d, H, T),
           NEW h \in Slots, NEW r \in HandleType, NEW t, NEW f \in Frame,
           r.app = H[h].app, r.gen = H[h].gen,
           StillReserved(H, T, h, r, t) \/ NoneOpens(q, h),
           StillTold(T, h, r, t),
           f.op \in HandleOps \cup NeutralOps \cup {"exit"},
           f.op \in HandleOps => f.at = h /\ f.gen = H[h].gen,
           f.op = "settle" => \E g \in Waiting(q) : Holder(f, g),
           q = <<>> => f.op \in BracketOps,
           Sound(r.refs, r.app, r.alive, t,
                 M(q, "committed", h) + Bit(f.op = "committed"),
                 M(q, "slot_release", h) + Bit(f.op = "slot_release"),
                 Holds(q, h) + Bit(f.op \in {"drop", "commit_end"}))
    PROVE  /\ Ready(Put(f, q), d + Bit(f.op \in BracketOps),
                    [H EXCEPT ![h] = r], [T EXCEPT ![h] = t])
           /\ Ending(q) => Ending(Put(f, q))
<1> DEFINE H2 == [H EXCEPT ![h] = r]
           T2 == [T EXCEPT ![h] = t]
<1>0. /\ q \in Seq(Frame) /\ d \in Int /\ H \in [Slots -> HandleType]
      /\ T \in ToldType /\ Stacked(admission, q) /\ Counted(q, d, H)
      /\ \A k \in Slots : HandleSound(q, H, T, k)
      /\ \A g \in Waiting(q) : Relies(H, T, g)
      /\ Telling(q, H, T)
      /\ \A k \in Slots : TornLater(q, T, k)
      /\ N(q, "open_rest") > 0 => admission
  BY DEF Ready, Books, Handles
<1>1. /\ \A op : N(Put(f, q), op) = N(q, op) + Bit(f.op = op)
      /\ \A op : N(q, op) \in Nat
      /\ \A op, k : M(Put(f, q), op, k)
                        = M(q, op, k) + Bit(f.op = op /\ f.at = k)
      /\ \A op, k : M(q, op, k) \in Nat
      /\ Waiting(Put(f, q)) = {f} \cup Waiting(q)
      /\ Put(f, q) \in Seq(Frame)
  BY <1>0, PutFacts
<1>2. Stacked(admission, Put(f, q)) <=>
             /\ Stacked(admission, q)
             /\ \A g \in Waiting(q) : Above(admission, f, g)
             /\ f.op = "settle" => \E g \in Waiting(q) : Holder(f, g)
             /\ q = <<>> => f.op \in BracketOps
  BY <1>0, PutStacked
<1>3. \A g \in Waiting(q) : g.op = "open_rest" => admission
  BY <1>0, CountRange
<1> HIDE DEF Put
<1>4. /\ f.op \notin OpenOps /\ f.op \notin Tells
      /\ f.op \notin {"on_session_closed", "on_conn_error", "session_failed",
                      "streams_teardown", "backend_release", "service",
                      "conn_fatal"}
      /\ f.op \notin HandleOps => f.op \notin {"committed", "slot_release",
                                               "drop", "commit_end"}
  BY DEF NeutralOps, HandleOps, OpenOps, Tells
<1>5. Stacked(admission, Put(f, q))
  BY <1>0, <1>2, <1>3, <1>4 DEF Above
<1>6. /\ H2 \in [Slots -> HandleType] /\ H2[h] = r
      /\ \A k \in Slots : k /= h => H2[k] = H[k]
      /\ T2 \in ToldType /\ T2[h] = t
      /\ \A k \in Slots : k /= h => T2[k] = T[k]
      /\ Tokens(H2) = Tokens(H)
  <2>1. /\ H2 \in [Slots -> HandleType] /\ H2[h] = r
        /\ \A k \in Slots : k /= h => H2[k] = H[k]
    BY <1>0
  <2>2. /\ T2 \in ToldType /\ T2[h] = t
        /\ \A k \in Slots : k /= h => T2[k] = T[k]
    BY <1>0 DEF ToldType, StillTold
  <2>3. \A k \in Slots : H2[k].app = H[k].app
    BY <2>1
  <2>4. Tokens(H2) = Tokens(H)
    BY <2>3 DEF Tokens
  <2> HIDE DEF H2, T2
  <2> QED
    BY <2>1, <2>2, <2>4
<1> HIDE DEF H2, T2
<1>7. Counted(Put(f, q), d + Bit(f.op \in BracketOps), H2)
  <2>1. Brackets(Put(f, q)) = Brackets(q) + Bit(f.op \in BracketOps)
    BY <1>0, PutBrackets DEF Bit
  <2>2. N(Put(f, q), "service") = N(q, "service")
    BY <1>1, <1>4 DEF Bit
  <2> QED
    BY <1>0, <1>6, <2>1, <2>2 DEF Counted
<1>8. ASSUME NEW k \in Slots PROVE HandleSound(Put(f, q), H2, T2, k)
  <2>1. CASE k /= h
    <3>1. \A op \in {"committed", "slot_release", "drop", "commit_end"} :
             M(Put(f, q), op, k) = M(q, op, k)
      BY <2>1, <1>1, <1>4 DEF Bit
    <3>2. HandleSound(q, H, T, k) /\ H2[k] = H[k] /\ T2[k] = T[k]
      BY <2>1, <1>0, <1>6
    <3> QED
      BY <3>1, <3>2 DEF HandleSound, Holds
  <2>2. CASE k = h
    <3>1. /\ M(Put(f, q), "committed", k)
               = M(q, "committed", h) + Bit(f.op = "committed")
          /\ M(Put(f, q), "slot_release", k)
               = M(q, "slot_release", h) + Bit(f.op = "slot_release")
          /\ Holds(Put(f, q), k)
               = Holds(q, h) + Bit(f.op \in {"drop", "commit_end"})
      BY <2>2, <1>1, <1>4 DEF Bit, HandleOps, Holds
    <3> QED
      BY <3>1, <2>2, <1>6 DEF HandleSound
  <2> QED
    BY <2>1, <2>2
<1>9. ASSUME NEW g \in Waiting(Put(f, q)) PROVE Relies(H2, T2, g)
  <2>1. CASE g = f
    BY <2>1, <1>4, <1>6 DEF Relies
  <2>2. CASE g \in Waiting(q)
    <3>1. Relies(H, T, g)
      BY <2>2, <1>0
    <3>2. g \in Frame
      BY <2>2, <1>0, PutWaiting
    <3>3. ASSUME g.op \in HandleOps PROVE g.gen = H2[g.at].gen
      <4>1. g.at \in Slots /\ g.gen = H[g.at].gen
        BY <3>1, <3>2, <3>3 DEF Relies, Frame
      <4> QED
        BY <4>1, <1>6
    <3>4. ASSUME g.op \in OpenOps, g.x /= {}
          PROVE  admission /\ \E k \in Slots :
                                g.x = {k} /\ Reserved(H2[k], T2[k])
      <4>1. admission
        BY <3>1, <3>4 DEF Relies
      <4>2. PICK k \in Slots : g.x = {k} /\ Reserved(H[k], T[k])
        BY <3>1, <3>4 DEF Relies
      <4>3. Reserved(H2[k], T2[k])
        BY <4>2, <2>2, <3>4, <1>6 DEF StillReserved, NoneOpens
      <4> QED
        BY <4>1, <4>2, <4>3
    <3> QED
      BY <3>3, <3>4 DEF Relies
  <2> QED
    BY <2>1, <2>2, <1>1
<1>10. \A k \in Slots : T2[k] = "given" => T[k] = "given"
  BY <1>6 DEF StillTold
<1>11. Telling(Put(f, q), H2, T2)
  <2>1. N(Put(f, q), "tell_failed") = N(q, "tell_failed")
    BY <1>1, <1>4 DEF Bit, Tells
  <2>2. sess = "none" => \A k \in Slots : T2[k] = "none" /\ ~H2[k].alive
    BY <1>0, <1>6 DEF Telling, StillTold
  <2> QED
    BY <1>0, <1>10, <2>1, <2>2 DEF Telling
<1>12. Ending(q) => Ending(Put(f, q))
  <2>1. /\ N(Put(f, q), "on_session_closed") = N(q, "on_session_closed")
        /\ N(Put(f, q), "on_conn_error") = N(q, "on_conn_error")
        /\ N(Put(f, q), "session_failed") = N(q, "session_failed")
        /\ N(Put(f, q), "streams_teardown") = N(q, "streams_teardown")
        /\ N(Put(f, q), "tell_closed") = N(q, "tell_closed")
        /\ N(Put(f, q), "tell_failed") = N(q, "tell_failed")
        /\ N(Put(f, q), "backend_release") = N(q, "backend_release")
        /\ N(Put(f, q), "open_rest") = N(q, "open_rest")
        /\ N(Put(f, q), "conn_fatal") = N(q, "conn_fatal")
    BY <1>1, <1>4 DEF OpenOps, Tells, Bit
  <2>2. /\ N(Put(f, q), "committed") >= N(q, "committed")
        /\ N(Put(f, q), "commit_end") >= N(q, "commit_end")
        /\ N(q, "committed") \in Nat /\ N(q, "commit_end") \in Nat
        /\ N(Put(f, q), "committed") \in Nat
        /\ N(Put(f, q), "commit_end") \in Nat
    BY <1>1 DEF Bit
  <2> QED
    BY <2>1, <2>2 DEF Ending
<1>13. ASSUME NEW k \in Slots PROVE TornLater(Put(f, q), T2, k)
  <2>1. M(q, "committed", k) > 0 => M(Put(f, q), "committed", k) > 0
    BY <1>1 DEF Bit
  <2> QED
    BY <2>1, <1>0, <1>1, <1>10 DEF TornLater
<1>14. N(Put(f, q), "open_rest") > 0 => admission
  BY <1>0, <1>1, <1>4 DEF Bit, OpenOps
<1>15. d + Bit(f.op \in BracketOps) \in Int
  BY <1>0 DEF Bit
<1> QED
  <2>1. Ready(Put(f, q), d + Bit(f.op \in BracketOps), H2, T2)
    BY <1>1, <1>5, <1>6, <1>7, <1>8, <1>9, <1>11, <1>13, <1>14, <1>15
       DEF Ready, Books, Handles
  <2> QED
    BY <2>1, <1>12 DEF H2, T2

(* A handle that is given out while the session is not over, or that was   *)
(* told of before.                                                         *)
MayTell(T, h, r, t) ==
    /\ t \in {"none", "given", "closed", "unasked"}
    /\ t = "given" => T[h] = "given" \/ (~Over /\ sess /= "none")
    /\ sess = "none" => t = "none" /\ ~r.alive

StillCommits(q, f) ==
    deferred /\ f.op \in {"committed", "commit_end"}
        => N(q, "committed") + N(q, "commit_end") > 0

(* A call ends, of handle h or of none, and h changes with it.             *)
LEMMA Pop ==
    ASSUME NEW q \in Seq(Frame), NEW d, NEW H, NEW T, NEW f \in Frame,
           Accounts(Put(f, q), d, H, T),
           NEW h \in Slots, NEW r \in HandleType, NEW t,
           r.app = H[h].app, MayTell(T, h, r, t),
           r.gen = H[h].gen \/ NoneFor(q, h),
           StillReserved(H, T, h, r, t) \/ NoneOpens(q, h),
           f.op \in HandleOps \cup OpenOps \cup {"exit"},
           f.op \in HandleOps => f.at = h,
           f.op = "committed" => t /= "given",
           Sound(r.refs, r.app, r.alive, t, M(q, "committed", h),
                 M(q, "slot_release", h), Holds(q, h))
    PROVE  /\ Ready(q, d - Bit(f.op \in BracketOps),
                    [H EXCEPT ![h] = r], [T EXCEPT ![h] = t])
           /\ StillCommits(q, f) => Ending(q)
<1> DEFINE H2 == [H EXCEPT ![h] = r]
           T2 == [T EXCEPT ![h] = t]
           e == d - Bit(f.op \in BracketOps)
<1>0. /\ d \in Int /\ H \in [Slots -> HandleType] /\ T \in ToldType
      /\ Stacked(admission, Put(f, q)) /\ Counted(Put(f, q), d, H)
      /\ \A k \in Slots : HandleSound(Put(f, q), H, T, k)
      /\ \A g \in Waiting(Put(f, q)) : Relies(H, T, g)
      /\ Telling(Put(f, q), H, T) /\ Ending(Put(f, q))
      /\ \A k \in Slots : TornLater(Put(f, q), T, k)
  BY DEF Accounts, Books, Handles
<1>1. /\ \A op : N(Put(f, q), op) = N(q, op) + Bit(f.op = op)
      /\ \A op : N(q, op) \in Nat
      /\ \A op, k : M(Put(f, q), op, k)
                        = M(q, op, k) + Bit(f.op = op /\ f.at = k)
      /\ \A op, k : M(q, op, k) \in Nat
      /\ Waiting(Put(f, q)) = {f} \cup Waiting(q)
  BY PutFacts
<1>2. /\ Stacked(admission, q)
      /\ \A g \in Waiting(q) : Above(admission, f, g)
  BY <1>0, PutStacked
<1>3. N(q, "open_rest") > 0 => admission
  BY <1>2, CountRange DEF Above
<1>4. /\ f.op \in BracketOps => Brackets(Put(f, q)) = Brackets(q) + 1
      /\ f.op \notin BracketOps => Brackets(Put(f, q)) = Brackets(q)
      /\ Brackets(q) \in Nat
  BY PutBrackets
<1> HIDE DEF Put
<1>5. /\ f.op \notin Tells
      /\ f.op \notin {"on_session_closed", "on_conn_error", "session_failed",
                      "streams_teardown", "backend_release", "service",
                      "conn_fatal"}
      /\ f.op \notin HandleOps =>
           f.op \notin {"committed", "slot_release", "drop", "commit_end"}
  BY DEF HandleOps, OpenOps, Tells
<1>6. /\ H2 \in [Slots -> HandleType] /\ H2[h] = r
      /\ \A k \in Slots : k /= h => H2[k] = H[k]
      /\ T2 \in ToldType /\ T2[h] = t
      /\ \A k \in Slots : k /= h => T2[k] = T[k]
      /\ Tokens(H2) = Tokens(H)
  <2>1. /\ H2 \in [Slots -> HandleType] /\ H2[h] = r
        /\ \A k \in Slots : k /= h => H2[k] = H[k]
    BY <1>0
  <2>2. /\ T2 \in ToldType /\ T2[h] = t
        /\ \A k \in Slots : k /= h => T2[k] = T[k]
    BY <1>0 DEF ToldType, MayTell
  <2>3. \A k \in Slots : H2[k].app = H[k].app
    BY <2>1
  <2>4. Tokens(H2) = Tokens(H)
    BY <2>3 DEF Tokens
  <2> HIDE DEF H2, T2
  <2> QED
    BY <2>1, <2>2, <2>4
<1> HIDE DEF H2, T2
<1>7. Counted(q, e, H2) /\ e \in Int
  <2>1. e = Brackets(q)
    BY <1>0, <1>4 DEF Counted, Bit
  <2>2. N(Put(f, q), "service") = N(q, "service")
    BY <1>1, <1>5 DEF Bit
  <2> HIDE DEF e
  <2> QED
    BY <1>0, <1>4, <1>6, <2>1, <2>2 DEF Counted
<1>8. ASSUME NEW k \in Slots PROVE HandleSound(q, H2, T2, k)
  <2>1. CASE k /= h
    <3>1. \A op \in {"committed", "slot_release", "drop", "commit_end"} :
             M(Put(f, q), op, k) = M(q, op, k)
      BY <2>1, <1>1, <1>5 DEF Bit
    <3>2. HandleSound(Put(f, q), H, T, k) /\ H2[k] = H[k] /\ T2[k] = T[k]
      BY <2>1, <1>0, <1>6
    <3> QED
      BY <3>1, <3>2 DEF HandleSound, Holds
  <2>2. CASE k = h
    BY <2>2, <1>6 DEF HandleSound
  <2> QED
    BY <2>1, <2>2
<1>9. ASSUME NEW g \in Waiting(q) PROVE Relies(H2, T2, g)
  <2>1. Relies(H, T, g)
    BY <1>0, <1>1
  <2>2. g \in Frame
    BY PutWaiting
  <2>3. ASSUME g.op \in HandleOps PROVE g.gen = H2[g.at].gen
    <3>1. g.at \in Slots /\ g.gen = H[g.at].gen
      BY <2>1, <2>2, <2>3 DEF Relies, Frame
    <3> QED
      BY <3>1, <2>3, <1>6 DEF NoneFor
  <2>4. ASSUME g.op \in OpenOps, g.x /= {}
        PROVE  admission /\ \E k \in Slots :
                              g.x = {k} /\ Reserved(H2[k], T2[k])
    <3>1. admission
      BY <2>1, <2>4 DEF Relies
    <3>2. PICK k \in Slots : g.x = {k} /\ Reserved(H[k], T[k])
      BY <2>1, <2>4 DEF Relies
    <3>3. Reserved(H2[k], T2[k])
      BY <3>2, <2>4, <1>6 DEF StillReserved, NoneOpens
    <3> QED
      BY <3>1, <3>2, <3>3
  <2> QED
    BY <2>3, <2>4 DEF Relies
<1>10. ASSUME NEW k \in Slots, T2[k] = "given", T[k] /= "given"
       PROVE  ~Over /\ sess /= "none" /\ ~terminal /\ outcome = "none"
              /\ N(q, "tell_failed") = 0
  <2>1. ~Over /\ sess /= "none"
    BY <1>6, <1>10 DEF MayTell
  <2>2. ~terminal
    BY <2>1, <1>0 DEF Ending
  <2>3. /\ N(Put(f, q), "tell_closed") = N(q, "tell_closed")
        /\ N(Put(f, q), "tell_failed") = N(q, "tell_failed")
        /\ N(q, "tell_closed") \in Nat /\ N(q, "tell_failed") \in Nat
    BY <1>1, <1>5 DEF Bit, Tells
  <2>4. N(q, "tell_closed") + N(q, "tell_failed") + Bit(deferred)
         + Bit(outcome /= "none") = 0
    BY <2>2, <2>3, <1>0 DEF Ending, Bit
  <2> QED
    BY <2>1, <2>2, <2>3, <2>4 DEF Bit
<1>11. Telling(q, H2, T2)
  <2>1. N(Put(f, q), "tell_failed") = N(q, "tell_failed")
    BY <1>1, <1>5 DEF Bit, Tells
  <2>2. sess = "none" => \A k \in Slots : T2[k] = "none" /\ ~H2[k].alive
    BY <1>0, <1>6 DEF Telling, MayTell
  <2> QED
    BY <1>0, <1>10, <2>1, <2>2 DEF Telling
<1>12. StillCommits(q, f) => Ending(q)
  <2>1. /\ N(Put(f, q), "on_session_closed") = N(q, "on_session_closed")
        /\ N(Put(f, q), "on_conn_error") = N(q, "on_conn_error")
        /\ N(Put(f, q), "session_failed") = N(q, "session_failed")
        /\ N(Put(f, q), "streams_teardown") = N(q, "streams_teardown")
        /\ N(Put(f, q), "tell_closed") = N(q, "tell_closed")
        /\ N(Put(f, q), "tell_failed") = N(q, "tell_failed")
        /\ N(Put(f, q), "backend_release") = N(q, "backend_release")
        /\ N(q, "open_rest") > 0 => N(Put(f, q), "open_rest") > 0
        /\ N(Put(f, q), "conn_fatal") = N(q, "conn_fatal")
    BY <1>1, <1>5 DEF OpenOps, Tells, Bit
  <2>2. f.op \notin {"committed", "commit_end"} =>
          /\ N(Put(f, q), "committed") = N(q, "committed")
          /\ N(Put(f, q), "commit_end") = N(q, "commit_end")
    BY <1>1 DEF Bit
  <2> QED
    BY <1>0, <2>1, <2>2 DEF Ending, StillCommits
<1>13. ASSUME NEW k \in Slots PROVE TornLater(q, T2, k)
  <2>1. CASE k = h /\ f.op = "committed"
    BY <2>1, <1>6 DEF TornLater
  <2>2. CASE ~(k = h /\ f.op = "committed")
    <3>1. M(Put(f, q), "committed", k) = M(q, "committed", k)
      BY <2>2, <1>1 DEF Bit, HandleOps
    <3>2. T2[k] = "given" /\ T[k] /= "given" => ~terminal
      BY <1>10
    <3> QED
      BY <3>1, <3>2, <1>0, <1>1, <1>5 DEF TornLater
  <2> QED
    BY <2>1, <2>2
<1> QED
  <2>1. Ready(q, e, H2, T2)
    BY <1>2, <1>3, <1>6, <1>7, <1>8, <1>9, <1>11, <1>13
       DEF Ready, Books, Handles
  <2> QED
    BY <2>1, <1>12 DEF H2, T2

(* The calls that work on no handle.                                       *)
Plain(f) == f.op \notin HandleOps /\ (f.op \in OpenOps => f.x = {})

(* What the handles need of them.                                          *)
LEMMA PlainCall ==
    ASSUME NEW q \in Seq(Frame), NEW H, NEW T, NEW f \in Frame, Plain(f)
    PROVE  /\ Handles(Put(f, q), H, T) =>
                /\ Handles(q, H, T)
                /\ N(q, "open_rest") > 0 => admission
                /\ f.op \notin BracketOps => q /= <<>>
                /\ f.op \in Tells => N(q, "streams_teardown") = 0
                /\ f.op = "backend_release"
                     => \A g \in Waiting(q) : g.op = "exit"
           /\ /\ Handles(q, H, T)
              /\ N(q, "open_rest") > 0 => admission
              /\ f.op \notin BracketOps => q /= <<>>
              /\ f.op \in Tells => N(q, "streams_teardown") = 0
              /\ f.op = "backend_release"
                   => \A g \in Waiting(q) : g.op = "exit"
              => Handles(Put(f, q), H, T)
<1>1. /\ \A op : N(Put(f, q), op) = N(q, op) + Bit(f.op = op)
      /\ \A op, h : M(Put(f, q), op, h)
                        = M(q, op, h) + Bit(f.op = op /\ f.at = h)
      /\ \A op, h : M(q, op, h) \in Nat
      /\ Waiting(Put(f, q)) = {f} \cup Waiting(q)
      /\ Put(f, q) \in Seq(Frame)
  BY PutFacts
<1>2. Stacked(admission, Put(f, q)) <=>
             /\ Stacked(admission, q)
             /\ \A g \in Waiting(q) : Above(admission, f, g)
             /\ f.op = "settle" => \E g \in Waiting(q) : Holder(f, g)
             /\ q = <<>> => f.op \in BracketOps
  BY PutStacked
<1>3. /\ N(q, "open_rest") > 0
           <=> \E g \in Waiting(q) : g.op = "open_rest"
      /\ N(q, "streams_teardown") > 0
           <=> \E g \in Waiting(q) : g.op = "streams_teardown"
      /\ N(q, "streams_teardown") \in Nat
  BY CountRange
<1> HIDE DEF Put
<1>4. f.op \notin {"committed", "slot_release", "drop", "commit_end", "settle"}
  BY DEF Plain, HandleOps
<1>5. \A h : HandleSound(Put(f, q), H, T, h) <=> HandleSound(q, H, T, h)
  <2>1. \A op \in {"committed", "slot_release", "drop", "commit_end"} : \A h :
            M(Put(f, q), op, h) = M(q, op, h)
    BY <1>1, <1>4 DEF Bit
  <2> QED
    BY <2>1 DEF HandleSound, Holds
<1>6. Relies(H, T, f)
  BY DEF Relies, Plain
<1>7. (\A g \in Waiting(q) : Above(admission, f, g)) <=>
             /\ N(q, "open_rest") > 0 => admission
             /\ f.op \in Tells => N(q, "streams_teardown") = 0
             /\ f.op = "backend_release"
                  => \A g \in Waiting(q) : g.op = "exit"
  BY <1>3 DEF Above, Plain
<1> QED
  BY <1>1, <1>2, <1>4, <1>5, <1>6, <1>7 DEF Handles

(* What the session's count and the brackets need of a call.               *)
LEMMA AnyCounted ==
    ASSUME NEW q \in Seq(Frame), NEW d \in Int, NEW H, NEW f \in Frame,
           f.op /= "service"
    PROVE  /\ f.op \notin BracketOps =>
                (Counted(Put(f, q), d, H) <=> Counted(q, d, H))
           /\ f.op \in BracketOps =>
                /\ Counted(Put(f, q), d + 1, H) <=> Counted(q, d, H)
                /\ Counted(Put(f, q), d, H) <=> Counted(q, d - 1, H)
<1>1. N(Put(f, q), "service") = N(q, "service")
  <2>1. /\ N(Put(f, q), "service")
             = N(q, "service") + Bit(f.op = "service")
        /\ N(q, "service") \in Nat
    BY PutFacts
  <2> HIDE DEF Put
  <2> QED
    BY <2>1 DEF Bit
<1>2. /\ f.op \in BracketOps => Brackets(Put(f, q)) = Brackets(q) + 1
      /\ f.op \notin BracketOps => Brackets(Put(f, q)) = Brackets(q)
      /\ Brackets(q) \in Nat
  BY PutBrackets
<1> HIDE DEF Put
<1> QED
  BY <1>1, <1>2 DEF Counted

(* session_enter and session_exit.                                         *)
LEMMA ExitCall ==
    ASSUME NEW q \in Seq(Frame), NEW d, NEW H, NEW T, NEW f \in Frame,
           f.op = "exit"
    PROVE  /\ Accounts(Put(f, q), d, H, T) => Calm(q, d - 1, H, T)
           /\ Ready(q, d, H, T) => Ready(Put(f, q), d + 1, H, T)
           /\ Ending(Put(f, q)) <=> Ending(q)
<1>1. Plain(f) /\ f.op \in BracketOps /\ f.op \notin Tells
  BY DEF Plain, HandleOps, OpenOps, BracketOps, Tells
<1>2. /\ Handles(Put(f, q), H, T) =>
           Handles(q, H, T) /\ (N(q, "open_rest") > 0 => admission)
      /\ Handles(q, H, T) /\ (N(q, "open_rest") > 0 => admission)
           => Handles(Put(f, q), H, T)
  BY <1>1, PlainCall
<1>3. d \in Int =>
        /\ Counted(Put(f, q), d + 1, H) <=> Counted(q, d, H)
        /\ Counted(Put(f, q), d, H) <=> Counted(q, d - 1, H)
  BY <1>1, AnyCounted
<1>4. /\ \A op : N(Put(f, q), op) = N(q, op) + Bit(f.op = op)
      /\ \A op : N(q, op) \in Nat
      /\ \A op, h : M(Put(f, q), op, h)
                        = M(q, op, h) + Bit(f.op = op /\ f.at = h)
      /\ \A op, h : M(q, op, h) \in Nat
      /\ Waiting(Put(f, q)) = {f} \cup Waiting(q)
  BY PutFacts
<1> HIDE DEF Put
<1>5. /\ N(Put(f, q), "on_session_closed") = N(q, "on_session_closed")
      /\ N(Put(f, q), "on_conn_error") = N(q, "on_conn_error")
      /\ N(Put(f, q), "session_failed") = N(q, "session_failed")
      /\ N(Put(f, q), "streams_teardown") = N(q, "streams_teardown")
      /\ N(Put(f, q), "tell_closed") = N(q, "tell_closed")
      /\ N(Put(f, q), "tell_failed") = N(q, "tell_failed")
      /\ N(Put(f, q), "committed") = N(q, "committed")
      /\ N(Put(f, q), "commit_end") = N(q, "commit_end")
      /\ N(Put(f, q), "backend_release") = N(q, "backend_release")
      /\ N(Put(f, q), "open_rest") = N(q, "open_rest")
      /\ N(Put(f, q), "conn_fatal") = N(q, "conn_fatal")
  BY <1>4 DEF Bit
<1>6. Ending(Put(f, q)) <=> Ending(q)
  BY <1>5 DEF Ending
<1>7. Telling(Put(f, q), H, T) <=> Telling(q, H, T)
  BY <1>5 DEF Telling
<1>8. \A h : TornLater(Put(f, q), T, h) <=> TornLater(q, T, h)
  <2>1. \A h : M(Put(f, q), "committed", h) = M(q, "committed", h)
    BY <1>4 DEF Bit
  <2> QED
    BY <2>1, <1>4 DEF TornLater
<1> QED
  BY <1>2, <1>3, <1>5, <1>6, <1>7, <1>8 DEF Accounts, Books, Calm, Ready

-----------------------------------------------------------------------------
(* Several calls at once.                                                  *)

(* Calls that are put together are put one behind the other.               *)
LEMMA Joined ==
    ASSUME NEW a \in Seq(Frame), NEW b \in Seq(Frame), NEW q \in Seq(Frame)
    PROVE  /\ (a \o b) \o q = a \o (b \o q)
           /\ a \o b \in Seq(Frame) /\ <<>> \o q = q /\ q \o <<>> = q
<1>1. (a \o b) \o q = a \o (b \o q) /\ a \o b \in Seq(Frame)
  BY ConcatAssociative, ConcatProperties
<1>2. <<>> \o q = q /\ q \o <<>> = q
  BY ConcatEmptySeq
<1> QED
  BY <1>1, <1>2

Runs == {<<>>}
    \cup {<<f>> : f \in {k \in Frame : k.op \in NeutralOps}}
    \cup {<<f, g>> : f, g \in {k \in Frame : k.op \in NeutralOps}}

(* Up to two calls that nothing is counted for.                            *)
LEMMA NeutralRun ==
    ASSUME NEW q, NEW d, NEW H, NEW T, Calm(q, d, H, T), q /= <<>>,
           NEW s \in Runs
    PROVE  /\ Calm(s \o q, d, H, T) /\ s \o q /= <<>> /\ s \in Seq(Frame)
           /\ q \in Seq(Frame) /\ s \o q \in Seq(Frame)
           /\ \A g \in Waiting(q) : g \in Waiting(s \o q)
<1>1. q \in Seq(Frame)
  BY DEF Calm, Ready, Books, Handles
<1>2. ASSUME NEW p \in Seq(Frame), NEW f \in Frame, f.op \in NeutralOps,
             Calm(p, d, H, T), p /= <<>>
      PROVE  /\ Calm(Put(f, p), d, H, T) /\ Put(f, p) /= <<>>
             /\ Put(f, p) \in Seq(Frame)
             /\ \A g \in Waiting(p) : g \in Waiting(Put(f, p))
  <2>1. /\ Put(f, p) /= <<>> /\ Put(f, p) \in Seq(Frame)
        /\ Waiting(Put(f, p)) = {f} \cup Waiting(p)
    BY PutWaiting
  <2>2. Ready(Put(f, p), d, H, T) /\ Ending(Put(f, p))
    BY <1>2, NeutralCall DEF Calm
  <2> HIDE DEF Put
  <2> QED
    BY <2>1, <2>2 DEF Calm
<1>3. CASE s = <<>>
  BY <1>1, <1>3, ConcatEmptySeq
<1>4. ASSUME NEW f \in Frame, f.op \in NeutralOps, s = <<f>>
      PROVE  /\ Calm(s \o q, d, H, T) /\ s \o q /= <<>> /\ s \in Seq(Frame)
             /\ s \o q \in Seq(Frame)
             /\ \A g \in Waiting(q) : g \in Waiting(s \o q)
  <2>1. s \o q = Put(f, q) /\ s \in Seq(Frame)
    BY <1>4 DEF Put
  <2> QED
    BY <2>1, <1>1, <1>2, <1>4
<1>5. ASSUME NEW f \in Frame, NEW k \in Frame, f.op \in NeutralOps,
             k.op \in NeutralOps, s = <<f, k>>
      PROVE  /\ Calm(s \o q, d, H, T) /\ s \o q /= <<>> /\ s \in Seq(Frame)
             /\ s \o q \in Seq(Frame)
             /\ \A g \in Waiting(q) : g \in Waiting(s \o q)
  <2>1. s \o q = Put(f, Put(k, q))
    BY <1>1, <1>5, PutTwo
  <2>2. s \in Seq(Frame)
    BY <1>5
  <2> PICK p \in Seq(Frame) : p = Put(k, q)
    BY <1>1, PutPlaces
  <2>3. /\ Calm(p, d, H, T) /\ p /= <<>> /\ p \in Seq(Frame)
        /\ \A g \in Waiting(q) : g \in Waiting(p)
    BY <1>1, <1>2, <1>5
  <2>4. /\ Calm(Put(f, p), d, H, T) /\ Put(f, p) /= <<>>
        /\ Put(f, p) \in Seq(Frame)
        /\ \A g \in Waiting(p) : g \in Waiting(Put(f, p))
    BY <2>3, <1>2, <1>5
  <2> QED
    BY <2>1, <2>2, <2>3, <2>4
<1> QED
  BY <1>1, <1>3, <1>4, <1>5 DEF Runs

-----------------------------------------------------------------------------
(* From the books to the next state.                                       *)

(* A step that leaves the session as it is.                                *)
Quiet == UNCHANGED <<admission, refs, backend, appRefs, attached, running,
                     terminal, deferred, sess, closed, outcome>>

(* The books of the next state: what is kept there of the handles, of the  *)
(* session's count, of its end and of what was told.                       *)
LEMMA Behind ==
    ASSUME NEW q, NEW d, NEW H, NEW T,
           agenda' = q, cbDepth' = d, hs' = H, told' = T,
           Handles(q, H, T), d \in Int, admission' = admission, Over => Over',
           Counted(q, d, H)', Telling(q, H, T)', Ending(q)',
           \A h \in Slots : TornLater(q, T, h)'
    PROVE  Accounts(agenda, cbDepth, hs, told)'
<1>1. Stacked(admission, agenda)'
  BY DEF Handles, Stacked, Above, Holder
<1>2. ASSUME NEW h \in Slots PROVE HandleSound(agenda, hs, told, h)'
  <2>1. HandleSound(q, H, T, h)
    BY DEF Handles
  <2> QED
    BY <2>1 DEF HandleSound, Sound, Settled, Balanced, Holds, M, Bit
<1>3. ASSUME NEW f \in Waiting(q) PROVE Relies(hs, told, f)'
  <2>1. Relies(H, T, f)
    BY DEF Handles
  <2> QED
    BY <2>1 DEF Relies, Reserved
<1>4. Waiting(agenda)' = Waiting(q)
  BY DEF Waiting
<1>5. Counted(agenda, cbDepth, hs)'
  BY DEF Counted, Brackets, N, Tokens, Bit
<1>6. Telling(agenda, hs, told)'
  BY DEF Telling, N
<1>7. Ending(agenda)'
  BY DEF Ending, N, Bit, Over
<1>8. ASSUME NEW h \in Slots PROVE TornLater(agenda, told, h)'
  <2>1. TornLater(q, T, h)'
    OBVIOUS
  <2> QED
    BY <2>1 DEF TornLater, Waiting, M
<1>9. agenda' \in Seq(Frame) /\ hs' \in [Slots -> HandleType]
      /\ told' \in ToldType
  BY DEF Handles
<1>10. Handles(agenda, hs, told)'
  BY <1>1, <1>2, <1>3, <1>4, <1>9 DEF Handles
<1>11. Books(agenda, cbDepth, hs, told)'
  BY <1>5, <1>6, <1>10 DEF Books
<1> QED
  BY <1>7, <1>8, <1>11 DEF Accounts

(* What the books read is what it was, so they hold of the next state.      *)
LEMMA Same ==
    ASSUME NEW q, NEW d, NEW H, NEW T, Accounts(q, d, H, T), Quiet,
           agenda' = q, cbDepth' = d, hs' = H, told' = T
    PROVE  Accounts(agenda, cbDepth, hs, told)'
<1>1. Handles(q, H, T) /\ d \in Int /\ Counted(q, d, H) /\ Telling(q, H, T)
      /\ Ending(q) /\ \A h \in Slots : TornLater(q, T, h)
  BY DEF Accounts, Books
<1>2. /\ admission' = admission /\ refs' = refs /\ backend' = backend
      /\ appRefs' = appRefs /\ attached' = attached /\ running' = running
      /\ terminal' = terminal /\ deferred' = deferred /\ sess' = sess
      /\ closed' = closed /\ outcome' = outcome
  BY DEF Quiet
<1>3. Over => Over'
  BY <1>2 DEF Over
<1>4. Counted(q, d, H)'
  BY <1>1, <1>2 DEF Counted, Bit
<1>5. Telling(q, H, T)'
  BY <1>1, <1>2 DEF Telling
<1>6. Ending(q)'
  BY <1>1, <1>2 DEF Ending, Over, Bit
<1>7. \A h \in Slots : TornLater(q, T, h)'
  BY <1>1, <1>2 DEF TornLater
<1> QED
  BY <1>1, <1>2, <1>3, <1>4, <1>5, <1>6, <1>7, Behind

-----------------------------------------------------------------------------
(* What the invariant says of a state.                                     *)

(* The counts are numbers, and a call on the stack has a bracket below.    *)
LEMMA Numbers ==
    ASSUME IInv
    PROVE  /\ refs \in Nat /\ cbDepth \in Nat /\ commitDepth \in Nat
           /\ agenda \in Seq(Frame) /\ hs \in [Slots -> HandleType]
           /\ told \in ToldType
           /\ agenda = <<>> <=> cbDepth = 0
<1>1. /\ agenda \in Seq(Frame) /\ hs \in [Slots -> HandleType]
      /\ told \in ToldType /\ Stacked(admission, agenda)
      /\ Counted(agenda, cbDepth, hs) /\ commitDepth = N(agenda, "committed")
      /\ backend \in BOOLEAN /\ running \in BOOLEAN /\ appRefs \in Nat
  BY DEF IInv, Accounts, Books, Handles, Types
<1>2. Cardinality(Tokens(hs)) \in Nat
  BY <1>1, FS_CardinalityType DEF Counted
<1>3. refs \in Nat
  BY <1>1, <1>2 DEF Counted, Bit
<1>4. commitDepth \in Nat
  BY <1>1, CountRange
<1>5. cbDepth \in Nat /\ (agenda = <<>> <=> cbDepth = 0)
  <2>1. CASE agenda = <<>>
    <3>1. Brackets(<<>>) = 0
      <4>1. {i \in 1..Len(<<>>) : <<>>[i].op \in BracketOps} = {}
        OBVIOUS
      <4> QED
        BY <4>1, FS_EmptySet DEF Brackets
    <3> QED
      BY <2>1, <3>1, <1>1 DEF Counted
  <2>2. CASE agenda /= <<>>
    <3> DEFINE S == {i \in 1..Len(agenda) : agenda[i].op \in BracketOps}
    <3>1. Len(agenda) \in 1..Len(agenda)
      BY <2>2, <1>1, EmptySeq
    <3>2. Len(agenda) \in S
      BY <2>2, <3>1, <1>1 DEF Stacked
    <3>3. IsFiniteSet(S)
      <4>1. IsFiniteSet(1..Len(agenda))
        BY <1>1, FS_Interval
      <4> QED
        BY <4>1, FS_Subset
    <3>4. Cardinality(S) \in Nat /\ Cardinality(S) /= 0
      BY <3>2, <3>3, FS_CardinalityType, FS_EmptySet
    <3> QED
      BY <2>2, <3>4, <1>1 DEF Counted, Brackets
  <2> QED
    BY <2>1, <2>2
<1> QED
  BY <1>1, <1>3, <1>4, <1>5

(* The application's references are among the session's.                   *)
LEMMA Pinned ==
    ASSUME IInv, NEW h \in Slots, hs[h].app > 0
    PROVE  refs > 0
<1>1. /\ Counted(agenda, cbDepth, hs) /\ hs \in [Slots -> HandleType]
      /\ backend \in BOOLEAN /\ running \in BOOLEAN /\ appRefs \in Nat
  BY DEF IInv, Accounts, Books, Handles, Types
<1>2. <<h, 1>> \in Tokens(hs)
  <2>1. hs[h].app \in Nat
    BY <1>1 DEF HandleType
  <2>2. <<h, 1>> \in {h} \X (1..hs[h].app)
    BY <2>1
  <2> QED
    BY <2>2 DEF Tokens
<1>3. Cardinality(Tokens(hs)) \in Nat /\ Cardinality(Tokens(hs)) /= 0
  BY <1>1, <1>2, FS_CardinalityType, FS_EmptySet DEF Counted
<1> QED
  BY <1>1, <1>3 DEF Counted, Bit

(* No call waits on an empty stack, and nothing is left to be told of a    *)
(* session that is over.                                                   *)
LEMMA AtRest ==
    ASSUME IInv, agenda = <<>>
    PROVE  /\ \A op : N(agenda, op) = 0
           /\ \A op, h : M(agenda, op, h) = 0
           /\ Waiting(agenda) = {} /\ ~running
           /\ ~backend =>
                /\ terminal /\ Over /\ outcome /= "none"
                /\ \A h \in Slots : told[h] = "none"
<1>1. /\ \A op : N(agenda, op) = 0
      /\ \A op, h : M(agenda, op, h) = 0
      /\ Waiting(agenda) = {}
  BY EmptyStack
<1>2. /\ Counted(agenda, cbDepth, hs) /\ Ending(agenda)
      /\ told \in ToldType /\ running \in BOOLEAN
      /\ \A h \in Slots : HandleSound(agenda, hs, told, h)
      /\ \A h \in Slots : TornLater(agenda, told, h)
  BY DEF IInv, Accounts, Books, Handles, Types
<1>3. ~running
  BY <1>1, <1>2 DEF Counted, Bit
<1>4. ASSUME ~backend
      PROVE  terminal /\ Over /\ outcome /= "none"
  <2>1. terminal /\ Over
    BY <1>1, <1>2, <1>4 DEF Ending
  <2>2. ~deferred
    BY <1>1, <1>2 DEF Ending
  <2> QED
    BY <1>1, <1>2, <2>1, <2>2 DEF Ending, Bit
<1>5. ASSUME ~backend, NEW h \in Slots
      PROVE  told[h] = "none"
  <2>1. told[h] /= "given"
    BY <1>1, <1>2, <1>4, <1>5 DEF TornLater
  <2>2. told[h] \notin {"closed", "unasked"}
    BY <1>1, <1>2 DEF HandleSound, Sound
  <2> QED
    BY <2>1, <2>2, <1>2 DEF ToldType
<1> QED
  BY <1>1, <1>3, <1>4, <1>5

(* A session that is destroyed has nobody left who could call it.          *)
LEMMA Gone ==
    ASSUME IInv, freed
    PROVE  /\ agenda = <<>> /\ ~backend /\ appRefs = 0
           /\ \A h \in Slots : hs[h].app = 0 /\ told[h] = "none"
<1>1. refs = 0 /\ cbDepth = 0
  BY DEF IInv
<1>2. agenda = <<>>
  BY <1>1, Numbers
<1>3. ~backend /\ appRefs = 0
  <2>1. /\ Counted(agenda, cbDepth, hs)
        /\ backend \in BOOLEAN /\ running \in BOOLEAN /\ appRefs \in Nat
    BY DEF IInv, Accounts, Books, Types
  <2>2. Cardinality(Tokens(hs)) \in Nat
    BY <2>1, FS_CardinalityType DEF Counted
  <2> QED
    BY <1>1, <2>1, <2>2 DEF Counted, Bit
<1>4. \A h \in Slots : told[h] = "none"
  BY <1>2, <1>3, AtRest
<1>5. ASSUME NEW h \in Slots PROVE hs[h].app = 0
  <2>1. hs[h].app \in Nat
    BY Numbers DEF HandleType
  <2> QED
    BY <1>1, <2>1, Pinned
<1> QED
  BY <1>2, <1>3, <1>4, <1>5

(* The call on top of the stack, and the calls below it.                   *)
LEMMA OnTop ==
    ASSUME IInv, agenda /= <<>>
    PROVE  /\ Head(agenda) \in Frame /\ Tail(agenda) \in Seq(Frame)
           /\ agenda = Put(Head(agenda), Tail(agenda))
           /\ ~freed
           /\ Head(agenda).op /= "open_rest" =>
                Calm(agenda, cbDepth, hs, told)
<1>1. agenda \in Seq(Frame)
  BY Numbers
<1>2. /\ Head(agenda) \in Frame /\ Tail(agenda) \in Seq(Frame)
      /\ agenda = Put(Head(agenda), Tail(agenda))
  BY <1>1, HeadOnTail
<1>3. ~freed
  BY Gone
<1>4. ASSUME Head(agenda).op /= "open_rest"
      PROVE  Calm(agenda, cbDepth, hs, told)
  <2> PICK f \in Frame, q \in Seq(Frame) :
        f = Head(agenda) /\ q = Tail(agenda)
    BY <1>2
  <2>1. Accounts(agenda, cbDepth, hs, told)
    BY DEF IInv
  <2>2. Stacked(admission, Put(f, q))
    BY <2>1, <1>2 DEF Accounts, Books, Handles
  <2>3. \A g \in Waiting(q) : Above(admission, f, g)
    BY <2>2, PutStacked
  <2>4. N(q, "open_rest") > 0 => admission
    BY <2>3, CountRange DEF Above
  <2>5. N(Put(f, q), "open_rest") = N(q, "open_rest")
    <3>1. /\ \A op : N(Put(f, q), op) = N(q, op) + Bit(f.op = op)
          /\ \A op : N(q, op) \in Nat
      BY PutFacts
    <3> HIDE DEF Put
    <3> QED
      BY <3>1, <1>4 DEF Bit
  <2>6. N(agenda, "open_rest") = N(Put(f, q), "open_rest")
    BY <1>2
  <2>7. N(agenda, "open_rest") > 0 => admission
    BY <2>4, <2>5, <2>6
  <2> QED
    BY <2>1, <2>7 DEF Accounts, Calm, Ready
<1> QED
  BY <1>2, <1>3, <1>4

(* Between the calls, with nothing waiting, another call may come.          *)
LEMMA RestCalm ==
    ASSUME IInv, agenda = <<>>
    PROVE  Calm(agenda, cbDepth, hs, told)
<1>1. N(agenda, "open_rest") = 0
  BY AtRest
<1> QED
  BY <1>1 DEF IInv, Accounts, Calm, Ready

-----------------------------------------------------------------------------
(* Steps that leave the session as it is.                                  *)

(* A step that leaves the session as it is keeps the invariant when its    *)
(* calls do.                                                               *)
LEMMA Onward ==
    ASSUME IInv, Quiet, NEW q, NEW d, NEW H, NEW T, Calm(q, d, H, T),
           agenda' = q, cbDepth' = d, hs' = H, told' = T,
           commitDepth' = N(q, "committed"), late' = late,
           freed' \in BOOLEAN, freed' <=> (refs = 0 /\ d = 0),
           streams' \in Nat, es' \in [Slots -> StreamType], Linked'
    PROVE  IInv'
<1>1. Accounts(q, d, H, T) /\ q \in Seq(Frame)
  BY DEF Calm, Ready, Accounts, Books, Handles
<1>2. Accounts(agenda, cbDepth, hs, told)'
  BY <1>1, Same
<1>3. /\ admission' = admission /\ refs' = refs /\ backend' = backend
      /\ appRefs' = appRefs /\ attached' = attached /\ running' = running
      /\ terminal' = terminal /\ deferred' = deferred /\ sess' = sess
      /\ closed' = closed /\ outcome' = outcome
  BY DEF Quiet
<1>4. N(q, "committed") \in Nat
  BY <1>1, CountRange
<1>5. Types'
  BY <1>3, <1>4 DEF IInv, Types
<1>6. (commitDepth = N(agenda, "committed"))'
  BY DEF N
<1>7. (freed <=> refs = 0 /\ cbDepth = 0)' /\ (late = FALSE)'
  BY <1>3 DEF IInv
<1> QED
  BY <1>2, <1>5, <1>6, <1>7 DEF IInv

(* The engine streams in use keep their handles, if they keep them at all; *)
(* and the handles keep their streams.                                     *)
SameLinks ==
    \A e \in Slots : es'[e].kind = "WT" /\ es'[e].user /= None =>
        es[e].kind = "WT" /\ es'[e].user = es[e].user

(* The links hold when streams and handles keep theirs, or both let go.    *)
LEMMA Links ==
    ASSUME IInv, SameLinks,
           \A h \in Slots : hs'[h].alive =>
             /\ hs[h].alive /\ hs'[h].es = hs[h].es /\ told'[h] = told[h]
             /\ hs'[h].app = hs[h].app \/ hs[h].es /= None,
           \A h \in Slots : hs[h].alive =>
             \/ hs'[h].alive
             \/ \A e \in Slots : es'[e].kind = "WT" => es'[e].user /= h
    PROVE  Linked'
<1>1. Linked /\ es \in [Slots -> StreamType]
  BY DEF IInv, Types
<1>2. ASSUME NEW e \in Slots, es'[e].kind = "WT", es'[e].user /= None
      PROVE  /\ told'[es'[e].user] = "given" /\ hs'[es'[e].user].alive
             /\ hs'[es'[e].user].es = e
  <2>1. es[e].kind = "WT" /\ es'[e].user = es[e].user
    BY <1>2 DEF SameLinks
  <2>2. es[e].user \in Slots
    BY <1>1, <1>2, <2>1 DEF StreamType
  <2>3. /\ told[es[e].user] = "given" /\ hs[es[e].user].alive
        /\ hs[es[e].user].es = e
    BY <1>1, <1>2, <2>1 DEF Linked
  <2>4. hs'[es[e].user].alive
    BY <2>1, <2>2, <2>3, <1>2
  <2> QED
    BY <2>1, <2>2, <2>3, <2>4
<1>3. ASSUME NEW h \in Slots, hs'[h].alive, hs'[h].es = None
      PROVE  told'[h] = "none" /\ hs'[h].app = 0
  BY <1>1, <1>3 DEF Linked
<1> QED
  BY <1>2, <1>3 DEF Linked

(* stream_credit_release.                                                  *)
LEMMA CreditLinks ==
    ASSUME es \in [Slots -> StreamType], NEW r, r.credit \in Slots \cup {None},
           es' = CreditRelease(r)
    PROVE  es' \in [Slots -> StreamType] /\ SameLinks
<1>1. CASE es' = es
  BY <1>1 DEF SameLinks
<1>2. CASE r.credit \in Slots /\ es' = [es EXCEPT ![r.credit].lease = FALSE]
  <2>1. es' \in [Slots -> StreamType]
    <3>1. es[r.credit] \in StreamType
      BY <1>2
    <3>2. [es[r.credit] EXCEPT !.lease = FALSE] \in StreamType
      BY <3>1 DEF StreamType
    <3> QED
      BY <3>2, <1>2
  <2>2. \A e \in Slots : es'[e].kind = es[e].kind /\ es'[e].user = es[e].user
    BY <1>2 DEF StreamType
  <2> QED
    BY <2>1, <2>2 DEF SameLinks
<1> QED
  BY <1>1, <1>2 DEF CreditRelease

(* The committed calls are counted when they come and go, only.            *)
LEMMA Committed ==
    ASSUME NEW q \in Seq(Frame), NEW f \in Frame, f.op /= "committed"
    PROVE  N(Put(f, q), "committed") = N(q, "committed")
<1>1. /\ \A op : N(Put(f, q), op) = N(q, op) + Bit(f.op = op)
      /\ \A op : N(q, op) \in Nat
  BY PutFacts
<1> HIDE DEF Put
<1> QED
  BY <1>1 DEF Bit

(* Calls that nothing is counted for leave the commits as they are.        *)
LEMMA CommittedRun ==
    ASSUME NEW q \in Seq(Frame), NEW s \in Runs
    PROVE  N(s \o q, "committed") = N(q, "committed")
<1>1. CASE s = <<>>
  BY <1>1, ConcatEmptySeq
<1>2. ASSUME NEW f \in Frame, f.op \in NeutralOps, s = <<f>>
      PROVE  N(s \o q, "committed") = N(q, "committed")
  <2>1. s \o q = Put(f, q) /\ f.op /= "committed"
    BY <1>2 DEF Put, NeutralOps
  <2> QED
    BY <2>1, Committed
<1>3. ASSUME NEW f \in Frame, NEW k \in Frame, f.op \in NeutralOps,
             k.op \in NeutralOps, s = <<f, k>>
      PROVE  N(s \o q, "committed") = N(q, "committed")
  <2>1. s \o q = Put(f, Put(k, q))
    BY <1>3, PutTwo
  <2>2. f.op /= "committed" /\ k.op /= "committed"
    BY <1>3 DEF NeutralOps
  <2>3. Put(k, q) \in Seq(Frame)
    BY PutPlaces
  <2>4. N(Put(f, Put(k, q)), "committed") = N(Put(k, q), "committed")
    BY <2>2, <2>3, Committed
  <2>5. N(Put(k, q), "committed") = N(q, "committed")
    BY <2>2, Committed
  <2> QED
    BY <2>1, <2>4, <2>5
<1> QED
  BY <1>1, <1>2, <1>3 DEF Runs

(* A call that nothing is counted for ends.                                *)
LEMMA NeutralEnds ==
    ASSUME IInv, Quiet, agenda /= <<>>, Head(agenda).op \in NeutralOps,
           agenda' = Tail(agenda),
           UNCHANGED <<cbDepth, freed, commitDepth, hs, told, late>>,
           es' \in [Slots -> StreamType], SameLinks, streams' \in Nat
    PROVE  IInv'
<1>1. /\ Head(agenda) \in Frame /\ Tail(agenda) \in Seq(Frame)
      /\ agenda = Put(Head(agenda), Tail(agenda)) /\ ~freed
  BY OnTop
<1> PICK f \in Frame, q \in Seq(Frame) : f = Head(agenda) /\ q = Tail(agenda)
  BY <1>1
<1>2. Accounts(Put(f, q), cbDepth, hs, told)
  BY <1>1 DEF IInv
<1>3. Calm(q, cbDepth, hs, told)
  BY <1>2, NeutralCall
<1>4. Linked'
  BY Links
<1>5. N(Put(f, q), "committed") = N(q, "committed")
  BY Committed DEF NeutralOps
<1>6. commitDepth = N(Put(f, q), "committed")
  BY <1>1 DEF IInv
<1>7. freed' \in BOOLEAN /\ (freed' <=> (refs = 0 /\ cbDepth = 0))
  BY DEF IInv, Types
<1> PICK H, T, d : H = hs /\ T = told /\ d = cbDepth
  OBVIOUS
<1> HIDE DEF Put
<1>8. Calm(q, d, H, T)
  BY <1>3
<1> QED
  BY <1>4, <1>5, <1>6, <1>7, <1>8, Onward

-----------------------------------------------------------------------------
(* The engine's streams.                                                   *)

(* What a step may make of an engine stream that it does not link.         *)
Follows(n, r) ==
    n \in StreamType /\ n.user = r.user /\ (n.kind = "WT" => r.kind = "WT")

(* What the engine does to a stream's halves leaves its backlink alone.    *)
LEMMA StreamFollows ==
    ASSUME NEW r \in StreamType
    PROVE  /\ Follows(r, r) /\ Follows(Released(r), r)
           /\ Follows([r EXCEPT !.drain = FALSE], r)
           /\ Follows([r EXCEPT !.resident = FALSE], r)
           /\ Follows([r EXCEPT !.commit = TRUE], r)
           /\ Follows([r EXCEPT !.sent = TRUE], r)
           /\ Follows([r EXCEPT !.recv = FALSE], r)
           /\ Follows([r EXCEPT !.fin = FALSE, !.send = FALSE], r)
           /\ Follows([r EXCEPT !.recv = FALSE, !.drain = FALSE], r)
           /\ Follows([r EXCEPT !.send = FALSE, !.fin = FALSE,
                                !.recv = FALSE, !.drain = FALSE], r)
           /\ Follows([r EXCEPT !.sent = TRUE, !.send = FALSE,
                                !.fin = r.commit], r)
           /\ \A x : Follows(ShutStream(r, x), r)
<1>1. r.commit \in BOOLEAN
  BY DEF StreamType
<1>2. Follows(r, r)
  BY DEF Follows
<1>3. /\ Follows(Released(r), r)
      /\ Follows([r EXCEPT !.drain = FALSE], r)
      /\ Follows([r EXCEPT !.resident = FALSE], r)
      /\ Follows([r EXCEPT !.commit = TRUE], r)
      /\ Follows([r EXCEPT !.sent = TRUE], r)
  <2>1. Follows(Released(r), r)
    BY ZenonT(60) DEF Follows, StreamType, Released, NoStream
  <2>2. Follows([r EXCEPT !.drain = FALSE], r)
    BY DEF Follows, StreamType
  <2>3. Follows([r EXCEPT !.resident = FALSE], r)
    BY DEF Follows, StreamType
  <2>4. Follows([r EXCEPT !.commit = TRUE], r)
    BY DEF Follows, StreamType
  <2>5. Follows([r EXCEPT !.sent = TRUE], r)
    BY DEF Follows, StreamType
  <2> QED
    BY <2>1, <2>2, <2>3, <2>4, <2>5
<1>4. Follows([r EXCEPT !.recv = FALSE], r)
  BY DEF Follows, StreamType
<1>5. Follows([r EXCEPT !.fin = FALSE, !.send = FALSE], r)
  BY DEF Follows, StreamType
<1>6. Follows([r EXCEPT !.recv = FALSE, !.drain = FALSE], r)
  BY DEF Follows, StreamType
<1>7. Follows([r EXCEPT !.send = FALSE, !.fin = FALSE,
                        !.recv = FALSE, !.drain = FALSE], r)
  BY DEF Follows, StreamType
<1>8. Follows([r EXCEPT !.sent = TRUE, !.send = FALSE, !.fin = r.commit], r)
  BY <1>1 DEF Follows, StreamType
<1>9. ASSUME NEW x PROVE Follows(ShutStream(r, x), r)
  <2> PICK a, b, c, d \in BOOLEAN :
        /\ a = (r.send /\ "send" \notin x) /\ b = (r.fin /\ "send" \notin x)
        /\ c = (r.recv /\ "recv" \notin x) /\ d = (r.drain \/ "recv" \in x)
    OBVIOUS
  <2>1. ShutStream(r, x)
          = [r EXCEPT !.send = a, !.fin = b, !.recv = c, !.drain = d]
    BY DEF ShutStream, StreamType
  <2> QED
    BY <2>1, ZenonT(60) DEF Follows, StreamType
<1> QED
  BY <1>2, <1>3, <1>4, <1>5, <1>6, <1>7, <1>8, <1>9

(* A done stream is released, another stays.                               *)
LEMMA KeptFollows ==
    ASSUME NEW r \in StreamType, NEW n, Follows(n, r)
    PROVE  Follows(Kept(n), r)
<1>1. n \in StreamType
  BY DEF Follows
<1>2. Follows(Released(n), n)
  BY <1>1, StreamFollows
<1> QED
  BY <1>1, <1>2 DEF Follows, Kept

(* session_closed's turn for a stream, too.                                *)
LEMMA TornFollows ==
    ASSUME NEW r \in StreamType
    PROVE  Follows(Torn(r), r)
BY StreamFollows, KeptFollows DEF Torn

(* One engine stream changes.                                              *)
LEMMA OneFollows ==
    ASSUME es \in [Slots -> StreamType], NEW e, NEW n,
           e \in Slots => Follows(n, es[e]), es' = [es EXCEPT ![e] = n]
    PROVE  es' \in [Slots -> StreamType] /\ SameLinks
<1>1. CASE e \in Slots
  <2>1. n \in StreamType /\ n.user = es[e].user
        /\ (n.kind = "WT" => es[e].kind = "WT")
    BY <1>1 DEF Follows
  <2>2. es' \in [Slots -> StreamType]
    BY <2>1
  <2>3. \A i \in Slots : es'[i] = IF i = e THEN n ELSE es[i]
    OBVIOUS
  <2> QED
    BY <2>1, <2>2, <2>3 DEF SameLinks
<1>2. CASE e \notin Slots
  BY <1>2 DEF SameLinks
<1> QED
  BY <1>1, <1>2

(* The call on top returns.                                                *)
LEMMA ThenNone ==
    ASSUME IInv, agenda /= <<>>, Then(<<>>)
    PROVE  agenda' = Tail(agenda)
<1>1. Tail(agenda) \in Seq(Frame)
  BY OnTop
<1> QED
  BY <1>1, ConcatEmptySeq DEF Then

(* The application's callback returns.                                     *)
LEMMA AppReturnsStep ==
    ASSUME IInv, AppReturns
    PROVE  IInv'
<1>1. Quiet
  BY DEF AppReturns, count, flags, engine, history, Quiet
<1>2. /\ agenda /= <<>> /\ Head(agenda).op \in NeutralOps
      /\ agenda' = Tail(agenda)
      /\ UNCHANGED <<cbDepth, freed, commitDepth, hs, told, late, es, streams>>
  BY ThenNone DEF AppReturns, At, NeutralOps, count, flags, history
<1>3. es' \in [Slots -> StreamType] /\ SameLinks /\ streams' \in Nat
  BY <1>2 DEF IInv, Types, SameLinks
<1> QED
  BY <1>1, <1>2, <1>3, NeutralEnds

(* wtq_stream_resume_receive has nothing more to replay.                   *)
LEMMA ResumeDoneStep ==
    ASSUME IInv, ResumeDone
    PROVE  IInv'
<1>1. Quiet
  BY DEF ResumeDone, count, flags, engine, history, Quiet
<1>2. /\ agenda /= <<>> /\ Head(agenda).op \in NeutralOps
      /\ agenda' = Tail(agenda)
      /\ UNCHANGED <<cbDepth, freed, commitDepth, hs, told, late, es, streams>>
  BY ThenNone DEF ResumeDone, At, NeutralOps, count, flags, history
<1>3. es' \in [Slots -> StreamType] /\ SameLinks /\ streams' \in Nat
  BY <1>2 DEF IInv, Types, SameLinks
<1> QED
  BY <1>1, <1>2, <1>3, NeutralEnds

(* The engine reads a stream's halves again behind a shutdown.             *)
LEMMA EngineTornStep ==
    ASSUME IInv, EngineTorn
    PROVE  IInv'
<1>1. Quiet
  BY DEF EngineTorn, count, flags, engine, history, Quiet
<1>2. /\ agenda /= <<>> /\ Head(agenda).op \in NeutralOps
      /\ agenda' = Tail(agenda)
      /\ UNCHANGED <<cbDepth, freed, commitDepth, hs, told, late, streams>>
  BY ThenNone DEF EngineTorn, At, NeutralOps, count, flags, history
<1>3. es \in [Slots -> StreamType] /\ streams' \in Nat
  BY <1>2 DEF IInv, Types
<1>4. es' = [es EXCEPT ![This.at] = Torn(es[This.at])]
  BY DEF EngineTorn
<1>5. This.at \in Slots => Follows(Torn(es[This.at]), es[This.at])
  BY <1>3, TornFollows
<1>6. es' \in [Slots -> StreamType] /\ SameLinks
  BY <1>3, <1>4, <1>5, OneFollows
<1> QED
  BY <1>1, <1>2, <1>3, <1>6, NeutralEnds

(* The engine's rest behind a callback.                                    *)
LEMMA EngineRestStep ==
    ASSUME IInv, EngineRest
    PROVE  IInv'
<1>1. Quiet
  BY DEF EngineRest, count, flags, engine, history, Quiet
<1>2. /\ agenda /= <<>> /\ Head(agenda).op \in NeutralOps
      /\ agenda' = Tail(agenda)
      /\ UNCHANGED <<cbDepth, freed, commitDepth, hs, told, late, streams>>
  BY ThenNone DEF EngineRest, At, NeutralOps, count, flags, history
<1>3. es \in [Slots -> StreamType] /\ streams' \in Nat
  BY <1>2 DEF IInv, Types
<1> PICK e, x, r : e = This.at /\ x = This.x /\ r = es[e]
  OBVIOUS
<1> DEFINE last == [[r EXCEPT !.sent = TRUE] EXCEPT !.send = FALSE,
                                                    !.fin = r.commit]
       sent == [r EXCEPT !.sent = TRUE]
       next == CASE "free" \in x -> Released(r)
                 [] "done" \in x -> Kept(r)
                 [] ~SameStream(This) -> r
                 [] "fin" \in x -> Kept([r EXCEPT !.recv = FALSE,
                                                  !.drain = FALSE])
                 [] "shut" \in x -> Kept(ShutStream(r, x \cap Halves))
                 [] "last" \in x -> Kept(last)
                 [] "sent" \in x -> sent
                 [] OTHER -> Kept(r)
<1>4. es' = [es EXCEPT ![e] = next]
  BY DEF EngineRest
<1>5. ASSUME e \in Slots PROVE Follows(next, r)
  <2>1. r \in StreamType
    BY <1>3, <1>5
  <2>2. last = [r EXCEPT !.sent = TRUE, !.send = FALSE, !.fin = r.commit]
    BY <2>1 DEF StreamType
  <2> HIDE DEF last
  <2>3. /\ Follows(r, r) /\ Follows(last, r)
        /\ Follows([r EXCEPT !.recv = FALSE, !.drain = FALSE], r)
        /\ Follows(ShutStream(r, x \cap Halves), r)
        /\ Follows([r EXCEPT !.sent = TRUE], r) /\ Follows(Released(r), r)
    BY <2>1, <2>2, StreamFollows
  <2>4. /\ Follows(Kept(r), r) /\ Follows(Kept(last), r)
        /\ Follows(Kept([r EXCEPT !.recv = FALSE, !.drain = FALSE]), r)
        /\ Follows(Kept(ShutStream(r, x \cap Halves)), r)
    BY <2>1, <2>3, KeptFollows
  <2> QED
    BY <2>3, <2>4
<1> HIDE DEF next
<1>6. es' \in [Slots -> StreamType] /\ SameLinks
  BY <1>3, <1>4, <1>5, OneFollows
<1> QED
  BY <1>1, <1>2, <1>3, <1>6, NeutralEnds

-----------------------------------------------------------------------------
(* The calls that the steps make.                                          *)

(* The calls without a stream are frames, and so are the application's.    *)
LEMMA Calls ==
    /\ \A op \in PlainOps : Call(op) \in Frame /\ Call(op).op = op
    /\ \A op \in SlotSetOps : \A S \in SUBSET Slots :
         /\ [Call(op) EXCEPT !.x = S] \in Frame
         /\ [Call(op) EXCEPT !.x = S].op = op
         /\ [Call(op) EXCEPT !.x = S].x = S
    /\ Exit \in Frame /\ Exit.op = "exit" /\ App \in Frame /\ App.op = "app"
    /\ <<>> \in Runs /\ <<App>> \in Runs
<1>1. 0 \in Nat /\ {} \in SUBSET (Slots \cup Marks)
  OBVIOUS
<1>2. ASSUME NEW op \in PlainOps
      PROVE  Call(op) \in Frame /\ Call(op).op = op
  <2>1. op \in Ops /\ op \notin HandleOps \cup StreamOps \cup SlotSetOps
        /\ op /= "open_rest"
    BY DEF Ops, PlainOps, HandleOps, StreamOps, SlotSetOps
  <2>2. Call(op) = [op |-> op, at |-> None, gen |-> 0, x |-> {}]
    BY DEF Call
  <2> QED
    BY <1>1, <2>1, <2>2 DEF Frame
<1>3. ASSUME NEW op \in SlotSetOps, NEW S \in SUBSET Slots
      PROVE  /\ [Call(op) EXCEPT !.x = S] \in Frame
             /\ [Call(op) EXCEPT !.x = S].op = op
             /\ [Call(op) EXCEPT !.x = S].x = S
  <2>1. S \in SUBSET (Slots \cup Marks)
    OBVIOUS
  <2>2. op \in Ops /\ op \notin HandleOps \cup StreamOps
        /\ op /= "open_rest"
    BY DEF Ops, HandleOps, StreamOps, SlotSetOps
  <2>3. [Call(op) EXCEPT !.x = S]
          = [op |-> op, at |-> None, gen |-> 0, x |-> S]
    BY DEF Call
  <2> QED
    BY <1>1, <2>1, <2>2, <2>3 DEF Frame
<1>4. Exit \in Frame /\ Exit.op = "exit" /\ App \in Frame /\ App.op = "app"
  BY <1>2 DEF Exit, App, PlainOps
<1>5. <<App>> \in Runs /\ <<>> \in Runs
  BY <1>4 DEF Runs, NeutralOps
<1> QED
  BY <1>2, <1>3, <1>4, <1>5

(* A call on a handle, and on an engine stream.                            *)
LEMMA HandleCall ==
    ASSUME hs \in [Slots -> HandleType], NEW h \in Slots,
           NEW op \in HandleOps, NEW x \in SUBSET (Slots \cup Marks)
    PROVE  /\ OnHandle(op, h, x) \in Frame /\ OnHandle(op, h, x).op = op
           /\ OnHandle(op, h, x).at = h
           /\ OnHandle(op, h, x).gen = hs[h].gen
<1>1. hs[h].gen \in Nat
  BY DEF HandleType
<1>2. op \in Ops /\ op \notin SlotSetOps /\ op /= "open_rest"
  BY DEF Ops, HandleOps, SlotSetOps
<1>3. OnHandle(op, h, x)
        = [op |-> op, at |-> h, gen |-> hs[h].gen, x |-> x]
  BY DEF OnHandle
<1> QED
  BY <1>1, <1>2, <1>3 DEF Frame

(* A call on an engine stream is a frame.                                  *)
LEMMA StreamCall ==
    ASSUME es \in [Slots -> StreamType], NEW e \in Slots,
           NEW op \in StreamOps, NEW x \in SUBSET (Slots \cup Marks)
    PROVE  /\ OnStream(op, e, x) \in Frame /\ OnStream(op, e, x).op = op
           /\ OnStream(op, e, x).op \in NeutralOps
<1>1. es[e].gen \in Nat
  BY DEF StreamType
<1>2. op \in Ops /\ op \notin SlotSetOps /\ op /= "open_rest"
      /\ op \in NeutralOps
  BY DEF Ops, StreamOps, SlotSetOps, NeutralOps
<1>3. OnStream(op, e, x)
        = [op |-> op, at |-> e, gen |-> es[e].gen, x |-> x]
  BY DEF OnStream
<1> QED
  BY <1>1, <1>2, <1>3 DEF Frame

(* A call comes that no handle is changed for.                             *)
LEMMA PlainReady ==
    ASSUME NEW q, NEW d, NEW H, NEW T, Ready(q, d, H, T), q /= <<>>,
           NEW f \in Frame, Plain(f), f.op \notin BracketOps \cup Tells,
           f.op = "backend_release" => \A g \in Waiting(q) : g.op = "exit"
    PROVE  Ready(Put(f, q), d, H, T) /\ Put(f, q) /= <<>>
<1>1. /\ q \in Seq(Frame) /\ d \in Int /\ Handles(q, H, T)
      /\ Counted(q, d, H) /\ Telling(q, H, T)
      /\ \A h \in Slots : TornLater(q, T, h)
      /\ N(q, "open_rest") > 0 => admission
  BY DEF Ready, Books, Handles
<1>2. Handles(Put(f, q), H, T)
  BY <1>1, PlainCall
<1>3. Counted(Put(f, q), d, H)
  BY <1>1, AnyCounted DEF BracketOps
<1>4. /\ \A op : N(Put(f, q), op) = N(q, op) + Bit(f.op = op)
      /\ \A op : N(q, op) \in Nat
      /\ \A op, h : M(Put(f, q), op, h)
                        = M(q, op, h) + Bit(f.op = op /\ f.at = h)
      /\ \A op, h : M(q, op, h) \in Nat
      /\ Waiting(Put(f, q)) = {f} \cup Waiting(q) /\ Put(f, q) /= <<>>
  BY <1>1, PutFacts
<1> HIDE DEF Put
<1>5. N(Put(f, q), "open_rest") = N(q, "open_rest")
  BY <1>4 DEF Bit, BracketOps
<1>6. Telling(Put(f, q), H, T)
  <2>1. N(Put(f, q), "tell_failed") = N(q, "tell_failed")
    BY <1>4 DEF Bit, Tells
  <2> QED
    BY <2>1, <1>1 DEF Telling
<1>7. ASSUME NEW h \in Slots PROVE TornLater(Put(f, q), T, h)
  <2>1. M(q, "committed", h) > 0 => M(Put(f, q), "committed", h) > 0
    BY <1>4 DEF Bit
  <2> QED
    BY <2>1, <1>1, <1>4 DEF TornLater
<1> QED
  BY <1>1, <1>2, <1>3, <1>4, <1>5, <1>6, <1>7 DEF Ready, Books

(* The stack that a delivery, or a call of the application, starts from.   *)
LEMMA Bracketed ==
    ASSUME IInv, ~freed,
           agenda = <<>> \/ Head(agenda).op \in {"app", "service", "resume"}
    PROVE  /\ Bracket \in Seq(Frame) /\ Below \in Seq(Frame)
           /\ Depth \in {0, 1} /\ cbDepth + Depth > 0
           /\ Bracket \o Below /= <<>>
           /\ Calm(Bracket \o Below, cbDepth + Depth, hs, told)
           /\ N(Bracket \o Below, "committed") = commitDepth
<1>1. /\ cbDepth \in Nat /\ (agenda = <<>> <=> cbDepth = 0)
      /\ agenda \in Seq(Frame) /\ N(agenda, "committed") = commitDepth
  BY Numbers DEF IInv
<1>2. Calm(agenda, cbDepth, hs, told)
  BY RestCalm, OnTop
<1>3. Exit \in Frame /\ Exit.op = "exit" /\ <<Exit>> \in Seq(Frame)
  BY Calls
<1>4. CASE ~InCall
  <2>1. Bracket = <<Exit>> /\ Depth = 1 /\ Below = agenda
    BY <1>4 DEF Bracket, Depth, Below, InCall
  <2>2. Bracket \o Below = Put(Exit, agenda)
    BY <2>1 DEF Put
  <2>3. Ready(Put(Exit, agenda), cbDepth + 1, hs, told)
        /\ Ending(Put(Exit, agenda))
    BY <1>1, <1>2, <1>3, ExitCall DEF Calm
  <2>4. Put(Exit, agenda) /= <<>>
    BY <1>1, <1>3, PutWaiting
  <2>5. N(Put(Exit, agenda), "committed") = commitDepth
    BY <1>1, <1>3, Committed
  <2>6. cbDepth + Depth = cbDepth + 1 /\ cbDepth + Depth > 0
    BY <2>1, <1>1
  <2> HIDE DEF Put
  <2> QED
    BY <2>1, <2>2, <2>3, <2>4, <2>5, <2>6, <1>1, <1>3 DEF Calm
<1>5. CASE At("service")
  <2>1. Bracket = <<>> /\ Depth = 0 /\ Below = agenda /\ agenda /= <<>>
    BY <1>5 DEF Bracket, Depth, Below, InCall, At
  <2>2. Bracket \o Below = agenda /\ Bracket \in Seq(Frame)
    BY <2>1, <1>1, ConcatEmptySeq
  <2> QED
    BY <2>1, <2>2, <1>1, <1>2
<1>6. CASE At("resume")
  <2>1. Bracket = <<>> /\ Depth = 0 /\ Below = Tail(agenda)
        /\ agenda /= <<>> /\ Head(agenda).op = "resume"
    BY <1>6 DEF Bracket, Depth, Below, InCall, At
  <2>2. Head(agenda) \in Frame /\ Tail(agenda) \in Seq(Frame)
        /\ agenda = Put(Head(agenda), Tail(agenda))
    BY <2>1, OnTop
  <2> PICK f \in Frame, q \in Seq(Frame) :
        f = Head(agenda) /\ q = Tail(agenda)
    BY <2>2
  <2>3. Bracket \o Below = q /\ Bracket \in Seq(Frame)
    BY <2>1, ConcatEmptySeq
  <2>4. Accounts(Put(f, q), cbDepth, hs, told)
    BY <2>2 DEF IInv
  <2>5. Calm(q, cbDepth, hs, told) /\ q /= <<>>
    BY <2>1, <2>4, NeutralCall DEF NeutralOps
  <2>6. N(Put(f, q), "committed") = N(q, "committed")
    BY <2>1, Committed
  <2>7. N(q, "committed") = commitDepth
    BY <2>2, <2>6, <1>1
  <2>8. Depth \in {0, 1} /\ cbDepth + Depth > 0 /\ cbDepth + Depth = cbDepth
    BY <2>1, <1>1
  <2> HIDE DEF Put
  <2> QED
    BY <2>1, <2>3, <2>5, <2>7, <2>8
<1> QED
  BY <1>4, <1>5, <1>6 DEF InCall

-----------------------------------------------------------------------------
(* Inputs for a stream.                                                    *)

(* No event comes late: an engine stream in use has a handle that was      *)
(* given out, and no outcome was reported before the connection is over.   *)
LEMMA NotLate ==
    ASSUME IInv, ~closed, NEW e \in Slots, es[e].kind = "WT",
           es[e].user /= None
    PROVE  /\ es[e].user \in Slots /\ told[es[e].user] = "given"
           /\ hs[es[e].user].alive /\ hs[es[e].user].es = e
           /\ outcome = "none"
<1>1. /\ es \in [Slots -> StreamType] /\ Linked
      /\ outcome \in {"none", "closed", "failed"}
      /\ Telling(agenda, hs, told)
  BY DEF IInv, Types, Accounts, Books
<1>2. es[e].user \in Slots
  BY <1>1 DEF StreamType
<1>3. /\ told[es[e].user] = "given" /\ hs[es[e].user].alive
      /\ hs[es[e].user].es = e
  BY <1>1 DEF Linked
<1> QED
  BY <1>1, <1>2, <1>3 DEF Telling

SameHandle(r, n) ==
    /\ r \in HandleType /\ r.refs = n.refs /\ r.app = n.app
    /\ r.alive = n.alive /\ r.es = n.es /\ r.gen = n.gen
Settles(h) == {<<>>} \cup {<<OnHandle("settle", h, x)>> : x \in SUBSET Marks}

(* A settle comes, for a handle that is held.                              *)
LEMMA SettleOn ==
    ASSUME NEW q, NEW d, NEW H, NEW T, Calm(q, d, H, T), q /= <<>>,
           NEW h \in Slots, NEW f \in Frame, f.op = "settle", f.at = h,
           f.gen = H[h].gen, NEW k \in Waiting(q), Holder(f, k)
    PROVE  /\ Calm(Put(f, q), d, H, T) /\ Put(f, q) /= <<>>
           /\ Put(f, q) \in Seq(Frame)
           /\ N(Put(f, q), "committed") = N(q, "committed")
<1>1. /\ Ready(q, d, H, T) /\ Ending(q) /\ q \in Seq(Frame) /\ d \in Int
      /\ H \in [Slots -> HandleType] /\ T \in ToldType
      /\ HandleSound(q, H, T, h) /\ Telling(q, H, T)
  BY DEF Calm, Ready, Books, Handles
<1> PICK r, t : r = H[h] /\ t = T[h]
  OBVIOUS
<1>2. r \in HandleType /\ t \in {"none", "given", "closed", "unasked"}
  BY <1>1 DEF ToldType
<1>3. StillReserved(H, T, h, r, t) /\ StillTold(T, h, r, t)
  BY <1>1, <1>2 DEF StillReserved, StillTold, Telling
<1>4. \A op : M(q, op, h) \in Nat
  BY <1>1, CountRange
<1>5. Sound(r.refs, r.app, r.alive, t,
            M(q, "committed", h) + Bit(f.op = "committed"),
            M(q, "slot_release", h) + Bit(f.op = "slot_release"),
            Holds(q, h) + Bit(f.op \in {"drop", "commit_end"}))
  <2>1. /\ M(q, "committed", h) + Bit(f.op = "committed")
             = M(q, "committed", h)
        /\ M(q, "slot_release", h) + Bit(f.op = "slot_release")
             = M(q, "slot_release", h)
        /\ Holds(q, h) + Bit(f.op \in {"drop", "commit_end"}) = Holds(q, h)
    BY <1>4 DEF Bit, Holds
  <2> QED
    BY <2>1, <1>1 DEF HandleSound
<1>6. /\ f.op \in HandleOps \cup NeutralOps \cup {"exit"}
      /\ f.op \notin BracketOps /\ f.op /= "committed"
  BY DEF HandleOps, BracketOps
<1>7. /\ Ready(Put(f, q), d + Bit(f.op \in BracketOps),
               [H EXCEPT ![h] = r], [T EXCEPT ![h] = t])
      /\ Ending(q) => Ending(Put(f, q))
  BY <1>1, <1>2, <1>3, <1>5, <1>6, Push
<1>8. /\ [H EXCEPT ![h] = r] = H /\ [T EXCEPT ![h] = t] = T
      /\ d + Bit(f.op \in BracketOps) = d
  BY <1>1, <1>6 DEF ToldType, Bit
<1>9. /\ Put(f, q) /= <<>> /\ Put(f, q) \in Seq(Frame)
      /\ N(Put(f, q), "committed") = N(q, "committed")
  BY <1>1, <1>6, PutWaiting, Committed
<1> HIDE DEF Put
<1> QED
  BY <1>1, <1>7, <1>8, <1>9 DEF Calm

(* A handle is held while the adapter runs, on top of the stack b; behind  *)
(* the callback it may be settled.                                         *)
LEMMA HoldOn ==
    ASSUME IInv, NEW b, NEW d, Calm(b, d, hs, told),
           NEW h \in Slots, NEW r, SameHandle(r, hs[h]),
           NEW todo \in Settles(h), NEW app \in Runs,
           hs[h].alive, hs[h].app > 0 \/ told[h] /= "none"
    PROVE  LET q == app \o (todo \o (<<OnHandle("drop", h, {})>> \o b)) IN
           /\ q \in Seq(Frame) /\ b \in Seq(Frame)
           /\ <<OnHandle("drop", h, {})>> \in Seq(Frame)
           /\ todo \in Seq(Frame) /\ app \in Seq(Frame)
           /\ Calm(q, d + 1, [hs EXCEPT ![h] = Held(r)], told)
           /\ N(q, "committed") = N(b, "committed")
<1>1. /\ Ready(b, d, hs, told) /\ Ending(b) /\ b \in Seq(Frame)
      /\ hs \in [Slots -> HandleType] /\ told \in ToldType
      /\ HandleSound(b, hs, told, h) /\ Telling(b, hs, told)
  BY DEF Calm, Ready, Books, Handles
<1> PICK H, T : H = hs /\ T = told
  OBVIOUS
<1> PICK f \in Frame : f = OnHandle("drop", h, {})
  <2>1. {} \in SUBSET (Slots \cup Marks)
    OBVIOUS
  <2> QED
    BY <1>1, <2>1, HandleCall DEF HandleOps
<1>2. f.op = "drop" /\ f.at = h /\ f.gen = H[h].gen
  BY DEF OnHandle
<1> DEFINE r2 == Held(r)
<1>3. /\ r2 \in HandleType /\ r2.refs = H[h].refs + 1 /\ r2.app = H[h].app
      /\ r2.alive = H[h].alive /\ r2.gen = H[h].gen
      /\ H[h].refs \in Nat /\ H[h].app \in Nat /\ H[h].alive \in BOOLEAN
  <2>1. /\ r \in HandleType /\ r.refs = H[h].refs /\ r.app = H[h].app
        /\ r.alive = H[h].alive /\ r.gen = H[h].gen
    BY DEF SameHandle
  <2>2. r.refs \in Nat /\ r.app \in Nat /\ r.alive \in BOOLEAN
    BY <2>1 DEF HandleType
  <2>3. r2 = [r EXCEPT !.refs = r.refs + 1]
    BY DEF Held
  <2>4. r2 \in HandleType /\ r2.refs = r.refs + 1 /\ r2.app = r.app
        /\ r2.alive = r.alive /\ r2.gen = r.gen
    <3> PICK n \in Nat : n = r.refs + 1
      BY <2>2
    <3>1. r2 = [r EXCEPT !.refs = n]
      BY <2>3
    <3> HIDE DEF r2
    <3> QED
      BY <3>1, <2>1 DEF HandleType
  <2> QED
    BY <2>1, <2>2, <2>4
<1> HIDE DEF r2
<1>4. T[h] \in {"none", "given", "closed", "unasked"}
  BY <1>1 DEF ToldType
<1>5. StillReserved(H, T, h, r2, T[h])
  BY DEF StillReserved, Reserved
<1>6. StillTold(T, h, r2, T[h])
  BY <1>1, <1>3, <1>4 DEF StillTold, Telling
<1>7. \A op : M(b, op, h) \in Nat
  BY <1>1, CountRange
<1>8. /\ Sound(r2.refs, r2.app, r2.alive, T[h],
               M(b, "committed", h), M(b, "slot_release", h), Holds(b, h) + 1)
      /\ Sound(r2.refs, r2.app, r2.alive, T[h],
               M(b, "committed", h) + Bit(f.op = "committed"),
               M(b, "slot_release", h) + Bit(f.op = "slot_release"),
               Holds(b, h) + Bit(f.op \in {"drop", "commit_end"}))
  <2>1. Sound(H[h].refs, H[h].app, H[h].alive, T[h], M(b, "committed", h),
              M(b, "slot_release", h), Holds(b, h))
    BY <1>1 DEF HandleSound
  <2>2. Holds(b, h) \in Nat
    BY <1>7 DEF Holds
  <2>3. Sound(r2.refs, r2.app, r2.alive, T[h],
              M(b, "committed", h), M(b, "slot_release", h), Holds(b, h) + 1)
    BY <2>1, <2>2, <1>3, <1>7 DEF Sound, Balanced, Settled, Bit
  <2>4. /\ M(b, "committed", h) + Bit(f.op = "committed")
             = M(b, "committed", h)
        /\ M(b, "slot_release", h) + Bit(f.op = "slot_release")
             = M(b, "slot_release", h)
        /\ Bit(f.op \in {"drop", "commit_end"}) = 1
    BY <1>2, <1>7 DEF Bit
  <2> QED
    BY <2>3, <2>4
<1>20. PICK H2 : H2 = [H EXCEPT ![h] = r2]
  OBVIOUS
<1>21. PICK p \in Seq(Frame) : p = Put(f, b)
  BY <1>1, PutWaiting
<1>9. /\ Calm(p, d + 1, H2, T) /\ p /= <<>> /\ f \in Waiting(p)
      /\ N(p, "committed") = N(b, "committed")
  <2>1. /\ Ready(Put(f, b), d + Bit(f.op \in BracketOps),
                 [H EXCEPT ![h] = r2], [T EXCEPT ![h] = T[h]])
        /\ Ending(b) => Ending(Put(f, b))
    <3>1. f.op \in HandleOps \cup NeutralOps \cup {"exit"}
          /\ f.op \in HandleOps /\ f.op /= "settle" /\ f.op \in BracketOps
      BY <1>2 DEF HandleOps, BracketOps
    <3> QED
      BY <3>1, <1>1, <1>2, <1>3, <1>5, <1>6, <1>8, Push, ZenonT(60)
  <2>2. Bit(f.op \in BracketOps) = 1
    BY <1>2 DEF Bit, BracketOps
  <2>3. [T EXCEPT ![h] = T[h]] = T
    BY <1>1 DEF ToldType
  <2>4. N(Put(f, b), "committed") = N(b, "committed")
    BY <1>1, <1>2, Committed
  <2>5. p /= <<>> /\ f \in Waiting(p)
    BY <1>1, <1>21, PutWaiting
  <2> HIDE DEF Put
  <2> QED
    BY <2>1, <2>2, <2>3, <2>4, <2>5, <1>1, <1>20, <1>21 DEF Calm
<1>10. /\ todo \in Seq(Frame) /\ todo \o p \in Seq(Frame) /\ todo \o p /= <<>>
       /\ Calm(todo \o p, d + 1, H2, T)
       /\ N(todo \o p, "committed") = N(p, "committed")
  <2>1. CASE todo = <<>>
    BY <2>1, <1>9, ConcatEmptySeq
  <2>2. ASSUME NEW x \in SUBSET Marks, todo = <<OnHandle("settle", h, x)>>
        PROVE  /\ todo \in Seq(Frame) /\ todo \o p \in Seq(Frame)
               /\ todo \o p /= <<>> /\ Calm(todo \o p, d + 1, H2, T)
               /\ N(todo \o p, "committed") = N(p, "committed")
    <3> PICK g \in Frame : g = OnHandle("settle", h, x)
      <4>1. x \in SUBSET (Slots \cup Marks)
        OBVIOUS
      <4> QED
        BY <1>1, <4>1, HandleCall DEF HandleOps
    <3>1. g.op = "settle" /\ g.at = h /\ g.gen = H[h].gen
      BY DEF OnHandle
    <3>2. todo \o p = Put(g, p) /\ todo \in Seq(Frame)
      BY <2>2 DEF Put
    <3>3. H2[h].gen = H[h].gen
      BY <1>1, <1>3, <1>20
    <3>4. f \in Waiting(p) /\ Holder(g, f)
      BY <3>1, <1>2, <1>9 DEF Holder
    <3> PICK d1 : d1 = d + 1
      OBVIOUS
    <3>5. /\ Calm(Put(g, p), d1, H2, T) /\ Put(g, p) /= <<>>
          /\ Put(g, p) \in Seq(Frame)
          /\ N(Put(g, p), "committed") = N(p, "committed")
      <4>1. Calm(p, d1, H2, T) /\ p /= <<>>
        BY <1>9
      <4>2. g.op = "settle" /\ g.at = h
        BY <3>1
      <4>3. g.gen = H2[h].gen
        BY <3>1, <3>3
      <4>4. f \in Waiting(p) /\ Holder(g, f)
        BY <3>4
      <4> QED
        BY <4>1, <4>2, <4>3, <4>4, SettleOn
    <3> HIDE DEF Put
    <3> QED
      BY <3>2, <3>5
  <2> QED
    BY <2>1, <2>2 DEF Settles
<1>22. PICK u \in Seq(Frame) : u = todo \o p
  BY <1>10
<1>11. /\ app \in Seq(Frame) /\ app \o u \in Seq(Frame)
       /\ Calm(app \o u, d + 1, H2, T)
       /\ N(app \o u, "committed") = N(u, "committed")
  BY <1>10, <1>22, NeutralRun, CommittedRun
<1>12. <<OnHandle("drop", h, {})>> \o b = p
       /\ <<OnHandle("drop", h, {})>> \in Seq(Frame)
  BY <1>21 DEF Put
<1>13. app \o (todo \o (<<OnHandle("drop", h, {})>> \o b)) = app \o u
  BY <1>12, <1>22
<1>14. Calm(app \o u, d + 1, [hs EXCEPT ![h] = Held(r)], told)
  <2>1. [hs EXCEPT ![h] = Held(r)] = H2 /\ told = T
    BY <1>20 DEF r2
  <2> QED
    BY <2>1, <1>11
<1> QED
  BY <1>1, <1>9, <1>10, <1>11, <1>12, <1>13, <1>14, <1>22

(* How the calls of an input are put together.                             *)
LEMMA Assoc ==
    ASSUME NEW x \in Seq(Frame), NEW y \in Seq(Frame), NEW z \in Seq(Frame)
    PROVE  (x \o y) \o z = x \o (y \o z)
BY ConcatAssociative

(* Two stacks make a stack.                                                *)
LEMMA Closed ==
    ASSUME NEW x \in Seq(Frame), NEW y \in Seq(Frame)
    PROVE  x \o y \in Seq(Frame)
BY ConcatProperties

AsPut(a, b, c, k, m, n) == (a \o (((b \o c) \o k) \o m)) \o n
InTurn(a, b, c, k, m, n) == a \o (b \o (c \o (k \o (m \o n))))
Stacks(a, b, c, k, m, n) == {a, b, c, k, m, n} \subseteq Seq(Frame)

(* ... and how they are put one by one.                                    *)
LEMMA Regroup ==
    ASSUME NEW a, NEW b, NEW c, NEW k, NEW m, NEW n, Stacks(a, b, c, k, m, n)
    PROVE  AsPut(a, b, c, k, m, n) = InTurn(a, b, c, k, m, n)
<1>1. {a, b, c, k, m, n} \subseteq Seq(Frame)
  BY DEF Stacks
<1>2. a \in Seq(Frame)
  BY <1>1
<1>3. b \in Seq(Frame)
  BY <1>1
<1>4. c \in Seq(Frame)
  BY <1>1
<1>5. k \in Seq(Frame)
  BY <1>1
<1>6. m \in Seq(Frame)
  BY <1>1
<1>7. n \in Seq(Frame)
  BY <1>1
<1>8. PICK r : r = b \o c
  OBVIOUS
<1>9. PICK s : s = r \o k
  OBVIOUS
<1>10. PICK t : t = s \o m
  OBVIOUS
<1>11. PICK u : u = m \o n
  OBVIOUS
<1>12. PICK v : v = k \o u
  OBVIOUS
<1>13. r \in Seq(Frame)
  BY <1>3, <1>4, <1>8, Closed
<1>14. s \in Seq(Frame)
  BY <1>5, <1>9, <1>13, Closed
<1>15. t \in Seq(Frame)
  BY <1>6, <1>10, <1>14, Closed
<1>16. u \in Seq(Frame)
  BY <1>6, <1>7, <1>11, Closed
<1>17. v \in Seq(Frame)
  BY <1>5, <1>12, <1>16, Closed
<1>18. (a \o t) \o n = a \o (t \o n)
  BY <1>2, <1>7, <1>15, Assoc
<1>19. t \o n = s \o u
  BY <1>6, <1>7, <1>10, <1>11, <1>14, Assoc
<1>20. s \o u = r \o v
  BY <1>5, <1>9, <1>12, <1>13, <1>16, Assoc
<1>21. r \o v = b \o (c \o v)
  BY <1>3, <1>4, <1>8, <1>17, Assoc
<1> QED
  BY <1>8, <1>9, <1>10, <1>11, <1>12, <1>18, <1>19, <1>20, <1>21
     DEF AsPut, InTurn

Ongoing == agenda = <<>> \/ Head(agenda).op \in {"app", "service", "resume"}

(* An input for an engine stream without a handle.                         *)
LEMMA InputAlone ==
    ASSUME IInv, ~freed, Ongoing, Quiet, NEW e \in Slots, NEW ne,
           Follows(ne, es[e]), es' = [es EXCEPT ![e] = ne],
           NEW rest \in Runs, agenda' = (rest \o Bracket) \o Below,
           cbDepth' = cbDepth + Depth, hs' = hs,
           UNCHANGED <<freed, commitDepth, streams, told, late>>
    PROVE  IInv'
<1>1. /\ Bracket \in Seq(Frame) /\ Below \in Seq(Frame)
      /\ Depth \in {0, 1} /\ cbDepth + Depth > 0
      /\ Bracket \o Below /= <<>>
      /\ Calm(Bracket \o Below, cbDepth + Depth, hs, told)
      /\ N(Bracket \o Below, "committed") = commitDepth
  BY Bracketed DEF Ongoing
<1>2. PICK b, d : b = Bracket \o Below /\ d = cbDepth + Depth
  OBVIOUS
<1>3. /\ Calm(rest \o b, d, hs, told) /\ rest \in Seq(Frame)
      /\ b \in Seq(Frame)
  BY <1>1, <1>2, NeutralRun
<1>4. N(rest \o b, "committed") = commitDepth
  BY <1>1, <1>2, <1>3, CommittedRun
<1>5. (rest \o Bracket) \o Below = rest \o b
  <2>1. PICK m, n : m = Bracket /\ n = Below
    OBVIOUS
  <2>2. (rest \o m) \o n = rest \o (m \o n)
    BY <2>1, <1>1, <1>3, Assoc
  <2> QED
    BY <2>1, <2>2, <1>2
<1>6. /\ es \in [Slots -> StreamType] /\ streams' \in Nat
      /\ freed' \in BOOLEAN /\ (freed' <=> (refs = 0 /\ d = 0))
      /\ commitDepth' = commitDepth /\ told' = told /\ late' = late
  BY <1>1, <1>2 DEF IInv, Types
<1>7. es' \in [Slots -> StreamType] /\ SameLinks
  BY <1>6, OneFollows
<1>8. Linked'
  BY <1>6, <1>7, Links
<1>9. PICK q, H, T : q = rest \o b /\ H = hs /\ T = told
  OBVIOUS
<1>10. Calm(q, d, H, T) /\ agenda' = q /\ hs' = H /\ told' = T
       /\ cbDepth' = d /\ commitDepth' = N(q, "committed")
  BY <1>2, <1>3, <1>4, <1>5, <1>6, <1>9
<1> QED
  BY <1>6, <1>7, <1>8, <1>10, Onward

(* The same for a stream with a handle.                                    *)
LEMMA InputHeld ==
    ASSUME IInv, ~freed, Ongoing, Quiet, NEW e \in Slots, NEW ne,
           Follows(ne, es[e]), es' = [es EXCEPT ![e] = ne],
           NEW h \in Slots, NEW r, SameHandle(r, hs[h]),
           hs[h].alive, hs[h].app > 0 \/ told[h] /= "none",
           NEW todo \in Settles(h), NEW rest \in Runs, NEW app \in Runs,
           agenda' = (app \o (((todo \o <<OnHandle("drop", h, {})>>) \o rest)
                              \o Bracket)) \o Below,
           cbDepth' = cbDepth + Depth + 1, hs' = [hs EXCEPT ![h] = Held(r)],
           UNCHANGED <<freed, commitDepth, streams, told, late>>
    PROVE  IInv'
<1>1. /\ Bracket \in Seq(Frame) /\ Below \in Seq(Frame)
      /\ Depth \in {0, 1} /\ cbDepth + Depth > 0
      /\ Bracket \o Below /= <<>>
      /\ Calm(Bracket \o Below, cbDepth + Depth, hs, told)
      /\ N(Bracket \o Below, "committed") = commitDepth
  BY Bracketed DEF Ongoing
<1>2. PICK b, d : b = Bracket \o Below /\ d = cbDepth + Depth
  OBVIOUS
<1>3. /\ Calm(rest \o b, d, hs, told) /\ rest \in Seq(Frame)
      /\ b \in Seq(Frame) /\ rest \o b \in Seq(Frame) /\ rest \o b /= <<>>
  BY <1>1, <1>2, NeutralRun
<1>4. N(rest \o b, "committed") = commitDepth
  BY <1>1, <1>2, <1>3, CommittedRun
<1>5. PICK c, k : c = rest \o b /\ k = <<OnHandle("drop", h, {})>>
  OBVIOUS
<1>6. PICK q : q = app \o (todo \o (k \o c))
  OBVIOUS
<1>7. /\ q \in Seq(Frame) /\ k \in Seq(Frame) /\ todo \in Seq(Frame)
      /\ app \in Seq(Frame) /\ c \in Seq(Frame)
      /\ Calm(q, d + 1, [hs EXCEPT ![h] = Held(r)], told)
      /\ N(q, "committed") = N(c, "committed")
  BY <1>3, <1>5, <1>6, HoldOn
<1>8. (app \o (((todo \o k) \o rest) \o Bracket)) \o Below = q
  <2>1. PICK m, n : m = Bracket /\ n = Below
    OBVIOUS
  <2>2. (app \o (((todo \o k) \o rest) \o m)) \o n
          = app \o (todo \o (k \o (rest \o (m \o n))))
    <3>1. Stacks(app, todo, k, rest, m, n)
      BY <2>1, <1>1, <1>3, <1>7 DEF Stacks
    <3>2. AsPut(app, todo, k, rest, m, n) = InTurn(app, todo, k, rest, m, n)
      BY <3>1, Regroup
    <3> QED
      BY <3>2 DEF AsPut, InTurn
  <2> QED
    BY <2>1, <2>2, <1>2, <1>5, <1>6
<1>9. /\ es \in [Slots -> StreamType] /\ streams' \in Nat
      /\ freed' \in BOOLEAN /\ (freed' <=> (refs = 0 /\ d + 1 = 0))
      /\ commitDepth' = commitDepth /\ told' = told /\ late' = late
      /\ hs \in [Slots -> HandleType]
  <2>1. /\ refs \in Nat /\ cbDepth \in Nat /\ hs \in [Slots -> HandleType]
    BY Numbers
  <2>2. d + 1 > 0
    BY <1>1, <1>2, <2>1
  <2> QED
    BY <2>1, <2>2 DEF IInv, Types
<1>10. es' \in [Slots -> StreamType] /\ SameLinks
  BY <1>9, OneFollows
<1>11. \A i \in Slots : /\ hs'[i].alive = hs[i].alive
                        /\ hs'[i].es = hs[i].es /\ hs'[i].app = hs[i].app
  <2>1. /\ Held(r).alive = hs[h].alive /\ Held(r).es = hs[h].es
        /\ Held(r).app = hs[h].app
    BY DEF Held, SameHandle, HandleType
  <2> QED
    BY <2>1, <1>9
<1>12. Linked'
  BY <1>9, <1>10, <1>11, Links
<1>13. PICK H, T, i : H = [hs EXCEPT ![h] = Held(r)] /\ T = told /\ i = d + 1
  OBVIOUS
<1>14. Calm(q, i, H, T) /\ agenda' = q /\ hs' = H /\ told' = T
       /\ cbDepth' = i /\ commitDepth' = N(q, "committed")
       /\ (freed' <=> (refs = 0 /\ i = 0))
  BY <1>2, <1>4, <1>5, <1>7, <1>8, <1>9, <1>13
<1> QED
  BY <1>9, <1>10, <1>12, <1>14, Onward

(* Up to two calls are a stack.                                            *)
LEMMA RunStack ==
    ASSUME NEW s \in Runs
    PROVE  s \in Seq(Frame)
<1>1. CASE s = <<>>
  BY <1>1
<1>2. ASSUME NEW f \in Frame, s = <<f>> PROVE s \in Seq(Frame)
  BY <1>2
<1>3. ASSUME NEW f \in Frame, NEW g \in Frame, s = <<f, g>>
      PROVE  s \in Seq(Frame)
  BY <1>3
<1> QED
  BY <1>1, <1>2, <1>3 DEF Runs

(* Two calls that nothing is counted for are a run.                        *)
LEMMA PairStack ==
    ASSUME NEW f \in Frame, NEW g \in Frame
    PROVE  /\ <<f, g>> = <<f>> \o <<g>>
           /\ <<f>> \in Seq(Frame) /\ <<g>> \in Seq(Frame)
<1>1. /\ <<f>> \o <<g>> \in Seq(Frame) /\ Len(<<f>> \o <<g>>) = 2
      /\ (<<f>> \o <<g>>)[1] = f /\ (<<f>> \o <<g>>)[2] = g
  OBVIOUS
<1>2. \A i \in 1..2 : (<<f>> \o <<g>>)[i] = <<f, g>>[i]
  BY <1>1
<1>3. /\ <<f, g>> \in Seq(Frame) /\ Len(<<f, g>>) = 2
      /\ <<f>> \in Seq(Frame) /\ <<g>> \in Seq(Frame)
  OBVIOUS
<1> QED
  BY <1>1, <1>2, <1>3, SeqEqual

(* Who may deliver is there to return to.                                  *)
LEMMA MayDeliver ==
    ASSUME IInv, BackendMay \/ At("resume") \/ MayUse
           \/ \E h \in Slots : MayUseStream(h)
    PROVE  Ongoing /\ ~freed
<1>1. CASE agenda /= <<>>
  <2>1. ~freed
    BY <1>1, Gone
  <2> QED
    BY <2>1, <1>1 DEF BackendMay, MayUse, MayUseStream, InApp, Idle, At,
                      Ongoing
<1>2. CASE agenda = <<>>
  <2>1. hs \in [Slots -> HandleType]
    BY Numbers
  <2>2. \A h \in Slots : hs[h].app \in Nat
    BY <2>1 DEF HandleType
  <2>3. backend \/ appRefs > 0 \/ \E h \in Slots : Usable(h)
    BY <1>2 DEF BackendMay, MayUse, MayUseStream, InApp, At
  <2>4. ~freed
    BY <2>2, <2>3, Gone DEF Usable
  <2> QED
    BY <2>4, <1>2 DEF Ongoing
<1> QED
  BY <1>1, <1>2

(* An adapter for a stream's callback.                                     *)
LEMMA AdaptStep ==
    ASSUME IInv, ~freed, Ongoing, ~closed, NEW e \in Slots,
           es[e].kind = "WT", NEW ne, Follows(ne, es[e]), NEW r,
           es[e].user /= None => SameHandle(r, hs[es[e].user]),
           NEW todo, es[e].user /= None => todo \in Settles(es[e].user),
           NEW rest \in Runs, Adapt(e, ne, r, todo, rest)
    PROVE  IInv'
<1>1. Quiet /\ UNCHANGED <<freed, commitDepth, streams, told>>
      /\ es' = [es EXCEPT ![e] = ne]
  BY DEF Adapt, Quiet, flags, engine
<1>2. CASE es[e].user = None
  <2>1. /\ agenda' = (rest \o Bracket) \o Below
        /\ cbDepth' = cbDepth + Depth /\ hs' = hs /\ late' = late
    BY <1>2 DEF Adapt, Deliver
  <2> QED
    BY <1>1, <2>1, InputAlone
<1>3. CASE es[e].user /= None
  <2>1. PICK h : h = es[e].user
    OBVIOUS
  <2>2. h \in Slots /\ told[h] = "given" /\ hs[h].alive /\ outcome = "none"
    BY <1>3, <2>1, NotLate
  <2>3. PICK app : app = IF Len((todo \o <<OnHandle("drop", h, {})>> \o rest
                                \o Bracket) \o Below) + 1 < MaxDepth
                         THEN <<App>> ELSE <<>>
    OBVIOUS
  <2>4. app \in Runs
    BY <2>3, Calls
  <2>5. agenda' = (app \o (((todo \o <<OnHandle("drop", h, {})>>) \o rest)
                              \o Bracket)) \o Below
    BY <1>3, <2>1, <2>3 DEF Adapt, AppDeliver, AppFirst
  <2>6. /\ cbDepth' = cbDepth + Depth + 1
        /\ hs' = [hs EXCEPT ![h] = Held(r)]
        /\ late' = late
    <3>1. late' = (late \/ told[h] /= "given" \/ outcome /= "none")
      BY <1>3, <2>1 DEF Adapt
    <3>2. late' = late
      BY <3>1, <2>2 DEF IInv
    <3> QED
      BY <3>2, <1>3, <2>1 DEF Adapt
  <2>7. SameHandle(r, hs[h]) /\ todo \in Settles(h)
    BY <1>3, <2>1
  <2> QED
    BY <1>1, <2>2, <2>4, <2>5, <2>6, <2>7, InputHeld
<1> QED
  BY <1>2, <1>3

(* The adapter that has no callback but on_stream_closed.                  *)
LEMMA AdaptTerminalStep ==
    ASSUME IInv, ~freed, Ongoing, ~closed, NEW e \in Slots,
           es[e].kind = "WT", NEW ne, Follows(ne, es[e]),
           NEW rest \in Runs, AdaptTerminal(e, ne, rest)
    PROVE  IInv'
<1>1. Quiet /\ UNCHANGED <<freed, commitDepth, streams, told, late>>
      /\ es' = [es EXCEPT ![e] = ne]
  BY DEF AdaptTerminal, Quiet, flags, engine, history
<1>2. CASE es[e].user = None
  <2>1. /\ agenda' = (rest \o Bracket) \o Below
        /\ cbDepth' = cbDepth + Depth /\ hs' = hs
    BY <1>2 DEF AdaptTerminal, Deliver
  <2> QED
    BY <1>1, <2>1, InputAlone
<1>3. CASE es[e].user /= None
  <2>1. PICK h : h = es[e].user
    OBVIOUS
  <2>2. h \in Slots /\ told[h] = "given" /\ hs[h].alive
    BY <1>3, <2>1, NotLate
  <2>3. hs \in [Slots -> HandleType]
    BY Numbers
  <2>4. PICK r : r = hs[h]
    OBVIOUS
  <2>5. SameHandle(r, hs[h]) /\ hs' = [hs EXCEPT ![h] = Held(r)]
    BY <1>3, <2>1, <2>2, <2>3, <2>4 DEF AdaptTerminal, SameHandle, HandleType
  <2>6. PICK todo, k : /\ todo = <<OnHandle("settle", h, Halves)>>
                       /\ k = <<OnHandle("drop", h, {})>>
    OBVIOUS
  <2>7. todo \in Settles(h)
    BY <2>6 DEF Settles, Halves, Marks
  <2>8. /\ <<OnHandle("settle", h, Halves), OnHandle("drop", h, {})>>
             = todo \o k
        /\ Bracket \in Seq(Frame) /\ rest \in Seq(Frame)
        /\ todo \in Seq(Frame) /\ k \in Seq(Frame)
    <3>1. Bracket \in Seq(Frame)
      BY Bracketed DEF Ongoing
    <3>2. rest \in Seq(Frame)
      BY RunStack
    <3>3. PICK f \in Frame, g \in Frame :
            f = OnHandle("settle", h, Halves) /\ g = OnHandle("drop", h, {})
      <4>1. Halves \in SUBSET (Slots \cup Marks)
            /\ {} \in SUBSET (Slots \cup Marks)
        BY DEF Halves, Marks
      <4>2. OnHandle("settle", h, Halves) \in Frame
            /\ OnHandle("drop", h, {}) \in Frame
        BY <4>1, <2>2, <2>3, HandleCall DEF HandleOps
      <4> QED
        BY <4>2
    <3>4. /\ <<f, g>> = <<f>> \o <<g>>
          /\ <<f>> \in Seq(Frame) /\ <<g>> \in Seq(Frame)
      BY PairStack
    <3> QED
      BY <3>1, <3>2, <3>3, <3>4, <2>6
  <2>9. agenda' = (<<>> \o (((todo \o <<OnHandle("drop", h, {})>>) \o rest)
                              \o Bracket)) \o Below
    <3>1. agenda' = (((todo \o k) \o rest) \o Bracket) \o Below
      BY <1>3, <2>1, <2>8 DEF AdaptTerminal, Deliver
    <3>2. todo \o k \in Seq(Frame)
      BY <2>8, Closed
    <3>3. (todo \o k) \o rest \in Seq(Frame)
      BY <3>2, <2>8, Closed
    <3>4. ((todo \o k) \o rest) \o Bracket \in Seq(Frame)
      BY <3>3, <2>8, Closed
    <3>5. <<>> \o (((todo \o k) \o rest) \o Bracket)
            = ((todo \o k) \o rest) \o Bracket
      BY <3>4, ConcatEmptySeq
    <3> QED
      BY <3>1, <3>5, <2>6
  <2>10. cbDepth' = cbDepth + Depth + 1
    BY <1>3 DEF AdaptTerminal
  <2>11. <<>> \in Runs
    BY Calls
  <2> QED
    BY <1>1, <2>2, <2>5, <2>7, <2>9, <2>10, <2>11, InputHeld
<1> QED
  BY <1>2, <1>3

-----------------------------------------------------------------------------
(* The inputs, and the operations on streams.                              *)

(* Only engine streams change.                                             *)
LEMMA StreamsOnly ==
    ASSUME IInv, es' \in [Slots -> StreamType], SameLinks,
           UNCHANGED <<admission, count, flags, engine, hs, streams, agenda,
                       history>>
    PROVE  IInv'
<1>1. /\ Quiet
      /\ UNCHANGED <<cbDepth, freed, commitDepth, hs, streams, agenda,
                     told, late>>
  BY DEF Quiet, count, flags, engine, history
<1>2. Accounts(agenda, cbDepth, hs, told)'
  <2>1. PICK q, d, H, T : q = agenda /\ d = cbDepth /\ H = hs /\ T = told
    OBVIOUS
  <2>2. Accounts(q, d, H, T)
    BY <2>1 DEF IInv
  <2>3. agenda' = q /\ cbDepth' = d /\ hs' = H /\ told' = T
    BY <2>1, <1>1
  <2> QED
    BY <2>2, <2>3, <1>1, Same
<1>3. Linked'
  BY <1>1, Links
<1>4. Types'
  BY <1>1 DEF IInv, Types, Quiet
<1>5. (commitDepth = N(agenda, "committed"))'
  BY <1>1 DEF IInv, N
<1>6. (freed <=> refs = 0 /\ cbDepth = 0)' /\ (late = FALSE)'
  BY <1>1 DEF IInv, Quiet
<1> QED
  BY <1>2, <1>3, <1>4, <1>5, <1>6 DEF IInv

(* The calls of the inputs.                                                *)
LEMMA InputCalls ==
    ASSUME IInv, NEW e \in Slots, NEW x \in SUBSET Marks
    PROVE  /\ <<OnStream("engine", e, x)>> \in Runs /\ <<>> \in Runs
           /\ OnStream("engine", e, x) \in Frame
           /\ OnStream("resume", e, x) \in Frame
           /\ <<OnStream("engine", e, x), OnStream("resume", e, {})>> \in Runs
           /\ es[e].user /= None =>
                /\ ThenSettle(e, x) \in Settles(es[e].user)
                /\ <<>> \in Settles(es[e].user)
                /\ SameHandle(User(e), hs[es[e].user])
                /\ \A y : SameHandle(ShutHandle(User(e), y), hs[es[e].user])
<1>1. es \in [Slots -> StreamType] /\ hs \in [Slots -> HandleType]
  BY Numbers DEF IInv, Types
<1>2. x \in SUBSET (Slots \cup Marks) /\ {} \in SUBSET (Slots \cup Marks)
  OBVIOUS
<1>3. /\ OnStream("engine", e, x) \in Frame
      /\ OnStream("engine", e, x).op \in NeutralOps
      /\ OnStream("resume", e, x) \in Frame
      /\ OnStream("resume", e, {}) \in Frame
      /\ OnStream("resume", e, {}).op \in NeutralOps
  BY <1>1, <1>2, StreamCall DEF StreamOps
<1>4. /\ <<OnStream("engine", e, x)>> \in Runs /\ <<>> \in Runs
      /\ <<OnStream("engine", e, x), OnStream("resume", e, {})>> \in Runs
  BY <1>3 DEF Runs
<1>5. ASSUME es[e].user /= None
      PROVE  /\ ThenSettle(e, x) \in Settles(es[e].user)
             /\ <<>> \in Settles(es[e].user)
  BY <1>5 DEF ThenSettle, Settles
<1>6. ASSUME es[e].user /= None, NEW y
      PROVE  /\ SameHandle(User(e), hs[es[e].user])
             /\ SameHandle(ShutHandle(User(e), y), hs[es[e].user])
  <2>1. PICK r : r = hs[es[e].user]
    OBVIOUS
  <2>2. es[e].user \in Slots
    BY <1>1, <1>6 DEF StreamType
  <2>3. r \in HandleType /\ User(e) = r
    BY <2>1, <2>2, <1>1, <1>6 DEF User
  <2>4. SameHandle(r, r)
    BY <2>3 DEF SameHandle
  <2>5. PICK a, b, c \in BOOLEAN :
          /\ a = (r.send /\ "send" \notin y) /\ b = (r.fin /\ "send" \notin y)
          /\ c = (r.recv /\ "recv" \notin y)
    OBVIOUS
  <2>6. ShutHandle(r, y) = [r EXCEPT !.send = a, !.fin = b, !.recv = c]
    BY <2>3, <2>5 DEF ShutHandle, HandleType
  <2>7. SameHandle([r EXCEPT !.send = a, !.fin = b, !.recv = c], r)
    BY <2>3, ZenonT(60) DEF SameHandle, HandleType
  <2> QED
    BY <2>1, <2>3, <2>4, <2>6, <2>7
<1> QED
  BY <1>3, <1>4, <1>5, <1>6

(* What an open stream may become.                                         *)
LEMMA Becomes ==
    ASSUME IInv, NEW e \in Slots
    PROVE  /\ Follows(es[e], es[e])
           /\ Follows([es[e] EXCEPT !.drain = FALSE], es[e])
           /\ Follows(Kept([es[e] EXCEPT !.drain = FALSE]), es[e])
           /\ Follows([es[e] EXCEPT !.resident = FALSE], es[e])
           /\ Follows([es[e] EXCEPT !.commit = TRUE], es[e])
           /\ Follows([es[e] EXCEPT !.recv = FALSE], es[e])
           /\ Follows([es[e] EXCEPT !.fin = FALSE, !.send = FALSE], es[e])
           /\ \A x : Follows(ShutStream(es[e], x), es[e])
<1>1. es[e] \in StreamType
  BY DEF IInv, Types
<1> QED
  BY <1>1, StreamFollows, KeptFollows

(* Data, or the end of it.                                                 *)
LEMMA StreamDataStep ==
    ASSUME IInv, NEW e \in Slots, NEW fin \in BOOLEAN, OnStreamData(e, fin)
    PROVE  IInv'
<1>1. /\ Ongoing /\ ~freed /\ ~closed /\ es[e].kind = "WT"
      /\ Follows(es[e], es[e])
  BY MayDeliver, Becomes DEF OnStreamData, Open
<1>2. PICK todo, rest : /\ todo = IF fin THEN ThenSettle(e, {"recv"}) ELSE <<>>
                        /\ rest = IF fin THEN <<OnStream("engine", e, {"fin"})>>
                                  ELSE <<>>
  OBVIOUS
<1>3. /\ rest \in Runs
      /\ es[e].user /= None => /\ SameHandle(User(e), hs[es[e].user])
                               /\ todo \in Settles(es[e].user)
  <2>1. {"recv"} \in SUBSET Marks /\ {"fin"} \in SUBSET Marks
    BY DEF Marks
  <2> QED
    BY <1>2, <2>1, InputCalls
<1>4. Adapt(e, es[e], User(e), todo, rest)
  BY <1>2 DEF OnStreamData
<1> QED
  BY <1>1, <1>3, <1>4, AdaptStep

(* A reset by the peer.                                                    *)
LEMMA StreamResetStep ==
    ASSUME IInv, NEW e \in Slots, OnStreamReset(e)
    PROVE  IInv'
<1>1. /\ Ongoing /\ ~freed /\ ~closed /\ es[e].kind = "WT"
      /\ Follows([es[e] EXCEPT !.recv = FALSE], es[e])
  BY MayDeliver, Becomes DEF OnStreamReset, Open
<1>2. PICK todo, rest : /\ todo = ThenSettle(e, {"recv"})
                        /\ rest = <<OnStream("engine", e, {"done"})>>
  OBVIOUS
<1>3. /\ rest \in Runs
      /\ es[e].user /= None => /\ SameHandle(User(e), hs[es[e].user])
                               /\ todo \in Settles(es[e].user)
  <2>1. {"recv"} \in SUBSET Marks /\ {"done"} \in SUBSET Marks
    BY DEF Marks
  <2> QED
    BY <1>2, <2>1, InputCalls
<1>4. Adapt(e, [es[e] EXCEPT !.recv = FALSE], User(e), todo, rest)
  BY <1>2 DEF OnStreamReset
<1> QED
  BY <1>1, <1>3, <1>4, AdaptStep

(* STOP_SENDING.                                                           *)
LEMMA StopSendingStep ==
    ASSUME IInv, NEW e \in Slots, OnStopSending(e)
    PROVE  IInv'
<1>1. PICK x, y, todo, rest :
        /\ x = IF es[e].commit THEN {"send"} ELSE {}
        /\ y = IF User(e).commit THEN {"send"} ELSE {}
        /\ todo = IF User(e).commit THEN ThenSettle(e, {}) ELSE <<>>
        /\ rest = IF es[e].commit THEN <<OnStream("engine", e, {})>> ELSE <<>>
  OBVIOUS
<1>2. /\ Ongoing /\ ~freed /\ ~closed /\ es[e].kind = "WT"
      /\ Follows(ShutStream(es[e], x), es[e])
  BY MayDeliver, Becomes DEF OnStopSending, Open
<1>3. /\ rest \in Runs
      /\ es[e].user /= None =>
           /\ SameHandle(ShutHandle(User(e), y), hs[es[e].user])
           /\ todo \in Settles(es[e].user)
  BY <1>1, InputCalls
<1>4. Adapt(e, ShutStream(es[e], x), ShutHandle(User(e), y), todo, rest)
  BY <1>1 DEF OnStopSending
<1> QED
  BY <1>2, <1>3, <1>4, AdaptStep

(* The stream takes data again.                                            *)
LEMMA StreamWritableStep ==
    ASSUME IInv, NEW e \in Slots, OnStreamWritable(e)
    PROVE  IInv'
<1>1. /\ Ongoing /\ ~freed /\ ~closed /\ es[e].kind = "WT"
      /\ Follows(es[e], es[e])
  BY MayDeliver, Becomes DEF OnStreamWritable, Open
<1>2. PICK todo, rest : todo = <<>> /\ rest = <<>>
  OBVIOUS
<1>3. /\ rest \in Runs
      /\ es[e].user /= None => /\ SameHandle(User(e), hs[es[e].user])
                               /\ todo \in Settles(es[e].user)
  BY <1>2, InputCalls
<1>4. Adapt(e, es[e], User(e), todo, rest)
  BY <1>2 DEF OnStreamWritable
<1> QED
  BY <1>1, <1>3, <1>4, AdaptStep

(* The native stream is over.                                              *)
LEMMA StreamTerminalStep ==
    ASSUME IInv, NEW e \in Slots, OnStreamTerminal(e)
    PROVE  IInv'
<1>1. Ongoing /\ ~freed /\ ~closed /\ es[e].kind = "WT"
  BY MayDeliver DEF OnStreamTerminal, Open
<1>2. PICK over : over = [es[e] EXCEPT !.send = FALSE, !.fin = FALSE,
                                       !.recv = FALSE, !.drain = FALSE]
  OBVIOUS
<1>3. es \in [Slots -> StreamType]
  BY DEF IInv, Types
<1>4. Follows(over, es[e]) /\ Follows(Released(over), es[e])
  <2>1. es[e] \in StreamType
    BY <1>3
  <2>2. Follows(over, es[e])
    BY <1>2, <2>1, StreamFollows
  <2>3. Follows(Released(over), over)
    BY <2>2, StreamFollows DEF Follows
  <2> QED
    BY <2>2, <2>3 DEF Follows
<1>5. CASE AdaptTerminal(e, over, <<OnStream("engine", e, {"free"})>>)
  <2>1. <<OnStream("engine", e, {"free"})>> \in Runs
    BY InputCalls DEF Marks
  <2> QED
    BY <1>1, <1>4, <1>5, <2>1, AdaptTerminalStep
<1>6. CASE /\ es' = [es EXCEPT ![e] = Released(over)]
           /\ UNCHANGED <<admission, count, flags, engine, hs, streams,
                          agenda, history>>
  <2>1. es' \in [Slots -> StreamType] /\ SameLinks
    BY <1>3, <1>4, <1>6, OneFollows
  <2> QED
    BY <1>6, <2>1, StreamsOnly
<1> QED
  BY <1>2, <1>5, <1>6 DEF OnStreamTerminal

(* A drained half ends.                                                    *)
LEMMA DrainedStep ==
    ASSUME IInv, NEW e \in Slots, OnDrained(e)
    PROVE  IInv'
<1>1. es' = [es EXCEPT ![e] = Kept([es[e] EXCEPT !.drain = FALSE])]
  BY DEF OnDrained
<1>2. es \in [Slots -> StreamType]
  BY DEF IInv, Types
<1>3. es' \in [Slots -> StreamType] /\ SameLinks
  BY <1>1, <1>2, Becomes, OneFollows
<1> QED
  BY <1>3, StreamsOnly DEF OnDrained

(* A finished native stream gives its slot back.                           *)
LEMMA RetireStep ==
    ASSUME IInv, NEW e \in Slots, Retire(e)
    PROVE  IInv'
<1>1. es' = [es EXCEPT ![e] = [es[e] EXCEPT !.resident = FALSE]]
  BY DEF Retire
<1>2. es \in [Slots -> StreamType]
  BY DEF IInv, Types
<1>3. es' \in [Slots -> StreamType] /\ SameLinks
  BY <1>1, <1>2, Becomes, OneFollows
<1> QED
  BY <1>3, StreamsOnly DEF Retire

(* wtq_stream_resume_receive.                                              *)
LEMMA ResumeStep ==
    ASSUME IInv, NEW h \in Slots, Resume(h)
    PROVE  IInv'
<1>1. PICK e : e = Stream(h)
  OBVIOUS
<1>2. Ongoing /\ ~freed /\ ~closed /\ es[e].kind = "WT"
  BY <1>1, MayDeliver DEF Resume, Open
<1>3. e \in Slots
  <2>1. hs[h].alive /\ Usable(h)
    BY DEF Resume, MayUseStream
  <2>2. hs \in [Slots -> HandleType] /\ Linked
    BY Numbers DEF IInv
  <2>3. hs[h].es \in Slots \cup {None} /\ hs[h].app \in Nat
    BY <2>2 DEF HandleType
  <2> QED
    BY <2>1, <2>2, <2>3, <1>1 DEF Linked, Usable, Stream
<1>4. CASE Adapt(e, es[e], User(e), ThenSettle(e, {"recv"}),
                 <<OnStream("engine", e, {"fin"}), OnStream("resume", e, {})>>)
  <2>1. PICK todo, rest :
          /\ todo = ThenSettle(e, {"recv"})
          /\ rest = <<OnStream("engine", e, {"fin"}), OnStream("resume", e, {})>>
    OBVIOUS
  <2>2. /\ rest \in Runs
        /\ es[e].user /= None => /\ SameHandle(User(e), hs[es[e].user])
                                 /\ todo \in Settles(es[e].user)
    <3>1. {"recv"} \in SUBSET Marks /\ {"fin"} \in SUBSET Marks
      BY DEF Marks
    <3> QED
      BY <2>1, <3>1, <1>3, InputCalls
  <2>3. Follows(es[e], es[e])
    BY <1>3, Becomes
  <2> QED
    BY <1>2, <1>3, <1>4, <2>1, <2>2, <2>3, AdaptStep
<1>5. CASE /\ Enter(<<OnStream("resume", e, {}), Exit>>)
           /\ cbDepth' = cbDepth + 1
           /\ UNCHANGED <<admission, refs, freed, backend, appRefs, flags,
                          engine, hs, es, streams, history>>
  <2>1. PICK f \in Frame : f = OnStream("resume", e, {})
    BY <1>3, InputCalls
  <2>2. f.op = "resume"
    BY <2>1 DEF OnStream
  <2>3. /\ Calm(agenda, cbDepth, hs, told) /\ agenda \in Seq(Frame)
        /\ N(agenda, "committed") = commitDepth /\ cbDepth \in Nat
    BY <1>2, RestCalm, OnTop, Numbers DEF Ongoing, IInv
  <2>4. PICK b, d, H, T : /\ b = Put(Exit, agenda) /\ d = cbDepth + 1
                          /\ H = hs /\ T = told
    OBVIOUS
  <2>5. Exit \in Frame /\ Exit.op = "exit"
    BY Calls
  <2>6. Calm(b, d, H, T) /\ b \in Seq(Frame) /\ b /= <<>>
        /\ N(b, "committed") = commitDepth
    <3>1. Ready(b, d, H, T) /\ Ending(b)
      BY <2>3, <2>4, <2>5, ExitCall DEF Calm
    <3>2. b \in Seq(Frame) /\ b /= <<>>
      BY <2>3, <2>4, <2>5, PutWaiting
    <3>3. N(b, "committed") = commitDepth
      BY <2>3, <2>4, <2>5, Committed
    <3> QED
      BY <3>1, <3>2, <3>3 DEF Calm
  <2>7. PICK q : q = Put(f, b)
    OBVIOUS
  <2>8. Calm(q, d, H, T) /\ N(q, "committed") = commitDepth
    <3>1. Ready(q, d, H, T) /\ Ending(q)
      BY <2>2, <2>6, <2>7, NeutralCall DEF NeutralOps, Calm
    <3>2. N(q, "committed") = commitDepth
      BY <2>2, <2>6, <2>7, Committed
    <3> QED
      BY <3>1, <3>2 DEF Calm
  <2>9. agenda' = q
    <3>1. agenda' = <<f, Exit>> \o agenda
      BY <2>1, <1>5 DEF Enter
    <3> QED
      BY <3>1, <2>3, <2>4, <2>5, <2>7, PutTwo
  <2>10. /\ Quiet /\ cbDepth' = d /\ hs' = H /\ told' = T /\ late' = late
         /\ freed' = freed /\ commitDepth' = commitDepth
         /\ streams' = streams /\ es' = es
    BY <1>5, <2>4 DEF Quiet, flags, engine, history
  <2>11. /\ freed' \in BOOLEAN /\ (freed' <=> (refs = 0 /\ d = 0))
         /\ streams' \in Nat /\ es' \in [Slots -> StreamType]
    BY <1>2, <2>3, <2>4, <2>10 DEF IInv, Types
  <2>12. Linked'
    <3>1. SameLinks
      BY <2>10 DEF SameLinks
    <3> QED
      BY <3>1, <2>4, <2>10, Links
  <2>13. commitDepth' = N(q, "committed")
    BY <2>8, <2>10
  <2> QED
    BY <2>8, <2>9, <2>10, <2>11, <2>12, <2>13, Onward
<1> QED
  BY <1>1, <1>4, <1>5 DEF Resume

(* The stack that an operation of the application starts from.             *)
LEMMA OnThis ==
    ASSUME IInv, ~freed, Ongoing
    PROVE  /\ Calm(agenda, cbDepth, hs, told) /\ agenda \in Seq(Frame)
           /\ N(agenda, "committed") = commitDepth /\ cbDepth \in Nat
           /\ hs \in [Slots -> HandleType] /\ es \in [Slots -> StreamType]
           /\ told \in ToldType
BY RestCalm, OnTop, Numbers DEF Ongoing, IInv, Types

(* A bracket comes, and a call that nothing is counted for, or a           *)
(* connection error, above it or below it.                                 *)
LEMMA ExitOn ==
    ASSUME NEW q, NEW d, NEW H, NEW T, Calm(q, d, H, T)
    PROVE  /\ Calm(Put(Exit, q), d + 1, H, T) /\ Put(Exit, q) /= <<>>
           /\ Put(Exit, q) \in Seq(Frame)
           /\ N(Put(Exit, q), "committed") = N(q, "committed")
<1>1. Exit \in Frame /\ Exit.op = "exit"
  BY Calls
<1>2. q \in Seq(Frame) /\ Ready(q, d, H, T) /\ Ending(q)
  BY DEF Calm, Ready, Books, Handles
<1>3. Ready(Put(Exit, q), d + 1, H, T) /\ Ending(Put(Exit, q))
  BY <1>1, <1>2, ExitCall
<1>4. /\ Put(Exit, q) /= <<>> /\ Put(Exit, q) \in Seq(Frame)
      /\ N(Put(Exit, q), "committed") = N(q, "committed")
  BY <1>1, <1>2, PutWaiting, Committed
<1> QED
  BY <1>3, <1>4 DEF Calm

(* A call comes that nothing is counted for, or a connection error.        *)
LEMMA NeutralOn ==
    ASSUME NEW q, NEW d, NEW H, NEW T, Calm(q, d, H, T), q /= <<>>,
           NEW f \in Frame, f.op \in NeutralOps \cup {"conn_fatal"}
    PROVE  /\ Calm(Put(f, q), d, H, T) /\ Put(f, q) /= <<>>
           /\ Put(f, q) \in Seq(Frame)
           /\ N(Put(f, q), "committed") = N(q, "committed")
<1>1. q \in Seq(Frame) /\ Ready(q, d, H, T) /\ Ending(q)
  BY DEF Calm, Ready, Books, Handles
<1>2. Ready(Put(f, q), d, H, T) /\ Ending(Put(f, q))
  BY <1>1, NeutralCall
<1>3. f.op /= "committed"
  BY DEF NeutralOps
<1>4. /\ Put(f, q) /= <<>> /\ Put(f, q) \in Seq(Frame)
      /\ N(Put(f, q), "committed") = N(q, "committed")
  BY <1>1, <1>3, PutWaiting, Committed
<1> QED
  BY <1>2, <1>4 DEF Calm

(* An operation on a stream handle, which it holds.                        *)
LEMMA OperateStep ==
    ASSUME IInv, ~freed, Ongoing, NEW h \in Slots, hs[h].alive,
           hs[h].app > 0 \/ told[h] /= "none", NEW f \in Frame,
           f.op \in NeutralOps \cup {"conn_fatal"},
           NEW todo \in Settles(h), Operate(h, <<f>> \o todo)
    PROVE  IInv'
<1>1. /\ Calm(agenda, cbDepth, hs, told) /\ agenda \in Seq(Frame)
      /\ N(agenda, "committed") = commitDepth /\ cbDepth \in Nat
      /\ hs \in [Slots -> HandleType] /\ es \in [Slots -> StreamType]
  BY OnThis
<1>2. PICK r : r = hs[h]
  OBVIOUS
<1>3. SameHandle(r, hs[h])
  BY <1>1, <1>2 DEF SameHandle
<1>4. PICK k : k = <<OnHandle("drop", h, {})>>
  OBVIOUS
<1>5. PICK q0 : q0 = <<>> \o (todo \o (k \o agenda))
  OBVIOUS
<1>6. PICK d, H : d = cbDepth + 1 /\ H = [hs EXCEPT ![h] = Held(r)]
  OBVIOUS
<1>7. /\ q0 \in Seq(Frame) /\ k \in Seq(Frame) /\ todo \in Seq(Frame)
      /\ Calm(q0, d, H, told) /\ N(q0, "committed") = commitDepth
  <2>1. <<>> \in Runs
    BY Calls
  <2> QED
    BY <1>1, <1>3, <1>4, <1>5, <1>6, <2>1, HoldOn
<1>8. q0 = todo \o (k \o agenda) /\ q0 /= <<>>
  <2>1. k \o agenda \in Seq(Frame)
    BY <1>1, <1>7, Closed
  <2>2. todo \o (k \o agenda) \in Seq(Frame)
    BY <2>1, <1>7, Closed
  <2>3. q0 = todo \o (k \o agenda)
    BY <2>2, <1>5, ConcatEmptySeq
  <2>4. Len(k \o agenda) = 1 + Len(agenda) /\ Len(agenda) \in Nat
    <3>1. Len(k) = 1
      BY <1>4
    <3>2. Len(k \o agenda) = Len(k) + Len(agenda)
      BY <1>1, <1>7, ConcatProperties
    <3>3. Len(agenda) \in Nat
      BY <1>1
    <3> QED
      BY <3>1, <3>2, <3>3
  <2>5. Len(q0) = Len(todo) + Len(k \o agenda) /\ Len(todo) \in Nat
    BY <2>1, <2>3, <1>7, ConcatProperties
  <2>6. Len(q0) > 0
    BY <2>4, <2>5
  <2> QED
    BY <2>3, <2>6, <1>7, EmptySeq
<1>9. PICK q1 : q1 = Put(f, q0)
  OBVIOUS
<1>10. /\ Calm(q1, d, H, told) /\ N(q1, "committed") = commitDepth
       /\ q1 \in Seq(Frame)
  BY <1>7, <1>8, <1>9, NeutralOn
<1>11. PICK q2, d2 : q2 = Put(Exit, q1) /\ d2 = d + 1
  OBVIOUS
<1>12. /\ Calm(q2, d2, H, told) /\ N(q2, "committed") = commitDepth
       /\ q2 /= <<>> /\ q2 \in Seq(Frame)
  BY <1>10, <1>11, ExitOn
<1>13. PICK app : app = IF Len(((<<Exit>> \o (<<f>> \o todo)) \o k) \o agenda)
                              + 1 < MaxDepth
                        THEN <<App>> ELSE <<>>
  OBVIOUS
<1>14. app \in Runs
  BY <1>13, Calls
<1>15. PICK q : q = app \o q2
  OBVIOUS
<1>16. /\ Calm(q, d2, H, told) /\ N(q, "committed") = commitDepth
  BY <1>12, <1>14, <1>15, NeutralRun, CommittedRun
<1>17. agenda' = q
  <2>1. agenda' = (app \o ((<<Exit>> \o (<<f>> \o todo)) \o k)) \o agenda
    BY <1>4, <1>13 DEF Operate, AppEnter, AppFirst
  <2>2. PICK x, y, z : x = <<Exit>> /\ y = <<f>> /\ z = agenda
    OBVIOUS
  <2>3. /\ x \in Seq(Frame) /\ y \in Seq(Frame) /\ z \in Seq(Frame)
        /\ app \in Seq(Frame)
    <3>1. Exit \in Frame
      BY Calls
    <3>2. x \in Seq(Frame)
      BY <3>1, <2>2
    <3>3. y \in Seq(Frame)
      BY <2>2
    <3> QED
      BY <3>2, <3>3, <2>2, <1>1, <1>14, RunStack
  <2>4. x \o (y \o todo) = (x \o y) \o todo
    <3>1. PICK t : t = todo
      OBVIOUS
    <3>2. t \in Seq(Frame)
      BY <3>1, <1>7
    <3>3. x \o (y \o t) = (x \o y) \o t
      BY <3>2, <2>3, Assoc, SMTT(60)
    <3> QED
      BY <3>1, <3>3
  <2>5. agenda' = AsPut(app, x, y, todo, k, z)
    BY <2>1, <2>2, <2>4 DEF AsPut
  <2>6. Stacks(app, x, y, todo, k, z)
    BY <2>3, <1>7 DEF Stacks
  <2>7. agenda' = InTurn(app, x, y, todo, k, z)
    BY <2>5, <2>6, Regroup
  <2>8. InTurn(app, x, y, todo, k, z)
          = app \o (x \o (y \o (todo \o (k \o z))))
    BY DEF InTurn
  <2>9. y \o (todo \o (k \o z)) = q1
    BY <2>2, <1>8, <1>9 DEF Put
  <2>10. x \o q1 = q2
    BY <2>2, <1>11 DEF Put
  <2> QED
    BY <2>7, <2>8, <2>9, <2>10, <1>15
<1>18. /\ Quiet /\ cbDepth' = d2 /\ hs' = H /\ told' = told /\ late' = late
       /\ freed' = freed /\ commitDepth' = commitDepth
       /\ streams' = streams /\ es' = es
  <2>1. /\ UNCHANGED <<admission, refs, freed, backend, appRefs, flags,
                       engine, es, streams, history>>
        /\ cbDepth' = cbDepth + 2
        /\ hs' = [hs EXCEPT ![h] = Held(hs[h])]
    BY DEF Operate
  <2>2. cbDepth' = d2
    BY <2>1, <1>1, <1>6, <1>11
  <2>3. hs' = H
    BY <2>1, <1>2, <1>6
  <2> QED
    BY <2>1, <2>2, <2>3 DEF Quiet, flags, engine, history
<1>19. /\ freed' \in BOOLEAN /\ (freed' <=> (refs = 0 /\ d2 = 0))
       /\ streams' \in Nat /\ es' \in [Slots -> StreamType]
  <2>1. d2 > 0
    BY <1>1, <1>6, <1>11
  <2> QED
    BY <2>1, <1>18 DEF IInv, Types
<1>20. Linked'
  <2>1. SameLinks
    BY <1>18 DEF SameLinks
  <2>2. \A i \in Slots : /\ hs'[i].alive = hs[i].alive
                         /\ hs'[i].es = hs[i].es /\ hs'[i].app = hs[i].app
    <3>1. /\ Held(r).alive = hs[h].alive /\ Held(r).es = hs[h].es
          /\ Held(r).app = hs[h].app
      BY <1>3 DEF Held, SameHandle, HandleType
    <3> QED
      BY <3>1, <1>1, <1>6, <1>18
  <2> QED
    BY <2>1, <2>2, <1>18, Links
<1>21. PICK T : T = told
  OBVIOUS
<1>22. Calm(q, d2, H, T) /\ told' = T /\ commitDepth' = N(q, "committed")
  BY <1>16, <1>18, <1>21
<1> QED
  BY <1>17, <1>18, <1>19, <1>20, <1>22, Onward

(* wtq_stream_send.                                                        *)
LEMMA StreamSendStep ==
    ASSUME IInv, NEW h \in Slots, NEW fin \in BOOLEAN, StreamSend(h, fin)
    PROVE  IInv'
<1>1. PICK e : e = Stream(h)
  OBVIOUS
<1>2. /\ Ongoing /\ ~freed /\ hs[h].alive /\ hs[h].es = e
      /\ hs[h].app > 0 \/ told[h] /= "none"
  BY <1>1, MayDeliver DEF StreamSend, MayUseStream, Usable, Stream
<1>3. e \in Slots
  <2>1. hs \in [Slots -> HandleType] /\ Linked
    BY Numbers DEF IInv
  <2>2. hs[h].es \in Slots \cup {None} /\ hs[h].app \in Nat
    BY <2>1 DEF HandleType
  <2> QED
    BY <1>2, <2>1, <2>2 DEF Linked
<1>4. hs \in [Slots -> HandleType]
  BY Numbers
<1>5. CASE fin
  <2>1. PICK f, g : /\ f = OnStream("engine", e, {"last"})
                    /\ g = OnHandle("settle", h, {"last"})
    OBVIOUS
  <2>2. f \in Frame /\ f.op \in NeutralOps /\ g \in Frame
    <3>1. {"last"} \in SUBSET Marks /\ {"last"} \in SUBSET (Slots \cup Marks)
      BY DEF Marks
    <3>2. f \in Frame /\ f.op \in NeutralOps
      BY <3>1, <2>1, <1>3, InputCalls DEF OnStream, NeutralOps
    <3> QED
      BY <3>1, <3>2, <2>1, <1>4, HandleCall DEF HandleOps
  <2>3. <<f, g>> = <<f>> \o <<g>>
    BY <2>2, PairStack
  <2>4. <<g>> \in Settles(h)
    BY <2>1 DEF Settles, Marks
  <2>5. Operate(h, <<f, g>>)
    BY <1>1, <1>5, <2>1 DEF StreamSend
  <2>6. Operate(h, <<f>> \o <<g>>)
    BY <2>3, <2>5
  <2> QED
    BY <1>2, <2>2, <2>4, <2>6, OperateStep
<1>6. CASE ~fin
  <2>1. PICK f : f = OnStream("engine", e, {"sent"})
    OBVIOUS
  <2>2. f \in Frame /\ f.op \in NeutralOps
    <3>1. {"sent"} \in SUBSET Marks
      BY DEF Marks
    <3> QED
      BY <3>1, <2>1, <1>3, InputCalls DEF OnStream, NeutralOps
  <2>3. <<f>> \o <<>> = <<f>>
    <3>1. <<f>> \in Seq(Frame)
      BY <2>2
    <3> QED
      BY <3>1, ConcatEmptySeq
  <2>4. <<>> \in Settles(h)
    BY DEF Settles
  <2>5. Operate(h, <<f>>)
    BY <1>1, <1>6, <2>1 DEF StreamSend
  <2>6. Operate(h, <<f>> \o <<>>)
    BY <2>3, <2>5
  <2> QED
    BY <1>2, <2>2, <2>4, <2>6, OperateStep
<1> QED
  BY <1>5, <1>6

(* wtq_stream_reset, wtq_stream_stop_sending and wtq_stream_abort.         *)
LEMMA StreamShutStep ==
    ASSUME IInv, NEW h \in Slots, NEW x \in SUBSET Halves, StreamShut(h, x)
    PROVE  IInv'
<1>1. PICK e : e = Stream(h)
  OBVIOUS
<1>2. /\ Ongoing /\ ~freed /\ hs[h].alive /\ hs[h].es = e
      /\ hs[h].app > 0 \/ told[h] /= "none"
  BY <1>1, MayDeliver DEF StreamShut, MayUseStream, Usable, Stream
<1>3. e \in Slots
  <2>1. hs \in [Slots -> HandleType] /\ Linked
    BY Numbers DEF IInv
  <2>2. hs[h].es \in Slots \cup {None} /\ hs[h].app \in Nat
    BY <2>1 DEF HandleType
  <2> QED
    BY <1>2, <2>1, <2>2 DEF Linked
<1>4. hs \in [Slots -> HandleType]
  BY Numbers
<1>5. PICK y : y = {"shut"} \cup (x \cap Live(e))
  OBVIOUS
<1>6. PICK f, g : /\ f = OnStream("engine", e, y)
                  /\ g = OnHandle("settle", h, x)
  OBVIOUS
<1>7. CASE Operate(h, <<f, g>>)
  <2>1. f \in Frame /\ f.op \in NeutralOps /\ g \in Frame
    <3>1. y \in SUBSET Marks /\ x \in SUBSET (Slots \cup Marks)
      BY <1>5 DEF Marks, Halves
    <3>2. f \in Frame /\ f.op \in NeutralOps
      BY <3>1, <1>6, <1>3, InputCalls DEF OnStream, NeutralOps
    <3> QED
      BY <3>1, <3>2, <1>4, <1>6, HandleCall DEF HandleOps
  <2>2. <<f, g>> = <<f>> \o <<g>>
    BY <2>1, PairStack
  <2>3. <<g>> \in Settles(h)
    BY <1>6 DEF Settles, Marks, Halves
  <2>4. Operate(h, <<f>> \o <<g>>)
    BY <1>7, <2>2
  <2> QED
    BY <1>2, <2>1, <2>3, <2>4, OperateStep
<1>8. CASE Operate(h, <<Call("conn_fatal")>>)
  <2>1. PICK k \in Frame : k = Call("conn_fatal") /\ k.op = "conn_fatal"
    BY Calls DEF PlainOps
  <2>2. <<k>> \o <<>> = <<k>>
    <3>1. <<k>> \in Seq(Frame)
      OBVIOUS
    <3> QED
      BY <3>1, ConcatEmptySeq
  <2>3. <<>> \in Settles(h)
    BY DEF Settles
  <2>4. Operate(h, <<k>> \o <<>>)
    BY <1>8, <2>1, <2>2
  <2> QED
    BY <1>2, <2>1, <2>3, <2>4, OperateStep
<1> QED
  BY <1>1, <1>5, <1>6, <1>7, <1>8 DEF StreamShut

(* wtq_stream_enable_send_commit.                                          *)
LEMMA EnableCommitStep ==
    ASSUME IInv, NEW h \in Slots, EnableSendCommit(h)
    PROVE  IInv'
<1>1. /\ Quiet
      /\ UNCHANGED <<cbDepth, freed, commitDepth, streams, agenda, told, late>>
  BY DEF EnableSendCommit, Quiet, count, flags, engine, history
<1>2. Ongoing /\ ~freed
  BY MayDeliver DEF EnableSendCommit
<1>3. /\ Calm(agenda, cbDepth, hs, told) /\ agenda \in Seq(Frame)
      /\ N(agenda, "committed") = commitDepth /\ cbDepth \in Nat
      /\ hs \in [Slots -> HandleType] /\ es \in [Slots -> StreamType]
  BY <1>2, OnThis
<1>4. PICK r : r = [hs[h] EXCEPT !.commit = TRUE]
  OBVIOUS
<1>5. SameHandle(r, hs[h]) /\ hs' = [hs EXCEPT ![h] = r]
  BY <1>3, <1>4 DEF SameHandle, HandleType, EnableSendCommit
<1>6. PICK H : H = [hs EXCEPT ![h] = r]
  OBVIOUS
<1>7. Handles(agenda, H, told) /\ Tokens(H) = Tokens(hs)
  <2>1. Handles(agenda, hs, told)
    BY <1>3 DEF Calm, Ready, Books
  <2>2. /\ H \in [Slots -> HandleType]
        /\ \A k \in Slots : /\ H[k].refs = hs[k].refs /\ H[k].app = hs[k].app
                            /\ H[k].alive = hs[k].alive
                            /\ H[k].gen = hs[k].gen
    BY <1>3, <1>5, <1>6 DEF SameHandle
  <2>3. \A k \in Slots : HandleSound(agenda, H, told, k)
    BY <2>1, <2>2 DEF Handles, HandleSound
  <2>4. \A f \in Waiting(agenda) : Relies(H, told, f)
    <3> SUFFICES ASSUME NEW f \in Waiting(agenda) PROVE Relies(H, told, f)
      OBVIOUS
    <3>1. Relies(hs, told, f) /\ f \in Frame
      BY <2>1 DEF Handles, Waiting
    <3>2. f.op \in HandleOps => f.at \in Slots
      BY <3>1 DEF Frame
    <3> QED
      BY <2>2, <3>1, <3>2 DEF Relies, Reserved
  <2>5. Tokens(H) = Tokens(hs)
    BY <2>2 DEF Tokens
  <2> QED
    BY <2>1, <2>2, <2>3, <2>4, <2>5 DEF Handles
<1>8. Calm(agenda, cbDepth, H, told)
  <2>1. \A k \in Slots : H[k].alive = hs[k].alive
    BY <1>3, <1>5, <1>6 DEF SameHandle
  <2> QED
    BY <2>1, <1>3, <1>7 DEF Calm, Ready, Books, Counted, Telling
<1>9. Linked'
  <2>1. \A e \in Slots : es'[e].kind = es[e].kind /\ es'[e].user = es[e].user
    <3>1. PICK s : s = Stream(h)
      OBVIOUS
    <3>2. es' = [es EXCEPT ![s].commit = TRUE]
      BY <3>1 DEF EnableSendCommit
    <3> QED
      BY <3>2, <1>3 DEF StreamType
  <2>2. SameLinks
    BY <2>1 DEF SameLinks
  <2>3. \A i \in Slots : /\ hs'[i].alive = hs[i].alive
                         /\ hs'[i].es = hs[i].es /\ hs'[i].app = hs[i].app
    BY <1>3, <1>5 DEF SameHandle
  <2> QED
    BY <2>2, <2>3, <1>1, Links
<1>10. es' \in [Slots -> StreamType]
  <2>1. PICK s : s = Stream(h)
    OBVIOUS
  <2>2. es' = [es EXCEPT ![s] = [es[s] EXCEPT !.commit = TRUE]]
    BY <2>1 DEF EnableSendCommit
  <2>3. s \in Slots => [es[s] EXCEPT !.commit = TRUE] \in StreamType
    BY Becomes DEF Follows
  <2> QED
    BY <2>2, <2>3, <1>3
<1>11. /\ freed' \in BOOLEAN /\ (freed' <=> (refs = 0 /\ cbDepth = 0))
       /\ streams' \in Nat
  BY <1>1 DEF IInv, Types
<1>12. PICK q, d, T : q = agenda /\ d = cbDepth /\ T = told
  OBVIOUS
<1>13. /\ Calm(q, d, H, T) /\ agenda' = q /\ cbDepth' = d /\ hs' = H
       /\ told' = T /\ commitDepth' = N(q, "committed") /\ late' = late
       /\ (freed' <=> (refs = 0 /\ d = 0))
  BY <1>1, <1>3, <1>5, <1>6, <1>8, <1>11, <1>12
<1> QED
  BY <1>1, <1>9, <1>10, <1>11, <1>13, Onward

-----------------------------------------------------------------------------
(* The session's inputs, and the ends of its operations.                   *)

(* Calls come; the handles stay as they are.                               *)
LEMMA Proceeds ==
    ASSUME IInv, ~freed, Quiet, NEW q, NEW d \in Nat, d > 0,
           Calm(q, d, hs, told), N(q, "committed") = commitDepth,
           agenda' = q, cbDepth' = d,
           UNCHANGED <<freed, commitDepth, hs, told, streams, late>>,
           es' \in [Slots -> StreamType], SameLinks
    PROVE  IInv'
<1>1. Linked'
  BY Links
<1>2. /\ freed' \in BOOLEAN /\ (freed' <=> (refs = 0 /\ d = 0))
      /\ streams' \in Nat
  BY DEF IInv, Types
<1>3. PICK H, T : H = hs /\ T = told
  OBVIOUS
<1>4. /\ Calm(q, d, H, T) /\ hs' = H /\ told' = T
      /\ commitDepth' = N(q, "committed") /\ late' = late
  BY <1>3
<1> QED
  BY <1>1, <1>2, <1>4, Onward

(* The application may call back, in front of the calls.                   *)
LEMMA AppOn ==
    ASSUME NEW calls \in Seq(Frame), NEW q \in Seq(Frame), NEW d, NEW H, NEW T,
           Calm(calls \o q, d, H, T), calls \o q /= <<>>,
           NEW p, p = ((IF Len(calls \o q) + 1 < MaxDepth THEN <<App>>
                                                          ELSE <<>>)
                       \o calls) \o q
    PROVE  /\ Calm(p, d, H, T)
           /\ N(p, "committed") = N(calls \o q, "committed")
<1>1. PICK app : app = IF Len(calls \o q) + 1 < MaxDepth THEN <<App>>
                                                         ELSE <<>>
  OBVIOUS
<1>2. app \in Runs
  BY <1>1, Calls
<1>3. PICK b : b = calls \o q
  OBVIOUS
<1>4. b \in Seq(Frame)
  BY <1>3, Closed
<1>5. p = app \o b
  <2>1. app \in Seq(Frame)
    BY <1>2, RunStack
  <2>2. (app \o calls) \o q = app \o (calls \o q)
    BY <2>1, Assoc
  <2> QED
    BY <2>2, <1>1, <1>3
<1>6. Calm(app \o b, d, H, T)
  BY <1>2, <1>3, NeutralRun
<1>7. N(app \o b, "committed") = N(b, "committed")
  BY <1>2, <1>4, CommittedRun
<1> QED
  BY <1>3, <1>5, <1>6, <1>7

(* adapt_draining, adapt_send_complete, adapt_datagram.                    *)
LEMMA NotifyStep ==
    ASSUME IInv, Notify
    PROVE  IInv'
<1>1. Ongoing /\ ~freed
  BY MayDeliver DEF Notify, BackendMay
<1>2. /\ Calm(agenda, cbDepth, hs, told) /\ agenda \in Seq(Frame)
      /\ N(agenda, "committed") = commitDepth /\ cbDepth \in Nat
      /\ es \in [Slots -> StreamType]
  BY <1>1, OnThis
<1>3. PICK d, c : d = cbDepth + 1 /\ c = <<Exit>>
  OBVIOUS
<1>4. /\ c \in Seq(Frame) /\ c \o agenda = Put(Exit, agenda)
      /\ d \in Nat /\ d > 0
  BY <1>2, <1>3, Calls DEF Put
<1>5. /\ Calm(c \o agenda, d, hs, told) /\ c \o agenda /= <<>>
      /\ N(c \o agenda, "committed") = commitDepth
  BY <1>2, <1>3, <1>4, ExitOn
<1>6. PICK p : p = ((IF Len(c \o agenda) + 1 < MaxDepth THEN <<App>>
                                                        ELSE <<>>)
                    \o c) \o agenda
  OBVIOUS
<1>7. Calm(p, d, hs, told) /\ N(p, "committed") = commitDepth
  BY <1>2, <1>4, <1>5, <1>6, AppOn, ZenonT(60)
<1>8. /\ agenda' = p /\ cbDepth' = d /\ Quiet
      /\ UNCHANGED <<freed, commitDepth, hs, told, streams, late, es>>
  BY <1>3, <1>6 DEF Notify, AppEnter, AppFirst, Quiet, flags, engine, history
<1>9. SameLinks
  BY <1>8 DEF SameLinks
<1> QED
  BY <1>1, <1>2, <1>4, <1>7, <1>8, <1>9, Proceeds

(* The session is refused.                                                 *)
LEMMA FailedOn ==
    ASSUME NEW q, NEW d, NEW H, NEW T, Calm(q, d, H, T), q /= <<>>,
           NEW f \in Frame, f.op = "session_failed", sess = "none"
    PROVE  /\ Calm(Put(f, q), d, H, T) /\ Put(f, q) /= <<>>
           /\ Put(f, q) \in Seq(Frame)
           /\ N(Put(f, q), "committed") = N(q, "committed")
<1>1. q \in Seq(Frame) /\ Ready(q, d, H, T) /\ Ending(q)
  BY DEF Calm, Ready, Books, Handles
<1>2. Plain(f) /\ f.op \notin BracketOps \cup Tells
  BY DEF Plain, HandleOps, OpenOps, BracketOps, Tells
<1>3. Ready(Put(f, q), d, H, T) /\ Put(f, q) /= <<>>
  BY <1>1, <1>2, PlainReady
<1>4. N(Put(f, q), "committed") = N(q, "committed") /\ Put(f, q) \in Seq(Frame)
  BY <1>1, Committed, PutWaiting
<1>5. Ending(Put(f, q))
  <2>1. /\ \A op : N(Put(f, q), op) = N(q, op) + Bit(f.op = op)
        /\ \A op : N(q, op) \in Nat
    BY <1>1, PutFacts
  <2> HIDE DEF Put
  <2>2. /\ N(Put(f, q), "on_session_closed") = N(q, "on_session_closed")
        /\ N(Put(f, q), "on_conn_error") = N(q, "on_conn_error")
        /\ N(Put(f, q), "streams_teardown") = N(q, "streams_teardown")
        /\ N(Put(f, q), "tell_closed") = N(q, "tell_closed")
        /\ N(Put(f, q), "tell_failed") = N(q, "tell_failed")
        /\ N(Put(f, q), "committed") = N(q, "committed")
        /\ N(Put(f, q), "commit_end") = N(q, "commit_end")
        /\ N(Put(f, q), "backend_release") = N(q, "backend_release")
        /\ N(Put(f, q), "open_rest") = N(q, "open_rest")
        /\ N(Put(f, q), "conn_fatal") = N(q, "conn_fatal")
    BY <2>1 DEF Bit
  <2> QED
    BY <2>2, <1>1 DEF Ending
<1> QED
  BY <1>3, <1>4, <1>5 DEF Calm

(* A call comes with a bracket of its own.                                 *)
LEMMA InBracket ==
    ASSUME IInv, ~freed, Ongoing, NEW f \in Frame,
           \/ f.op \in NeutralOps \cup {"conn_fatal"}
           \/ f.op = "session_failed" /\ sess = "none",
           Enter(<<f, Exit>>), cbDepth' = cbDepth + 1,
           UNCHANGED <<admission, refs, freed, backend, appRefs, flags,
                       engine, hs, es, streams, history>>
    PROVE  IInv'
<1>1. /\ Calm(agenda, cbDepth, hs, told) /\ agenda \in Seq(Frame)
      /\ N(agenda, "committed") = commitDepth /\ cbDepth \in Nat
      /\ es \in [Slots -> StreamType]
  BY OnThis
<1>2. PICK d, b : d = cbDepth + 1 /\ b = Put(Exit, agenda)
  OBVIOUS
<1>3. /\ Calm(b, d, hs, told) /\ b /= <<>> /\ b \in Seq(Frame)
      /\ N(b, "committed") = commitDepth
  BY <1>1, <1>2, ExitOn
<1>4. PICK q : q = Put(f, b)
  OBVIOUS
<1>5. Calm(q, d, hs, told) /\ N(q, "committed") = commitDepth
  BY <1>3, <1>4, NeutralOn, FailedOn
<1>6. agenda' = q
  <2>1. agenda' = <<f, Exit>> \o agenda
    BY DEF Enter
  <2>2. Exit \in Frame
    BY Calls
  <2> QED
    BY <2>1, <2>2, <1>1, <1>2, <1>4, PutTwo
<1>7. /\ cbDepth' = d /\ Quiet /\ d \in Nat /\ d > 0
      /\ UNCHANGED <<freed, commitDepth, hs, told, streams, late, es>>
  BY <1>1, <1>2 DEF Quiet, flags, engine, history
<1>8. SameLinks
  BY <1>7 DEF SameLinks
<1> QED
  BY <1>1, <1>5, <1>6, <1>7, <1>8, Proceeds

(* A delivery that ends the session.                                       *)
LEMMA EndingInputStep ==
    ASSUME IInv, NEW op, EndingInput(op),
           \/ op \in {"session_closed", "conn_fatal"}
           \/ op = "session_failed" /\ sess = "none"
    PROVE  IInv'
<1>1. Ongoing /\ ~freed
  BY MayDeliver DEF EndingInput, BackendMay
<1>2. PICK f \in Frame : f = Call(op) /\ f.op = op
  BY Calls DEF PlainOps
<1>3. \/ f.op \in NeutralOps \cup {"conn_fatal"}
      \/ f.op = "session_failed" /\ sess = "none"
  BY <1>2 DEF NeutralOps
<1> QED
  BY <1>1, <1>2, <1>3, InBracket DEF EndingInput

(* wtq_session_close.                                                      *)
LEMMA SessionCloseStep ==
    ASSUME IInv, SessionClose
    PROVE  IInv'
<1>1. Ongoing /\ ~freed
  BY MayDeliver DEF SessionClose
<1>2. PICK op \in {"session_closed", "conn_fatal"} : Enter(<<Call(op), Exit>>)
  BY DEF SessionClose
<1>3. PICK f \in Frame : f = Call(op) /\ f.op = op
  BY Calls DEF PlainOps
<1>4. f.op \in NeutralOps \cup {"conn_fatal"}
  BY <1>3 DEF NeutralOps
<1> QED
  BY <1>1, <1>2, <1>3, <1>4, InBracket DEF SessionClose

(* The backend's last event.                                               *)
LEMMA BackendQuitsStep ==
    ASSUME IInv, BackendQuits
    PROVE  IInv'
<1>1. Ongoing /\ ~freed /\ agenda = <<>> /\ backend
  BY MayDeliver DEF BackendQuits, BackendMay, Idle
<1>2. /\ Calm(agenda, cbDepth, hs, told) /\ agenda \in Seq(Frame)
      /\ N(agenda, "committed") = commitDepth /\ cbDepth \in Nat
      /\ es \in [Slots -> StreamType]
  BY <1>1, OnThis
<1>3. PICK d, b : d = cbDepth + 1 /\ b = Put(Exit, agenda)
  OBVIOUS
<1>4. /\ Calm(b, d, hs, told) /\ b /= <<>> /\ b \in Seq(Frame)
      /\ N(b, "committed") = commitDepth
  BY <1>2, <1>3, ExitOn
<1>5. Exit \in Frame /\ Exit.op = "exit"
  BY Calls
<1>6. \A g \in Waiting(b) : g.op = "exit"
  <2>1. Waiting(b) = {Exit} \cup Waiting(agenda)
    BY <1>2, <1>3, <1>5, PutWaiting
  <2>2. Waiting(agenda) = {}
    BY <1>1, AtRest
  <2> QED
    BY <2>1, <2>2, <1>5
<1>7. PICK f \in Frame, k \in Frame :
        /\ f = Call("conn_fatal") /\ f.op = "conn_fatal"
        /\ k = Call("backend_release") /\ k.op = "backend_release"
  BY Calls DEF PlainOps
<1>8. PICK p : p = Put(k, b)
  OBVIOUS
<1>9. /\ Ready(p, d, hs, told) /\ p /= <<>> /\ p \in Seq(Frame)
      /\ N(p, "committed") = commitDepth
  <2>1. Plain(k) /\ k.op \notin BracketOps \cup Tells
    BY <1>7 DEF Plain, HandleOps, OpenOps, BracketOps, Tells
  <2>2. Ready(p, d, hs, told) /\ p /= <<>>
    BY <2>1, <1>4, <1>6, <1>8, PlainReady DEF Calm
  <2>3. N(p, "committed") = N(b, "committed") /\ p \in Seq(Frame)
    BY <1>4, <1>7, <1>8, Committed, PutWaiting
  <2> QED
    BY <2>2, <2>3, <1>4
<1>10. PICK q : q = Put(f, p)
  OBVIOUS
<1>11. /\ Ready(q, d, hs, told) /\ N(q, "committed") = commitDepth
  BY <1>7, <1>9, <1>10, NeutralCall, Committed
<1>12. Ending(q)
  <2>1. /\ \A op : N(q, op) = N(p, op) + Bit(f.op = op)
        /\ \A op : N(p, op) = N(b, op) + Bit(k.op = op)
        /\ \A op : N(b, op) \in Nat
    BY <1>4, <1>8, <1>9, <1>10, PutFacts
  <2>2. /\ N(q, "on_session_closed") = N(b, "on_session_closed")
        /\ N(q, "on_conn_error") = N(b, "on_conn_error")
        /\ N(q, "session_failed") = N(b, "session_failed")
        /\ N(q, "streams_teardown") = N(b, "streams_teardown")
        /\ N(q, "tell_closed") = N(b, "tell_closed")
        /\ N(q, "tell_failed") = N(b, "tell_failed")
        /\ N(q, "committed") = N(b, "committed")
        /\ N(q, "commit_end") = N(b, "commit_end")
        /\ N(q, "open_rest") = N(b, "open_rest")
    BY <2>1, <1>7 DEF Bit
  <2>3. N(q, "conn_fatal") > 0
    BY <2>1, <1>7 DEF Bit
  <2>4. Ending(b)
    BY <1>4 DEF Calm
  <2> QED
    BY <2>2, <2>3, <2>4, <1>1 DEF Ending
<1>13. agenda' = q
  <2>1. agenda' = <<f, k, Exit>> \o agenda
    BY <1>7 DEF BackendQuits, Enter
  <2> QED
    BY <2>1, <1>2, <1>3, <1>5, <1>8, <1>10, PutThree
<1>14. /\ cbDepth' = d /\ Quiet /\ d \in Nat /\ d > 0
       /\ UNCHANGED <<freed, commitDepth, hs, told, streams, late, es>>
  BY <1>2, <1>3 DEF BackendQuits, Quiet, flags, engine, history
<1>15. SameLinks
  BY <1>14 DEF SameLinks
<1>16. Calm(q, d, hs, told)
  BY <1>11, <1>12 DEF Calm
<1> QED
  BY <1>1, <1>2, <1>11, <1>13, <1>14, <1>15, <1>16, Proceeds

(* session_exit.                                                           *)
LEMMA Leaves ==
    ASSUME IInv, ~freed, Leave
    PROVE  /\ freed' \in BOOLEAN /\ cbDepth' = cbDepth - 1
           /\ freed' <=> (refs = 0 /\ cbDepth - 1 = 0)
<1>1. cbDepth \in Nat
  BY Numbers
<1>2. cbDepth' = cbDepth - 1 /\ freed' = (freed \/ (cbDepth = 1 /\ refs = 0))
  BY DEF Leave
<1>3. freed' \in BOOLEAN /\ (freed' <=> (cbDepth = 1 /\ refs = 0))
  BY <1>2
<1>4. cbDepth = 1 <=> cbDepth - 1 = 0
  BY <1>1
<1> QED
  BY <1>2, <1>3, <1>4

(* session_exit.                                                           *)
LEMMA SessionExitStep ==
    ASSUME IInv, SessionExit
    PROVE  IInv'
<1>1. agenda /= <<>> /\ Head(agenda).op = "exit"
  BY DEF SessionExit, At
<1>2. /\ Head(agenda) \in Frame /\ Tail(agenda) \in Seq(Frame)
      /\ agenda = Put(Head(agenda), Tail(agenda)) /\ ~freed
  BY <1>1, OnTop
<1>3. PICK f \in Frame, q \in Seq(Frame) :
        f = Head(agenda) /\ q = Tail(agenda)
  BY <1>2
<1>4. agenda = Put(f, q) /\ f.op = "exit"
  BY <1>1, <1>2, <1>3
<1>5. Calm(q, cbDepth - 1, hs, told)
  BY <1>3, <1>4, ExitCall DEF IInv
<1>6. N(q, "committed") = commitDepth
  BY <1>3, <1>4, Committed DEF IInv
<1>7. agenda' = q
  BY <1>1, <1>3, ThenNone DEF SessionExit
<1>8. /\ freed' \in BOOLEAN /\ cbDepth' = cbDepth - 1
      /\ freed' <=> (refs = 0 /\ cbDepth - 1 = 0)
  BY <1>2, Leaves DEF SessionExit
<1>9. /\ Quiet /\ UNCHANGED <<commitDepth, hs, told, streams, late, es>>
  BY DEF SessionExit, Quiet, flags, engine, history
<1>10. es' \in [Slots -> StreamType] /\ SameLinks /\ streams' \in Nat
  BY <1>9 DEF SameLinks, IInv, Types
<1>11. Linked'
  BY <1>9, <1>10, Links
<1>12. PICK d, H, T : d = cbDepth - 1 /\ H = hs /\ T = told
  OBVIOUS
<1>13. /\ Calm(q, d, H, T) /\ cbDepth' = d /\ hs' = H /\ told' = T
       /\ commitDepth' = N(q, "committed") /\ late' = late
       /\ (freed' <=> (refs = 0 /\ d = 0))
  BY <1>5, <1>6, <1>8, <1>9, <1>12
<1> QED
  BY <1>7, <1>8, <1>9, <1>10, <1>11, <1>13, Onward

(* A call that nothing is counted for is on top.                           *)
LEMMA NeutralTop ==
    ASSUME IInv, agenda /= <<>>, Head(agenda).op \in NeutralOps
    PROVE  /\ Head(agenda) \in Frame /\ Tail(agenda) \in Seq(Frame)
           /\ Calm(Tail(agenda), cbDepth, hs, told) /\ Tail(agenda) /= <<>>
           /\ N(Tail(agenda), "committed") = commitDepth
           /\ ~freed /\ cbDepth \in Nat /\ cbDepth > 0
           /\ es \in [Slots -> StreamType]
<1>1. /\ Head(agenda) \in Frame /\ Tail(agenda) \in Seq(Frame)
      /\ agenda = Put(Head(agenda), Tail(agenda)) /\ ~freed
  BY OnTop
<1>2. PICK f \in Frame, q \in Seq(Frame) : f = Head(agenda) /\ q = Tail(agenda)
  BY <1>1
<1>3. agenda = Put(f, q) /\ f.op \in NeutralOps
  BY <1>1, <1>2
<1>4. Calm(q, cbDepth, hs, told) /\ q /= <<>>
  BY <1>3, NeutralCall DEF IInv
<1>5. N(q, "committed") = commitDepth
  BY <1>2, <1>3, Committed DEF IInv, NeutralOps
<1>6. cbDepth \in Nat /\ cbDepth > 0 /\ es \in [Slots -> StreamType]
  <2>1. cbDepth \in Nat /\ cbDepth /= 0
    BY Numbers
  <2> QED
    BY <2>1 DEF IInv, Types
<1> QED
  BY <1>1, <1>2, <1>4, <1>5, <1>6

(* What is left of a call's slots.                                         *)
LEMMA NextSlots ==
    ASSUME NEW f \in Frame, f.op \in SlotSetOps, NEW S, S \subseteq f.x
    PROVE  /\ [f EXCEPT !.x = S] \in Frame /\ [f EXCEPT !.x = S].op = f.op
           /\ [f EXCEPT !.x = S].x = S /\ f.x \subseteq Slots
           /\ [f EXCEPT !.x = S].at = f.at
<1>1. f.x \subseteq Slots
  BY DEF Frame
<1>2. S \in SUBSET (Slots \cup Marks) /\ S \subseteq Slots
  BY <1>1
<1>3. [f EXCEPT !.x = S] \in Frame
  BY <1>2 DEF Frame
<1>4. /\ [f EXCEPT !.x = S].op = f.op /\ [f EXCEPT !.x = S].x = S
      /\ [f EXCEPT !.x = S].at = f.at
  BY DEF Frame
<1> QED
  BY <1>1, <1>3, <1>4

(* session_closed's loop over the engine's streams.                        *)
LEMMA EngineTeardownStep ==
    ASSUME IInv, EngineTeardown
    PROVE  IInv'
<1>1. agenda /= <<>> /\ Head(agenda).op = "engine_teardown"
  BY DEF EngineTeardown, At
<1>2. /\ Head(agenda) \in Frame /\ Tail(agenda) \in Seq(Frame)
      /\ Calm(Tail(agenda), cbDepth, hs, told) /\ Tail(agenda) /= <<>>
      /\ N(Tail(agenda), "committed") = commitDepth
      /\ ~freed /\ cbDepth \in Nat /\ cbDepth > 0
      /\ es \in [Slots -> StreamType]
  BY <1>1, NeutralTop DEF NeutralOps
<1>3. PICK f \in Frame, q \in Seq(Frame) : f = Head(agenda) /\ q = Tail(agenda)
  BY <1>2
<1>4. /\ Calm(q, cbDepth, hs, told) /\ q /= <<>>
      /\ N(q, "committed") = commitDepth
      /\ f.op = "engine_teardown" /\ f = This
  BY <1>1, <1>2, <1>3 DEF This
<1>5. PICK todo : todo = {e \in f.x : es[e].kind = "WT"}
  OBVIOUS
<1>6. PICK e : e = First(todo)
  OBVIOUS
<1>7. PICK next, torn : /\ next = [f EXCEPT !.x = todo \ {e}]
                        /\ torn = OnStream("engine_torn", e, {})
  OBVIOUS
<1>8. todo \subseteq f.x /\ todo \subseteq Slots /\ next \in Frame
      /\ next.op = "engine_teardown"
  <2>1. f.op \in SlotSetOps /\ todo \subseteq f.x /\ todo \ {e} \subseteq f.x
    BY <1>4, <1>5 DEF SlotSetOps
  <2>2. next \in Frame /\ next.op = f.op /\ f.x \subseteq Slots
    BY <2>1, <1>7, NextSlots
  <2> QED
    BY <2>1, <2>2, <1>4
<1>9. next.op \in NeutralOps /\ next.op /= "conn_fatal"
  BY <1>8 DEF NeutralOps
<1>10. todo /= {} => e \in Slots /\ torn \in Frame /\ torn.op \in NeutralOps
  <2> SUFFICES ASSUME todo /= {}
               PROVE  e \in Slots /\ torn \in Frame /\ torn.op \in NeutralOps
    OBVIOUS
  <2>1. e \in Slots
    BY <1>6, <1>8, FirstIn
  <2>2. {} \in SUBSET (Slots \cup Marks)
    OBVIOUS
  <2> QED
    BY <2>1, <2>2, <1>2, <1>7, StreamCall DEF StreamOps
<1>11. PICK p : p = Put(next, q)
  OBVIOUS
<1>12. /\ Calm(p, cbDepth, hs, told) /\ p /= <<>> /\ p \in Seq(Frame)
       /\ N(p, "committed") = commitDepth
  BY <1>4, <1>8, <1>9, <1>11, NeutralOn
<1>13. /\ Quiet
       /\ UNCHANGED <<freed, commitDepth, hs, told, streams, late>>
  BY DEF EngineTeardown, Quiet, flags, engine, history
<1>14. ASSUME NEW S \in SUBSET Slots,
              es' = [i \in Slots |-> IF i \in S THEN Torn(es[i]) ELSE es[i]]
       PROVE  es' \in [Slots -> StreamType] /\ SameLinks
  <2>1. \A i \in Slots : es[i] \in StreamType
    BY <1>2
  <2>2. \A i \in Slots : Follows(es'[i], es[i])
    BY <2>1, <1>14, TornFollows, StreamFollows
  <2>3. \A i \in Slots : /\ es'[i] \in StreamType /\ es'[i].user = es[i].user
                         /\ (es'[i].kind = "WT" => es[i].kind = "WT")
    BY <2>2 DEF Follows
  <2>4. SameLinks
    BY <2>3 DEF SameLinks
  <2>5. es' \in [Slots -> StreamType]
    <3>1. es' = [i \in Slots |-> es'[i]]
      BY <1>14
    <3> QED
      BY <2>3, <3>1
  <2> QED
    BY <2>4, <2>5
<1>15. CASE /\ es' = [i \in Slots |-> IF i \in todo THEN Torn(es[i])
                                                    ELSE es[i]]
            /\ Then(<<>>) /\ UNCHANGED cbDepth
  <2>1. agenda' = q
    BY <1>1, <1>3, <1>15, ThenNone
  <2>2. es' \in [Slots -> StreamType] /\ SameLinks
    BY <1>8, <1>14, <1>15
  <2> QED
    BY <2>1, <2>2, <1>2, <1>4, <1>13, <1>15, Proceeds
<1>16. CASE /\ todo /= {} /\ es' = [es EXCEPT ![e] = Torn(es[e])]
            /\ Then(<<next>>) /\ UNCHANGED cbDepth
  <2>1. agenda' = p
    BY <1>3, <1>11, <1>16 DEF Then, Put
  <2>2. e \in Slots => Follows(Torn(es[e]), es[e])
    BY <1>2, TornFollows
  <2>3. es' \in [Slots -> StreamType] /\ SameLinks
    BY <2>2, <1>2, <1>16, OneFollows
  <2> QED
    BY <2>1, <2>3, <1>2, <1>12, <1>13, <1>16, Proceeds
<1>17. CASE /\ todo /= {} /\ AppThen(<<Exit, torn, next>>)
            /\ cbDepth' = cbDepth + 1 /\ UNCHANGED es
  <2>1. PICK d, b : d = cbDepth + 1 /\ b = Put(torn, p)
    OBVIOUS
  <2>2. /\ Calm(b, cbDepth, hs, told) /\ b /= <<>> /\ b \in Seq(Frame)
        /\ N(b, "committed") = commitDepth
    BY <2>1, <1>10, <1>12, <1>17, NeutralOn
  <2>3. PICK c, r : c = <<Exit, torn, next>> /\ r = Put(Exit, b)
    OBVIOUS
  <2>4. /\ Calm(r, d, hs, told) /\ r /= <<>> /\ r \in Seq(Frame)
        /\ N(r, "committed") = commitDepth
    BY <2>1, <2>2, <2>3, ExitOn
  <2>5. c \in Seq(Frame) /\ c \o q = r
    <3>1. Exit \in Frame /\ torn \in Frame /\ next \in Frame
      BY <1>8, <1>10, <1>17, Calls
    <3>2. c \in Seq(Frame)
      BY <2>3, <3>1
    <3>3. <<Exit, torn, next>> \o q = Put(Exit, Put(torn, Put(next, q)))
      BY <3>1, PutThree
    <3> QED
      BY <3>2, <3>3, <2>1, <2>3, <1>11
  <2>6. PICK u : u = ((IF Len(c \o q) + 1 < MaxDepth THEN <<App>>
                                                     ELSE <<>>)
                      \o c) \o q
    OBVIOUS
  <2>7. Calm(u, d, hs, told) /\ N(u, "committed") = commitDepth
    <3>1. /\ Calm(c \o q, d, hs, told) /\ c \o q /= <<>>
          /\ N(c \o q, "committed") = commitDepth
      BY <2>4, <2>5
    <3>2. Calm(u, d, hs, told) /\ N(u, "committed") = N(c \o q, "committed")
      BY <3>1, <2>5, <2>6, AppOn, ZenonT(60)
    <3> QED
      BY <3>1, <3>2
  <2>8. agenda' = u
    BY <1>3, <1>17, <2>3, <2>6 DEF AppThen, AppFirst
  <2>9. es' \in [Slots -> StreamType] /\ SameLinks
    BY <1>2, <1>17 DEF SameLinks
  <2>10. cbDepth' = d /\ d \in Nat /\ d > 0
    BY <1>2, <1>17, <2>1
  <2> QED
    BY <2>7, <2>8, <2>9, <2>10, <1>2, <1>13, Proceeds
<1>18. CASE /\ todo /= {} /\ Then(<<Call("conn_fatal"), torn, next>>)
            /\ UNCHANGED <<cbDepth, es>>
  <2>1. PICK k \in Frame : k = Call("conn_fatal") /\ k.op = "conn_fatal"
    BY Calls DEF PlainOps
  <2>2. PICK b : b = Put(torn, p)
    OBVIOUS
  <2>3. /\ Calm(b, cbDepth, hs, told) /\ b /= <<>> /\ b \in Seq(Frame)
        /\ N(b, "committed") = commitDepth
    BY <2>2, <1>10, <1>12, <1>18, NeutralOn
  <2>4. PICK r : r = Put(k, b)
    OBVIOUS
  <2>5. Calm(r, cbDepth, hs, told) /\ N(r, "committed") = commitDepth
    BY <2>1, <2>3, <2>4, NeutralOn
  <2>6. agenda' = r
    <3>1. torn \in Frame /\ next \in Frame
      BY <1>8, <1>10, <1>18
    <3>2. agenda' = <<k, torn, next>> \o q
      BY <1>3, <1>18, <2>1 DEF Then
    <3> QED
      BY <3>1, <3>2, <2>2, <2>4, <1>11, PutThree
  <2>7. es' \in [Slots -> StreamType] /\ SameLinks
    BY <1>2, <1>18 DEF SameLinks
  <2> QED
    BY <2>5, <2>6, <2>7, <1>2, <1>13, <1>18, Proceeds
<1> QED
  BY <1>4, <1>5, <1>6, <1>7, <1>15, <1>16, <1>17, <1>18 DEF EngineTeardown

-----------------------------------------------------------------------------
(* A reference to a handle goes.                                           *)

(* stream_drop: the last one empties the handle.                           *)
LEMMA OneGoes ==
    ASSUME NEW R \in HandleType, NEW r, r = Uncredited(OneLess(R))
    PROVE  /\ r \in HandleType /\ r.app = R.app /\ R.refs \in Nat
           /\ R.app \in Nat /\ R.alive \in BOOLEAN
           /\ r.refs = IF R.refs > 0 THEN R.refs - 1 ELSE 0
           /\ r.refs > 0 => r.alive = R.alive /\ r.es = R.es /\ r.gen = R.gen
           /\ r.refs = 0 => r.alive = FALSE
           /\ OneLess(R).credit \in Slots \cup {None}
<1>1. R.refs \in Nat /\ R.app \in Nat /\ R.alive \in BOOLEAN
  BY DEF HandleType
<1>2. PICK n \in Nat : n = IF R.refs > 0 THEN R.refs - 1 ELSE R.refs
  BY <1>1
<1>3. PICK s : s = OneLess(R)
  OBVIOUS
<1>4. s = [R EXCEPT !.refs = n]
  BY <1>2, <1>3 DEF OneLess
<1>5. /\ s \in HandleType /\ s.refs = n /\ s.app = R.app
      /\ s.alive = R.alive /\ s.es = R.es /\ s.gen = R.gen
      /\ s.credit = R.credit /\ R.credit \in Slots \cup {None}
  BY <1>4 DEF HandleType
<1>6. CASE n = 0
  <2>1. PICK a \in Nat : a = R.app
    BY <1>1
  <2>2. r = [refs |-> 0, app |-> a, alive |-> FALSE, send |-> FALSE,
             recv |-> FALSE, fin |-> FALSE, commit |-> FALSE,
             bidi |-> FALSE, local |-> FALSE, es |-> None, credit |-> None,
             gen |-> 0]
    BY <1>3, <1>5, <1>6, <2>1 DEF Uncredited, NoHandle
  <2>3. r.refs = 0 /\ r.app = a /\ r.alive = FALSE
    BY <2>2
  <2>4. r \in HandleType
    <3>1. 0 \in Nat /\ None \in Slots \cup {None} /\ FALSE \in BOOLEAN
      OBVIOUS
    <3> QED
      BY <3>1, <2>1, <2>2 DEF HandleType
  <2>5. r.refs = IF R.refs > 0 THEN R.refs - 1 ELSE 0
    BY <2>3, <1>1, <1>2, <1>6
  <2> QED
    BY <2>1, <2>3, <2>4, <2>5, <1>1, <1>3, <1>5
<1>7. CASE n /= 0
  <2>1. r = s
    BY <1>3, <1>5, <1>7 DEF Uncredited
  <2> QED
    BY <2>1, <1>1, <1>2, <1>3, <1>5, <1>7
<1> QED
  BY <1>6, <1>7

(* No call works on a handle that none is counted for: a settle has a      *)
(* holder below.                                                           *)
LEMMA NoneLeft ==
    ASSUME NEW m, NEW q \in Seq(Frame), Stacked(m, q), NEW h,
           M(q, "drop", h) = 0, M(q, "commit_end", h) = 0,
           M(q, "committed", h) = 0, M(q, "slot_release", h) = 0
    PROVE  NoneFor(q, h)
<1>1. ASSUME NEW op, M(q, op, h) = 0
      PROVE  \A g \in Waiting(q) : ~(g.op = op /\ g.at = h)
  <2>1. M(q, op, h) > 0 <=> \E g \in Waiting(q) : g.op = op /\ g.at = h
    BY CountRange
  <2> QED
    BY <2>1, <1>1
<1>2. \A g \in Waiting(q) : ~(g.op = "drop" /\ g.at = h)
  BY <1>1
<1>3. \A g \in Waiting(q) : ~(g.op = "commit_end" /\ g.at = h)
  BY <1>1
<1>4. \A g \in Waiting(q) : ~(g.op = "committed" /\ g.at = h)
  BY <1>1
<1>5. \A g \in Waiting(q) : ~(g.op = "slot_release" /\ g.at = h)
  BY <1>1
<1>6. ASSUME NEW g \in Waiting(q), g.op = "settle", g.at = h
      PROVE  FALSE
  <2>1. PICK i \in 1..Len(q) : g = q[i]
    BY DEF Waiting
  <2>2. PICK j \in 1..Len(q) : Holder(q[i], q[j])
    BY <2>1, <1>6 DEF Stacked
  <2>3. q[j] \in Waiting(q)
    BY DEF Waiting
  <2> QED
    BY <2>1, <2>2, <2>3, <1>2, <1>6 DEF Holder
<1> QED
  BY <1>2, <1>3, <1>4, <1>5, <1>6 DEF NoneFor, HandleOps

(* The count behind a call that held the handle.                           *)
LEMMA HoldGoes ==
    ASSUME NEW n \in Nat, NEW a \in Nat, NEW alive \in BOOLEAN, NEW t,
           NEW cm \in Nat, NEW sr \in Nat, NEW dr \in Nat, NEW k,
           k = IF n > 0 THEN n - 1 ELSE 0, NEW live \in BOOLEAN,
           live <=> (k > 0 /\ alive), Sound(n, a, alive, t, cm, sr, dr + 1)
    PROVE  /\ Sound(k, a, live, t, cm, sr, dr) /\ live = alive
           /\ k = 0 => cm = 0 /\ sr = 0 /\ dr = 0
           /\ alive => n > 1
<1>1. n >= a + Bit(alive) + 2 * cm + sr + (dr + 1)
  BY DEF Sound, Balanced, Settled
<1>2. Bit(alive) \in {0, 1} /\ (alive <=> Bit(alive) = 1)
  BY DEF Bit
<1>3. n > 0 /\ k = n - 1 /\ k >= a + Bit(alive) + 2 * cm + sr + dr
  BY <1>1, <1>2
<1>4. live = alive
  <2>1. ASSUME alive PROVE k > 0
    <3>1. Bit(alive) = 1
      BY <2>1, <1>2
    <3> QED
      BY <3>1, <1>3
  <2>2. live <=> alive
    BY <2>1
  <2> QED
    BY <2>2
<1>5. /\ k = 0 => cm = 0 /\ sr = 0 /\ dr = 0
      /\ alive => n > 1
  BY <1>2, <1>3
<1>6. Sound(k, a, live, t, cm, sr, dr)
  BY <1>3, <1>4 DEF Sound, Balanced
<1> QED
  BY <1>4, <1>5, <1>6

(* The count behind the handle's last event.                               *)
LEMMA CloseGoes ==
    ASSUME NEW n \in Nat, NEW a \in Nat, NEW alive \in BOOLEAN, NEW t,
           NEW cm \in Nat, NEW sr \in Nat, NEW dr \in Nat, NEW k,
           k = IF n > 0 THEN n - 1 ELSE 0, NEW live \in BOOLEAN,
           live <=> (k > 0 /\ alive), Sound(n, a, alive, t, cm, sr + 1, dr)
    PROVE  /\ Sound(k, a, live, "none", cm, sr, dr)
           /\ ~alive /\ ~live /\ cm = 0 /\ sr = 0
           /\ k = 0 => dr = 0
<1>1. n >= a + Bit(alive) + 2 * cm + (sr + 1) + dr
  BY DEF Sound, Balanced, Settled
<1>2. Bit(alive) \in {0, 1} /\ (alive <=> Bit(alive) = 1)
  BY DEF Bit
<1>3. Bit(alive) + cm + (sr + 1) <= 1
  BY DEF Sound
<1>4. ~alive /\ cm = 0 /\ sr = 0
  BY <1>2, <1>3
<1>5. ~live
  BY <1>4
<1>6. n > 0 /\ k = n - 1 /\ k >= a + dr /\ Bit(live) = 0
  BY <1>1, <1>2, <1>4, <1>5 DEF Bit
<1>7. Sound(k, a, live, "none", cm, sr, dr)
  BY <1>4, <1>5, <1>6 DEF Sound, Balanced
<1> QED
  BY <1>4, <1>5, <1>6, <1>7

(* The count behind the end of a reservation.                              *)
LEMMA ReservationGoes ==
    ASSUME NEW n \in Nat, NEW a \in Nat, NEW alive \in BOOLEAN, NEW t,
           NEW k, k = IF n > 0 THEN n - 1 ELSE 0, NEW live \in BOOLEAN,
           live <=> (k > 0 /\ alive), Sound(n, a, alive, t, 0, 0, 0),
           t \in {"none", "given", "closed", "unasked"}, t /= "given",
           alive => n = 1 /\ a = 0 /\ t = "none", ~Over => alive
    PROVE  Sound(k, a, live, t, 0, 0, 0) /\ t = "none" /\ ~live
<1>1. t = "none"
  BY DEF Sound
<1>2. ~live
  <2>1. alive => k = 0
    OBVIOUS
  <2>2. k = 0 => ~live
    OBVIOUS
  <2>3. ~alive => ~live
    OBVIOUS
  <2> QED
    BY <2>1, <2>2, <2>3
<1>3. CASE alive
  <2>1. k = 0 /\ a = 0 /\ Bit(live) = 0
    BY <1>2, <1>3 DEF Bit
  <2> QED
    BY <1>1, <1>2, <2>1 DEF Sound, Balanced
<1>4. CASE ~alive
  <2>1. Over /\ Bit(live) = 0
    BY <1>2, <1>4 DEF Bit
  <2> QED
    BY <1>1, <1>2, <2>1 DEF Sound, Settled
<1> QED
  BY <1>1, <1>2, <1>3, <1>4

(* The same of a handle's record.                                          *)
Goes(R, r, t, cm, sr, dr) ==
    /\ r \in HandleType /\ r.app = R.app
    /\ r.refs > 0 => r.alive = R.alive /\ r.es = R.es /\ r.gen = R.gen
    /\ r.refs = 0 => r.alive = FALSE
    /\ Sound(R.refs, R.app, R.alive, t, cm, sr, dr + 1) =>
         /\ Sound(r.refs, r.app, r.alive, t, cm, sr, dr)
         /\ r.alive = R.alive /\ (R.alive => R.refs > 1)
         /\ r.refs = 0 => cm = 0 /\ sr = 0 /\ dr = 0
    /\ Sound(R.refs, R.app, R.alive, t, cm, sr + 1, dr) =>
         /\ Sound(r.refs, r.app, r.alive, "none", cm, sr, dr)
         /\ ~R.alive /\ ~r.alive /\ cm = 0 /\ sr = 0
         /\ r.refs = 0 => dr = 0
    /\ Sound(R.refs, R.app, R.alive, t, 0, 0, 0) /\ Reserved(R, t) =>
         /\ Sound(r.refs, r.app, r.alive, t, 0, 0, 0)
         /\ t = "none" /\ ~r.alive

(* stream_drop and stream_slot_release take one from the count.            *)
LEMMA RecordGoes ==
    ASSUME NEW R \in HandleType, NEW r, r = Uncredited(OneLess(R)), NEW t,
           t \in {"none", "given", "closed", "unasked"},
           NEW cm \in Nat, NEW sr \in Nat, NEW dr \in Nat
    PROVE  Goes(R, r, t, cm, sr, dr)
<1>1. /\ r \in HandleType /\ r.app = R.app /\ R.refs \in Nat
      /\ R.app \in Nat /\ R.alive \in BOOLEAN
      /\ r.refs = IF R.refs > 0 THEN R.refs - 1 ELSE 0
      /\ r.refs > 0 => r.alive = R.alive /\ r.es = R.es /\ r.gen = R.gen
      /\ r.refs = 0 => r.alive = FALSE
  BY OneGoes
<1>2. r.refs \in Nat /\ r.alive \in BOOLEAN
  BY <1>1 DEF HandleType
<1>3. PICK n \in Nat, a \in Nat, alive \in BOOLEAN, k \in Nat, live \in BOOLEAN :
      /\ n = R.refs /\ a = R.app /\ alive = R.alive
      /\ k = r.refs /\ live = r.alive
  BY <1>1, <1>2
<1>4. k = (IF n > 0 THEN n - 1 ELSE 0)
  BY <1>1, <1>3
<1>5. k = 0 => ~live
  BY <1>1, <1>3
<1>6. k > 0 => (live <=> alive)
  BY <1>1, <1>3
<1>7. live <=> (k > 0 /\ alive)
  BY <1>5, <1>6
<1>8. Sound(n, a, alive, t, cm, sr, dr + 1) =>
        /\ Sound(k, a, live, t, cm, sr, dr)
        /\ live = alive /\ (alive => n > 1)
        /\ k = 0 => cm = 0 /\ sr = 0 /\ dr = 0
  BY <1>4, <1>7, HoldGoes
<1>9. Sound(n, a, alive, t, cm, sr + 1, dr) =>
        /\ Sound(k, a, live, "none", cm, sr, dr)
        /\ ~alive /\ ~live /\ cm = 0 /\ sr = 0
        /\ k = 0 => dr = 0
  BY <1>4, <1>7, CloseGoes
<1>10. Sound(n, a, alive, t, 0, 0, 0) /\ Reserved(R, t) =>
        /\ Sound(k, a, live, t, 0, 0, 0) /\ t = "none" /\ ~live
  <2>1. Reserved(R, t) => /\ t /= "given"
                          /\ alive => n = 1 /\ a = 0 /\ t = "none"
                          /\ ~Over => alive
    BY <1>3 DEF Reserved
  <2> QED
    BY <2>1, <1>4, <1>7, ReservationGoes
<1> QED
  BY <1>1, <1>3, <1>8, <1>9, <1>10 DEF Goes

(* What a call of a handle is counted for.                                 *)
LEMMA HandleCounts ==
    ASSUME NEW q \in Seq(Frame), NEW f \in Frame, NEW h
    PROVE  /\ M(q, "committed", h) \in Nat /\ M(q, "slot_release", h) \in Nat
           /\ Holds(q, h) \in Nat
           /\ M(Put(f, q), "committed", h) = M(q, "committed", h)
                + Bit(f.op = "committed" /\ f.at = h)
           /\ M(Put(f, q), "slot_release", h) = M(q, "slot_release", h)
                + Bit(f.op = "slot_release" /\ f.at = h)
           /\ Holds(Put(f, q), h) = Holds(q, h)
                + Bit(f.op \in {"drop", "commit_end"} /\ f.at = h)
           /\ Holds(q, h) = 0 =>
                M(q, "drop", h) = 0 /\ M(q, "commit_end", h) = 0
<1>1. /\ \A op : M(Put(f, q), op, h) = M(q, op, h) + Bit(f.op = op /\ f.at = h)
      /\ \A op : M(q, op, h) \in Nat
  BY PutFacts
<1> HIDE DEF Put
<1>2. PICK dp \in Nat, ce \in Nat :
        dp = M(q, "drop", h) /\ ce = M(q, "commit_end", h)
  BY <1>1
<1>3. /\ Holds(q, h) = dp + ce
      /\ Holds(Put(f, q), h) = (dp + Bit(f.op = "drop" /\ f.at = h))
                                + (ce + Bit(f.op = "commit_end" /\ f.at = h))
  BY <1>1, <1>2 DEF Holds
<1>4. /\ Bit(f.op = "drop" /\ f.at = h) + Bit(f.op = "commit_end" /\ f.at = h)
           = Bit(f.op \in {"drop", "commit_end"} /\ f.at = h)
      /\ Bit(f.op = "drop" /\ f.at = h) \in Nat
      /\ Bit(f.op = "commit_end" /\ f.at = h) \in Nat
  BY DEF Bit
<1>5. PICK i \in Nat, j \in Nat :
        /\ i = Bit(f.op = "drop" /\ f.at = h)
        /\ j = Bit(f.op = "commit_end" /\ f.at = h)
  BY <1>4
<1>6. PICK k : k = Bit(f.op \in {"drop", "commit_end"} /\ f.at = h)
  OBVIOUS
<1>7. i + j = k
  BY <1>4, <1>5, <1>6
<1>8. Holds(q, h) \in Nat /\ Holds(Put(f, q), h) = Holds(q, h) + k
  <2>1. Holds(q, h) = dp + ce /\ Holds(Put(f, q), h) = (dp + i) + (ce + j)
    BY <1>3, <1>5
  <2> QED
    BY <2>1, <1>7
<1>9. Holds(q, h) = 0 => M(q, "drop", h) = 0 /\ M(q, "commit_end", h) = 0
  BY <1>2, <1>3
<1> QED
  BY <1>1, <1>6, <1>8, <1>9

Dropped(q, d, H, T, f, h, r, t) ==
    /\ Ready(q, d - Bit(f.op \in BracketOps),
             [H EXCEPT ![h] = r], [T EXCEPT ![h] = t])
    /\ StillCommits(q, f) => Ending(q)
    /\ r.alive => H[h].alive /\ r.es = H[h].es /\ t = T[h]
    /\ H[h].alive => r.alive \/ T[h] = "none"
    /\ r.app = H[h].app
(* stream_drop, stream_slot_release and the end of a reservation.          *)
LEMMA DropPop ==
    ASSUME NEW q \in Seq(Frame), NEW d, NEW H, NEW T, NEW f \in Frame,
           Accounts(Put(f, q), d, H, T), NEW h \in Slots, NEW t,
           \/ f.op \in {"drop", "commit_end"} /\ f.at = h /\ t = T[h]
           \/ f.op = "slot_release" /\ f.at = h /\ t = "none"
           \/ f.op = "open_failed" /\ f.x = {h} /\ t = T[h],
           NEW r, r = Uncredited(OneLess(H[h]))
    PROVE  Dropped(q, d, H, T, f, h, r, t)
<1>1. /\ d \in Int /\ H \in [Slots -> HandleType] /\ T \in ToldType
      /\ Stacked(admission, Put(f, q))
      /\ HandleSound(Put(f, q), H, T, h)
      /\ Relies(H, T, f)
      /\ Telling(Put(f, q), H, T)
  <2>1. f \in Waiting(Put(f, q))
    BY PutWaiting
  <2> QED
    BY <2>1 DEF Accounts, Books, Handles
<1>2. PICK R \in HandleType, p \in Seq(Frame) : R = H[h] /\ p = Put(f, q)
  BY <1>1, PutWaiting
<1>3. T[h] \in {"none", "given", "closed", "unasked"}
  BY <1>1 DEF ToldType
<1>4. /\ Stacked(admission, q)
      /\ \A g \in Waiting(q) : Above(admission, f, g)
  BY <1>1, PutStacked
<1>5. PICK cm \in Nat, sr \in Nat, dr \in Nat :
        /\ cm = M(q, "committed", h) /\ sr = M(q, "slot_release", h)
        /\ dr = Holds(q, h)
  BY HandleCounts
<1>6. /\ M(p, "committed", h) = cm + Bit(f.op = "committed" /\ f.at = h)
      /\ M(p, "slot_release", h) = sr + Bit(f.op = "slot_release" /\ f.at = h)
      /\ Holds(p, h) = dr + Bit(f.op \in {"drop", "commit_end"} /\ f.at = h)
      /\ dr = 0 => M(q, "drop", h) = 0 /\ M(q, "commit_end", h) = 0
  BY <1>2, <1>5, HandleCounts
<1>7. Sound(R.refs, R.app, R.alive, T[h], M(p, "committed", h),
            M(p, "slot_release", h), Holds(p, h))
  BY <1>1, <1>2 DEF HandleSound
<1>8. cm = 0 /\ sr = 0 /\ dr = 0 => NoneFor(q, h)
  BY <1>4, <1>5, <1>6, NoneLeft
<1>9. PICK u : u = T[h]
  OBVIOUS
<1>10. /\ r \in HandleType /\ r.app = R.app
       /\ r.refs > 0 => r.alive = R.alive /\ r.es = R.es /\ r.gen = R.gen
       /\ r.refs = 0 => r.alive = FALSE
       /\ Sound(R.refs, R.app, R.alive, u, cm, sr, dr + 1) =>
            /\ Sound(r.refs, r.app, r.alive, u, cm, sr, dr)
            /\ r.alive = R.alive /\ (R.alive => R.refs > 1)
            /\ r.refs = 0 => cm = 0 /\ sr = 0 /\ dr = 0
       /\ Sound(R.refs, R.app, R.alive, u, cm, sr + 1, dr) =>
            /\ Sound(r.refs, r.app, r.alive, "none", cm, sr, dr)
            /\ ~R.alive /\ ~r.alive /\ cm = 0 /\ sr = 0
            /\ r.refs = 0 => dr = 0
       /\ Sound(R.refs, R.app, R.alive, u, 0, 0, 0) /\ Reserved(R, u) =>
            /\ Sound(r.refs, r.app, r.alive, u, 0, 0, 0)
            /\ u = "none" /\ ~r.alive
  <2>1. u \in {"none", "given", "closed", "unasked"} /\ r = Uncredited(OneLess(R))
    BY <1>2, <1>3, <1>9
  <2>2. Goes(R, r, u, cm, sr, dr)
    BY <2>1, RecordGoes
  <2> QED
    BY <2>2 DEF Goes
<1>12. /\ Sound(r.refs, r.app, r.alive, t, cm, sr, dr)
       /\ r.refs = 0 => NoneFor(q, h)
       /\ StillReserved(H, T, h, r, t) \/ NoneOpens(q, h)
       /\ t \in {"none", "given", "closed", "unasked"}
       /\ t = "given" => T[h] = "given"
       /\ t = T[h] \/ (~r.alive /\ t = "none")
       /\ R.alive => r.alive \/ T[h] = "none"
       /\ r.alive => R.alive
  <2>1. CASE f.op \in {"drop", "commit_end"} /\ f.at = h /\ t = T[h]
    <3>1. /\ M(p, "committed", h) = cm /\ M(p, "slot_release", h) = sr
          /\ Holds(p, h) = dr + 1
      BY <2>1, <1>6 DEF Bit
    <3>2. Sound(R.refs, R.app, R.alive, u, cm, sr, dr + 1)
      BY <3>1, <1>7, <1>9
    <3>3. /\ Sound(r.refs, r.app, r.alive, u, cm, sr, dr)
          /\ r.alive = R.alive /\ (R.alive => R.refs > 1)
          /\ r.refs = 0 => cm = 0 /\ sr = 0 /\ dr = 0
      BY <3>2, <1>10
    <3>4. StillReserved(H, T, h, r, t)
      BY <3>3, <1>2, <2>1 DEF StillReserved, Reserved
    <3>5. t = u
      BY <2>1, <1>9
    <3>6. u \in {"none", "given", "closed", "unasked"}
      BY <1>3, <1>9
    <3>7. Sound(r.refs, r.app, r.alive, t, cm, sr, dr)
      BY <3>3, <3>5
    <3>8. r.refs = 0 => NoneFor(q, h)
      BY <3>3, <1>8
    <3>9. t \in {"none", "given", "closed", "unasked"}
      BY <3>5, <3>6
    <3>10. (R.alive => r.alive) /\ (r.alive => R.alive)
      BY <3>3
    <3>11. t = T[h]
      BY <2>1
    <3>12. (t = "given" => T[h] = "given") /\ (t = T[h] \/ (~r.alive /\ t = "none"))
      BY <3>11
    <3>13. StillReserved(H, T, h, r, t) \/ NoneOpens(q, h)
      BY <3>4
    <3> HIDE <2>1
    <3> QED
      BY <3>7, <3>8, <3>9, <3>10, <3>12, <3>13
  <2>2. CASE f.op = "slot_release" /\ f.at = h /\ t = "none"
    <3>1. /\ M(p, "committed", h) = cm /\ M(p, "slot_release", h) = sr + 1
          /\ Holds(p, h) = dr
      BY <2>2, <1>6 DEF Bit
    <3>2. Sound(R.refs, R.app, R.alive, u, cm, sr + 1, dr)
      BY <3>1, <1>7, <1>9
    <3>3. /\ Sound(r.refs, r.app, r.alive, "none", cm, sr, dr)
          /\ ~R.alive /\ ~r.alive /\ cm = 0 /\ sr = 0
          /\ r.refs = 0 => dr = 0
      BY <3>2, <1>10
    <3>4. StillReserved(H, T, h, r, t)
      BY <3>3, <1>2, <2>2 DEF StillReserved, Reserved
    <3>5. t = "none"
      BY <2>2
    <3> QED
      BY <3>3, <3>4, <3>5, <1>8
  <2>3. CASE f.op = "open_failed" /\ f.x = {h} /\ t = T[h]
    <3>1. Reserved(R, u)
      BY <2>3, <1>1, <1>2, <1>9 DEF Relies, OpenOps
    <3>2. \A g \in Waiting(q) :
            /\ ~(g.op \in HandleOps /\ g.at = h)
            /\ g.op \in OpenOps => h \notin g.x
      BY <2>3, <1>4 DEF Above, OpenOps
    <3>3. cm = 0 /\ sr = 0 /\ dr = 0
      <4>1. ASSUME NEW op \in HandleOps
            PROVE  M(q, op, h) = 0
        <5>1. /\ M(q, op, h) \in Nat
              /\ M(q, op, h) > 0 <=>
                   \E g \in Waiting(q) : g.op = op /\ g.at = h
          BY CountRange
        <5> QED
          BY <5>1, <3>2
      <4> QED
        BY <4>1, <1>5 DEF HandleOps, Holds
    <3>4. /\ M(p, "committed", h) = 0 /\ M(p, "slot_release", h) = 0
          /\ Holds(p, h) = 0
      BY <2>3, <3>3, <1>6 DEF Bit
    <3>5. Sound(R.refs, R.app, R.alive, u, 0, 0, 0)
      BY <3>4, <1>7, <1>9
    <3>6. Sound(r.refs, r.app, r.alive, u, 0, 0, 0) /\ u = "none" /\ ~r.alive
      BY <3>1, <3>5, <1>10
    <3>7. t = u
      BY <2>3, <1>9
    <3>8. NoneOpens(q, h) /\ NoneFor(q, h)
      BY <3>2 DEF NoneFor, NoneOpens
    <3> QED
      BY <3>3, <3>6, <3>7, <3>8, <1>9
  <2> QED
    BY <2>1, <2>2, <2>3
<1>11. r.refs \in Nat
  BY <1>10 DEF HandleType
<1>13. MayTell(T, h, r, t)
  BY <1>1, <1>2, <1>12 DEF MayTell, Telling
<1>14. /\ f.op \in HandleOps \cup OpenOps \cup {"exit"}
       /\ f.op \in HandleOps => f.at = h
       /\ f.op /= "committed"
  BY DEF HandleOps, OpenOps
<1>15. r.gen = H[h].gen \/ NoneFor(q, h)
  BY <1>2, <1>10, <1>11, <1>12
<1>16. Sound(r.refs, r.app, r.alive, t, M(q, "committed", h),
             M(q, "slot_release", h), Holds(q, h))
  BY <1>5, <1>12
<1>17. r.app = H[h].app
  BY <1>2, <1>10
<1>18. /\ Ready(q, d - Bit(f.op \in BracketOps),
                [H EXCEPT ![h] = r], [T EXCEPT ![h] = t])
       /\ StillCommits(q, f) => Ending(q)
  BY <1>10, <1>12, <1>13, <1>14, <1>15, <1>16, <1>17, Pop
<1>19. r.alive => r.es = H[h].es
  <2>1. CASE r.refs = 0
    <3>1. r.alive = FALSE
      BY <2>1, <1>10
    <3> QED
      BY <3>1
  <2>2. CASE r.refs > 0
    BY <2>2, <1>2, <1>10
  <2> QED
    BY <2>1, <2>2, <1>11
<1> QED
  BY <1>2, <1>12, <1>17, <1>18, <1>19 DEF Dropped

-----------------------------------------------------------------------------
(* The calls that drop a reference.                                        *)

(* A handle that is emptied had no engine stream any more.                 *)
LEMMA DropLinks ==
    ASSUME IInv, SameLinks, NEW h \in Slots, NEW r, NEW t,
           hs' = [hs EXCEPT ![h] = r], told' = [told EXCEPT ![h] = t],
           r.alive => hs[h].alive /\ r.es = hs[h].es /\ t = told[h],
           hs[h].alive => r.alive \/ told[h] = "none", r.app = hs[h].app
    PROVE  Linked'
<1>1. hs \in [Slots -> HandleType] /\ told \in ToldType
  BY Numbers
<1>2. /\ hs'[h] = r /\ told'[h] = t
      /\ \A k \in Slots : k /= h => hs'[k] = hs[k] /\ told'[k] = told[k]
  BY <1>1 DEF ToldType
<1>3. ASSUME NEW k \in Slots, hs'[k].alive
      PROVE  /\ hs[k].alive /\ hs'[k].es = hs[k].es /\ told'[k] = told[k]
             /\ hs'[k].app = hs[k].app \/ hs[k].es /= None
  BY <1>2, <1>3
<1>4. ASSUME NEW k \in Slots, hs[k].alive
      PROVE  \/ hs'[k].alive
             \/ \A e \in Slots : es'[e].kind = "WT" => es'[e].user /= k
  <2>1. CASE k /= h
    BY <2>1, <1>2, <1>4
  <2>2. CASE k = h /\ ~r.alive
    <3>1. told[h] = "none"
      BY <2>2, <1>4
    <3>2. ASSUME NEW e \in Slots, es'[e].kind = "WT", es'[e].user = h
          PROVE  FALSE
      <4>1. h /= None
        BY ApiAssumption
      <4>2. es[e].kind = "WT" /\ es[e].user = h
        BY <3>2, <4>1 DEF SameLinks
      <4>3. told[h] = "given"
        BY <4>1, <4>2 DEF IInv, Linked
      <4> QED
        BY <3>1, <4>3
    <3> QED
      BY <2>2, <3>2
  <2>3. CASE k = h /\ r.alive
    BY <2>3, <1>2
  <2> QED
    BY <2>1, <2>2, <2>3
<1> QED
  BY <1>3, <1>4, Links

(* stream_drop at the end of a call.                                       *)
LEMMA DropEnds ==
    ASSUME IInv, Quiet, agenda /= <<>>, NEW f, f = Head(agenda),
           NEW h \in Slots, NEW t,
           \/ f.op \in {"drop", "commit_end"} /\ f.at = h /\ t = told[h]
           \/ f.op = "slot_release" /\ f.at = h /\ t = "none"
           \/ f.op = "open_failed" /\ f.x = {h} /\ t = told[h],
           f.op = "commit_end" /\ deferred => commitDepth > 0,
           DropRef(h), told' = [told EXCEPT ![h] = t],
           agenda' = Tail(agenda), NEW d,
           d = cbDepth - Bit(f.op \in BracketOps), cbDepth' = d,
           freed' \in BOOLEAN, freed' <=> (refs = 0 /\ d = 0),
           UNCHANGED <<commitDepth, streams, late>>
    PROVE  IInv'
<1>1. /\ Head(agenda) \in Frame /\ Tail(agenda) \in Seq(Frame)
      /\ agenda = Put(Head(agenda), Tail(agenda)) /\ ~freed
  BY OnTop
<1>2. PICK q \in Seq(Frame) : q = Tail(agenda)
  BY <1>1
<1>3. f \in Frame /\ agenda = Put(f, q)
  BY <1>1, <1>2
<1>4. hs \in [Slots -> HandleType] /\ es \in [Slots -> StreamType]
  BY Numbers DEF IInv, Types
<1>5. PICK r, s : r = Uncredited(s) /\ s = OneLess(hs[h])
  OBVIOUS
<1>6. hs' = [hs EXCEPT ![h] = r] /\ es' = CreditRelease(s)
  BY <1>5 DEF DropRef
<1>7. s.credit \in Slots \cup {None}
  <2>1. hs[h] \in HandleType
    BY <1>4
  <2> QED
    BY <2>1, <1>5, OneGoes
<1>8. es' \in [Slots -> StreamType] /\ SameLinks
  BY <1>4, <1>6, <1>7, CreditLinks
<1>9. Accounts(Put(f, q), cbDepth, hs, told)
  BY <1>3 DEF IInv
<1>10. f.op /= "committed"
  OBVIOUS
<1>11. /\ Ready(q, d, [hs EXCEPT ![h] = r], [told EXCEPT ![h] = t])
       /\ StillCommits(q, f) => Ending(q)
       /\ r.alive => hs[h].alive /\ r.es = hs[h].es /\ t = told[h]
       /\ hs[h].alive => r.alive \/ told[h] = "none"
       /\ r.app = hs[h].app
  <2>1. \/ f.op \in {"drop", "commit_end"} /\ f.at = h /\ t = told[h]
        \/ f.op = "slot_release" /\ f.at = h /\ t = "none"
        \/ f.op = "open_failed" /\ f.x = {h} /\ t = told[h]
    OBVIOUS
  <2>2. r = Uncredited(OneLess(hs[h]))
    BY <1>5
  <2>3. PICK H, T, c : H = hs /\ T = told /\ c = cbDepth
    OBVIOUS
  <2>4. /\ Accounts(Put(f, q), c, H, T) /\ r = Uncredited(OneLess(H[h]))
        /\ \/ f.op \in {"drop", "commit_end"} /\ f.at = h /\ t = T[h]
           \/ f.op = "slot_release" /\ f.at = h /\ t = "none"
           \/ f.op = "open_failed" /\ f.x = {h} /\ t = T[h]
    BY <2>1, <2>2, <2>3, <1>9
  <2>5. Dropped(q, c, H, T, f, h, r, t)
    BY <2>4, <1>3, DropPop
  <2> QED
    BY <2>3, <2>5 DEF Dropped
<1>12. Linked'
  BY <1>6, <1>8, <1>11, DropLinks
<1>13. PICK H, T : H = [hs EXCEPT ![h] = r] /\ T = [told EXCEPT ![h] = t]
  OBVIOUS
<1>14. N(q, "committed") = commitDepth
  BY <1>3, <1>10, Committed DEF IInv
<1>15. Calm(q, d, H, T)
  <2>1. N(q, "committed") \in Nat /\ N(q, "commit_end") \in Nat
    BY CountRange
  <2>2. StillCommits(q, f)
    BY <2>1, <1>10, <1>14 DEF StillCommits
  <2> QED
    BY <2>2, <1>11, <1>13 DEF Calm
<1>16. /\ agenda' = q /\ hs' = H /\ told' = T /\ late' = late
       /\ commitDepth' = N(q, "committed") /\ streams' \in Nat
  BY <1>2, <1>6, <1>13, <1>14 DEF IInv, Types
<1> QED
  BY <1>8, <1>12, <1>15, <1>16, Onward

(* What was told is kept.                                                  *)
LEMMA SameTold ==
    ASSUME IInv, told' = told, NEW h \in Slots
    PROVE  told' = [told EXCEPT ![h] = told[h]]
BY Numbers DEF ToldType

(* stream_drop and session_exit.                                           *)
LEMMA DropAndExitStep ==
    ASSUME IInv, DropAndExit
    PROVE  IInv'
<1>1. agenda /= <<>> /\ Head(agenda).op = "drop"
  BY DEF DropAndExit, At
<1>2. Head(agenda) \in Frame /\ ~freed
  BY <1>1, OnTop
<1>3. PICK f, h, t : f = Head(agenda) /\ h = f.at /\ t = told[h]
  OBVIOUS
<1>4. h \in Slots /\ f.op = "drop"
  BY <1>1, <1>2, <1>3 DEF Frame, HandleOps
<1>5. PICK d : d = cbDepth - Bit(f.op \in BracketOps)
  OBVIOUS
<1>6. d = cbDepth - 1
  BY <1>4, <1>5 DEF Bit, BracketOps
<1>7. /\ freed' \in BOOLEAN /\ cbDepth' = d /\ (freed' <=> (refs = 0 /\ d = 0))
  BY <1>2, <1>6, Leaves DEF DropAndExit
<1>8. /\ Quiet /\ UNCHANGED <<commitDepth, streams, late>> /\ told' = told
  BY DEF DropAndExit, Quiet, flags, engine, history
<1>9. told' = [told EXCEPT ![h] = t]
  BY <1>3, <1>4, <1>8, SameTold
<1>10. agenda' = Tail(agenda) /\ DropRef(h)
  BY <1>1, <1>3, ThenNone DEF DropAndExit, This
<1> QED
  BY <1>1, <1>3, <1>4, <1>5, <1>7, <1>8, <1>9, <1>10, DropEnds

(* stream_slot_release.                                                    *)
LEMMA SlotReleaseStep ==
    ASSUME IInv, SlotRelease
    PROVE  IInv'
<1>1. agenda /= <<>> /\ Head(agenda).op = "slot_release"
  BY DEF SlotRelease, At
<1>2. Head(agenda) \in Frame /\ ~freed
  BY <1>1, OnTop
<1>3. PICK f, h : f = Head(agenda) /\ h = f.at
  OBVIOUS
<1>4. h \in Slots /\ f.op = "slot_release"
  BY <1>1, <1>2, <1>3 DEF Frame, HandleOps
<1>5. PICK d : d = cbDepth - Bit(f.op \in BracketOps)
  OBVIOUS
<1>6. d = cbDepth
  <2>1. cbDepth \in Nat
    BY Numbers
  <2> QED
    BY <2>1, <1>4, <1>5 DEF Bit, BracketOps
<1>7. /\ freed' \in BOOLEAN /\ cbDepth' = d /\ (freed' <=> (refs = 0 /\ d = 0))
  BY <1>2, <1>6 DEF SlotRelease, IInv, Types, count
<1>8. /\ Quiet /\ UNCHANGED <<commitDepth, streams, late>>
  BY DEF SlotRelease, Quiet, flags, engine, count
<1>9. told' = [told EXCEPT ![h] = "none"]
  BY <1>3 DEF SlotRelease, This
<1>10. agenda' = Tail(agenda) /\ DropRef(h)
  BY <1>1, <1>3, ThenNone DEF SlotRelease, This
<1> QED
  BY <1>1, <1>3, <1>4, <1>5, <1>7, <1>8, <1>9, <1>10, DropEnds

(* A set of one slot.                                                      *)
LEMMA OneSlot ==
    ASSUME NEW h \in Slots
    PROVE  First({h}) = h
BY ApiAssumption DEF First

(* The error path of session_open.                                         *)
LEMMA OpenFailedStep ==
    ASSUME IInv, OpenFailed
    PROVE  IInv'
<1>1. agenda /= <<>> /\ Head(agenda).op = "open_failed"
  BY DEF OpenFailed, At
<1>2. /\ Head(agenda) \in Frame /\ Tail(agenda) \in Seq(Frame)
      /\ agenda = Put(Head(agenda), Tail(agenda)) /\ ~freed
  BY <1>1, OnTop
<1>3. PICK f \in Frame, q \in Seq(Frame) :
        f = Head(agenda) /\ q = Tail(agenda)
  BY <1>2
<1>4. agenda = Put(f, q) /\ f.op = "open_failed"
  BY <1>1, <1>2, <1>3
<1>5. PICK d : d = cbDepth - Bit(f.op \in BracketOps)
  OBVIOUS
<1>6. d = cbDepth - 1
  BY <1>4, <1>5 DEF Bit, BracketOps
<1>7. /\ freed' \in BOOLEAN /\ cbDepth' = d /\ (freed' <=> (refs = 0 /\ d = 0))
  BY <1>2, <1>6, Leaves DEF OpenFailed
<1>8. /\ Quiet /\ UNCHANGED <<commitDepth, streams, late>> /\ told' = told
  BY DEF OpenFailed, Quiet, flags, engine, history
<1>9. agenda' = q
  BY <1>1, <1>3, ThenNone DEF OpenFailed
<1>10. CASE f.x /= {}
  <2>1. f \in Waiting(agenda)
    BY <1>3, <1>4, PutWaiting
  <2>2. Relies(hs, told, f)
    BY <2>1 DEF IInv, Accounts, Books, Handles
  <2>3. PICK h \in Slots : f.x = {h}
    BY <2>2, <1>4, <1>10 DEF Relies, OpenOps
  <2>4. DropRef(h)
    <3>1. First(f.x) = h
      BY <2>3, OneSlot
    <3> QED
      BY <3>1, <1>3, <1>10 DEF OpenFailed, This
  <2>5. PICK t : t = told[h]
    OBVIOUS
  <2>6. told' = [told EXCEPT ![h] = t]
    BY <2>5, <1>8, SameTold
  <2> QED
    BY <2>3, <2>4, <2>5, <2>6, <1>1, <1>3, <1>4, <1>5, <1>7, <1>8, <1>9,
       DropEnds
<1>11. CASE f.x = {}
  <2>1. hs' = hs /\ es' = es
    BY <1>3, <1>11 DEF OpenFailed, This
  <2>2. Calm(q, d, hs, told)
    <3>1. Plain(f) /\ f.op \in BracketOps /\ f.op /= "service"
      BY <1>4, <1>11 DEF Plain, HandleOps, BracketOps
    <3>2. Accounts(Put(f, q), cbDepth, hs, told) /\ cbDepth \in Int
      BY <1>4 DEF IInv, Accounts, Books
    <3>3. Handles(q, hs, told) /\ (N(q, "open_rest") > 0 => admission)
      BY <3>1, <3>2, PlainCall DEF Accounts, Books
    <3>4. Counted(q, d, hs) /\ d \in Int
      BY <3>1, <3>2, <1>6, AnyCounted DEF Accounts, Books
    <3>5. /\ \A op : N(Put(f, q), op) = N(q, op) + Bit(f.op = op)
          /\ \A op : N(q, op) \in Nat
          /\ \A op, h : M(Put(f, q), op, h)
                            = M(q, op, h) + Bit(f.op = op /\ f.at = h)
          /\ \A op, h : M(q, op, h) \in Nat
          /\ Waiting(Put(f, q)) = {f} \cup Waiting(q)
      BY PutFacts
    <3> HIDE DEF Put
    <3>6. \A op : op /= "open_failed" => N(Put(f, q), op) = N(q, op)
      BY <3>5, <1>4 DEF Bit
    <3>7. Ending(q)
      BY <3>2, <3>6 DEF Accounts, Ending
    <3>8. Telling(q, hs, told)
      BY <3>2, <3>6 DEF Accounts, Books, Telling
    <3>9. \A h \in Slots : TornLater(q, told, h)
      <4>1. \A h : M(Put(f, q), "committed", h) = M(q, "committed", h)
        BY <3>5, <1>4 DEF Bit
      <4>2. \A g \in Waiting(Put(f, q)) :
              g.op = "streams_teardown" => g \in Waiting(q)
        BY <3>5, <1>4
      <4> QED
        BY <4>1, <4>2, <3>2 DEF Accounts, TornLater
    <3> QED
      BY <3>3, <3>4, <3>7, <3>8, <3>9 DEF Calm, Ready, Books
  <2>3. N(q, "committed") = commitDepth
    BY <1>4, Committed DEF IInv
  <2>4. es' \in [Slots -> StreamType] /\ SameLinks /\ streams' \in Nat
    BY <2>1, <1>8 DEF SameLinks, IInv, Types
  <2>5. Linked'
    BY <2>1, <2>4, <1>8, Links
  <2>6. PICK H, T : H = hs /\ T = told
    OBVIOUS
  <2>7. /\ Calm(q, d, H, T) /\ hs' = H /\ told' = T
        /\ commitDepth' = N(q, "committed") /\ late' = late
    BY <2>1, <2>2, <2>3, <2>6, <1>8
  <2> QED
    BY <2>4, <2>5, <2>7, <1>7, <1>8, <1>9, Onward
<1> QED
  BY <1>10, <1>11

-----------------------------------------------------------------------------
(* Steps that change the session.                                          *)

(* The application's frame, if there is one, is in front of the calls.     *)
LEMMA AppCase ==
    ASSUME NEW calls \in Seq(Frame), NEW q \in Seq(Frame), NEW p,
           p = ((IF Len(calls \o q) + 1 < MaxDepth THEN <<App>> ELSE <<>>)
                \o calls) \o q
    PROVE  p = calls \o q \/ p = Put(App, calls \o q)
<1>1. <<App>> \in Seq(Frame) /\ <<>> \in Seq(Frame)
  BY Calls
<1>2. (<<App>> \o calls) \o q = <<App>> \o (calls \o q)
  BY <1>1, Assoc
<1>3. (<<>> \o calls) \o q = calls \o q
  BY Joined
<1> QED
  BY <1>2, <1>3 DEF Put

(* A step is followed on the stack below the application's frame, whatever *)
(* it does to the session.                                                 *)
LEMMA Onto ==
    ASSUME IInv, NEW r, NEW d, NEW H, NEW T, Handles(r, H, T), d \in Int,
           NEW p, p = r \/ (p = Put(App, r) /\ r /= <<>>
                            /\ (N(r, "open_rest") > 0 => admission)),
           agenda' = p, cbDepth' = d, hs' = H, told' = T,
           admission' = admission, Over => Over',
           Counted(r, d, H)', Telling(r, H, T)', Ending(r)',
           \A h \in Slots : TornLater(r, T, h)', Types', Linked',
           commitDepth' = N(r, "committed"), late' = late,
           freed' <=> (refs' = 0 /\ d = 0)
    PROVE  IInv'
<1>1. /\ Handles(p, H, T) /\ Counted(p, d, H)' /\ Telling(p, H, T)'
      /\ Ending(p)' /\ \A h \in Slots : TornLater(p, T, h)'
      /\ N(p, "committed") = N(r, "committed")
  <2>1. CASE p = r
    BY <2>1
  <2>2. CASE /\ p = Put(App, r) /\ r /= <<>>
             /\ N(r, "open_rest") > 0 => admission
    <3>1. App \in Frame /\ App.op = "app" /\ r \in Seq(Frame)
      BY Calls DEF Handles
    <3>2. Plain(App) /\ App.op \notin BracketOps \cup Tells
      BY <3>1 DEF Plain, HandleOps, OpenOps, BracketOps, Tells
    <3>3. Handles(p, H, T)
      BY <2>2, <3>1, <3>2, PlainCall
    <3>4. /\ \A op : N(p, op) = N(r, op) + Bit(App.op = op)
          /\ \A op : N(r, op) \in Nat
          /\ \A op, h : M(p, op, h) = M(r, op, h) + Bit(App.op = op /\ App.at = h)
          /\ \A op, h : M(r, op, h) \in Nat
          /\ Waiting(p) = {App} \cup Waiting(r)
      BY <2>2, <3>1, PutFacts
    <3>5. \A op : op /= "app" => N(p, op) = N(r, op)
      BY <3>1, <3>4 DEF Bit
    <3>6. \A h : M(p, "committed", h) = M(r, "committed", h)
      BY <3>1, <3>4 DEF Bit
    <3>7. Brackets(p) = Brackets(r)
      BY <2>2, <3>1, <3>2, PutBrackets
    <3>8. N(p, "service") = N(r, "service")
      BY <3>5
    <3>9. Counted(p, d, H)'
      BY <3>7, <3>8 DEF Counted
    <3>10. N(p, "tell_failed") = N(r, "tell_failed")
      BY <3>5
    <3>11. Telling(p, H, T)'
      BY <3>10 DEF Telling
    <3>12. /\ N(p, "on_session_closed") = N(r, "on_session_closed")
           /\ N(p, "on_conn_error") = N(r, "on_conn_error")
           /\ N(p, "session_failed") = N(r, "session_failed")
           /\ N(p, "streams_teardown") = N(r, "streams_teardown")
           /\ N(p, "tell_closed") = N(r, "tell_closed")
           /\ N(p, "committed") = N(r, "committed")
           /\ N(p, "commit_end") = N(r, "commit_end")
           /\ N(p, "backend_release") = N(r, "backend_release")
           /\ N(p, "open_rest") = N(r, "open_rest")
           /\ N(p, "conn_fatal") = N(r, "conn_fatal")
      BY <3>5
    <3>13. Ending(p)'
      BY <3>10, <3>12 DEF Ending
    <3>14. ASSUME NEW h \in Slots PROVE TornLater(p, T, h)'
      <4>1. TornLater(r, T, h)' /\ \A g \in Waiting(r) : g \in Waiting(p)
        BY <3>4
      <4> QED
        BY <4>1, <3>6 DEF TornLater
    <3> QED
      BY <3>3, <3>9, <3>11, <3>12, <3>13, <3>14
  <2> QED
    BY <2>1, <2>2
<1>2. Accounts(agenda, cbDepth, hs, told)'
  BY <1>1, Behind
<1>3. (commitDepth = N(agenda, "committed"))'
  BY <1>1 DEF N
<1>4. (freed <=> (refs = 0 /\ cbDepth = 0))' /\ (late = FALSE)'
  BY DEF IInv
<1> QED
  BY <1>2, <1>3, <1>4 DEF IInv
=============================================================================
