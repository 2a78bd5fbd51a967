--------------------------- MODULE NwLifecycle_proof ------------------------
(***************************************************************************)
(* Proofs about NwLifecycle, for every set of threads and every bound: the *)
(* handle and the driver outlive whoever will touch them, accepted posts   *)
(* run in order before rundown, nothing reaches the application behind     *)
(* on_stopped, and a delayed ring is never early.                          *)
(***************************************************************************)
EXTENDS NwLifecycle, FiniteSetTheorems, TLAPS

-----------------------------------------------------------------------------
(* What is true of the blocks on a queue q, when r posts have run and n    *)
(* were accepted.                                                          *)

Has(q, k) == \E i \in 1..Len(q) : q[i].k = k

(* Blocks that may come behind the finish block: deliveries of a doorbell  *)
(* source, and the group's late report.                                    *)
LateKinds == {"bell", "timer", "cancelled"}

(* The posts on the queue are those accepted and not yet run, in order.    *)
PostsInOrder(q, r, n) ==
    /\ \A i \in 1..Len(q) : q[i].k = "post" => q[i].n \in (r + 1)..n
    /\ \A i, j \in 1..Len(q) :
         q[i].k = "post" /\ q[j].k = "post" /\ i < j => q[i].n < q[j].n
    /\ \A m \in (r + 1)..n :
         \E i \in 1..Len(q) : q[i].k = "post" /\ q[i].n = m
(* One stop, behind all posts; one finish, behind almost everything.       *)
StopBehindPosts(q) ==
    \A i, j \in 1..Len(q) :
        q[i].k = "stop" /\ i < j => q[j].k \notin {"post", "stop"}
FinishBehindAll(q) ==
    \A i, j \in 1..Len(q) :
        q[i].k = "finish" /\ i < j => q[j].k \in LateKinds
InOrder(q, r, n) ==
    PostsInOrder(q, r, n) /\ StopBehindPosts(q) /\ FinishBehindAll(q)

(* p is q with block b behind it; p is q without its first block.          *)
Adds(q, p, b) ==
    /\ Len(q) \in Nat /\ Len(p) = Len(q) + 1 /\ p[Len(q) + 1] = b
    /\ \A i \in 1..Len(q) : p[i] = q[i]
Sheds(q, p) ==
    /\ Len(q) \in Nat /\ Len(q) > 0 /\ Len(p) = Len(q) - 1
    /\ \A i \in 1..Len(p) : p[i] = q[i + 1]

LEMMA Appends ==
    ASSUME NEW S, NEW q \in Seq(S), NEW b \in S
    PROVE  Append(q, b) \in Seq(S) /\ Adds(q, Append(q, b), b)
  BY DEF Adds

LEMMA Drops ==
    ASSUME NEW S, NEW q \in Seq(S), q /= <<>>
    PROVE  Tail(q) \in Seq(S) /\ Sheds(q, Tail(q)) /\ Head(q) = q[1]
  BY DEF Sheds

LEMMA Concats ==
    ASSUME NEW S, NEW q \in Seq(S), NEW b \in S
    PROVE  q \o <<b>> = Append(q, b) /\ q \o <<>> = q
  OBVIOUS

(* What a block behind the queue changes.                                  *)
LEMMA HasAdds ==
    ASSUME NEW q, NEW p, NEW b, Adds(q, p, b), NEW k
    PROVE  Has(p, k) <=> Has(q, k) \/ b.k = k
  BY DEF Adds, Has

LEMMA OrderAdds ==
    ASSUME NEW q, NEW p, NEW b, Adds(q, p, b), NEW r \in Nat, NEW n \in Nat,
           InOrder(q, r, n), r <= n,
           b.k \in {"post", "stop"} => ~Has(q, "stop"),
           Has(q, "finish") => b.k \in LateKinds,
           b.k = "post" => b.n = n + 1
    PROVE  InOrder(p, r, IF b.k = "post" THEN n + 1 ELSE n)
  <1> DEFINE m == IF b.k = "post" THEN n + 1 ELSE n
  <1>1. PostsInOrder(p, r, m)
    <2>1. CASE b.k = "post"
      <3>1. \A i \in 1..Len(p) : p[i].k = "post" => p[i].n \in (r + 1)..m
        BY <2>1 DEF Adds, InOrder, PostsInOrder
      <3>2. \A i, j \in 1..Len(p) :
              p[i].k = "post" /\ p[j].k = "post" /\ i < j => p[i].n < p[j].n
        <4> SUFFICES ASSUME NEW i \in 1..Len(p), NEW j \in 1..Len(p), i < j,
                            p[i].k = "post", p[j].k = "post"
                     PROVE  p[i].n < p[j].n
          OBVIOUS
        <4>1. i \in 1..Len(q) /\ p[i] = q[i] /\ q[i].n \in (r + 1)..n
          BY DEF Adds, InOrder, PostsInOrder
        <4>2. CASE j \in 1..Len(q)
          BY <4>1, <4>2 DEF Adds, InOrder, PostsInOrder
        <4>3. CASE j \notin 1..Len(q)
          BY <2>1, <4>1, <4>3 DEF Adds
        <4> QED BY <4>2, <4>3
      <3>3. \A x \in (r + 1)..m :
              \E i \in 1..Len(p) : p[i].k = "post" /\ p[i].n = x
        <4> TAKE x \in (r + 1)..m
        <4>1. CASE x = n + 1
          BY <2>1, <4>1 DEF Adds
        <4>2. CASE x # n + 1
          <5>1. x \in (r + 1)..n
            BY <2>1, <4>2
          <5>2. PICK i \in 1..Len(q) : q[i].k = "post" /\ q[i].n = x
            BY <5>1 DEF InOrder, PostsInOrder
          <5> QED BY <5>2 DEF Adds
        <4> QED BY <4>1, <4>2
      <3> QED BY <3>1, <3>2, <3>3 DEF PostsInOrder
    <2>2. CASE b.k # "post"
      <3>1. \A x \in (r + 1)..n :
              \E i \in 1..Len(p) : p[i].k = "post" /\ p[i].n = x
        <4> TAKE x \in (r + 1)..n
        <4>1. PICK i \in 1..Len(q) : q[i].k = "post" /\ q[i].n = x
          BY DEF InOrder, PostsInOrder
        <4> QED BY <4>1 DEF Adds
      <3>2. \A i \in 1..Len(p) :
              p[i].k = "post" => i \in 1..Len(q) /\ p[i] = q[i]
        BY <2>2 DEF Adds
      <3>3. \A i \in 1..Len(p) : p[i].k = "post" => p[i].n \in (r + 1)..n
        BY <3>2 DEF InOrder, PostsInOrder
      <3>4. \A i, j \in 1..Len(p) :
              p[i].k = "post" /\ p[j].k = "post" /\ i < j => p[i].n < p[j].n
        BY <3>2 DEF InOrder, PostsInOrder
      <3> QED BY <2>2, <3>1, <3>3, <3>4 DEF PostsInOrder
    <2> QED BY <2>1, <2>2
  <1>2. StopBehindPosts(p)
    BY DEF Adds, InOrder, StopBehindPosts, Has
  <1>3. FinishBehindAll(p)
    BY DEF Adds, InOrder, FinishBehindAll, Has
  <1> QED BY <1>1, <1>2, <1>3 DEF InOrder

(* What running the first block changes.                                   *)
LEMMA HasSheds ==
    ASSUME NEW q, NEW p, Sheds(q, p), NEW k
    PROVE  /\ Has(p, k) => Has(q, k)
           /\ Has(q, k) => Has(p, k) \/ q[1].k = k
  <1>1. ASSUME Has(p, k) PROVE Has(q, k)
    <2>1. PICK i \in 1..Len(p) : p[i].k = k
      BY <1>1 DEF Has
    <2>2. i + 1 \in 1..Len(q) /\ q[i + 1].k = k
      BY <2>1 DEF Sheds
    <2> QED BY <2>2 DEF Has
  <1>2. ASSUME Has(q, k), q[1].k # k PROVE Has(p, k)
    <2>1. PICK i \in 1..Len(q) : q[i].k = k
      BY <1>2 DEF Has
    <2>2. i - 1 \in 1..Len(p) /\ p[i - 1].k = k
      BY <2>1, <1>2 DEF Sheds
    <2> QED BY <2>2 DEF Has
  <1> QED BY <1>1, <1>2

LEMMA OrderSheds ==
    ASSUME NEW q, NEW p, Sheds(q, p), NEW r \in Nat, NEW n \in Nat,
           InOrder(q, r, n), r <= n
    PROVE  /\ InOrder(p, IF q[1].k = "post" THEN r + 1 ELSE r, n)
           /\ q[1].k = "post" => q[1].n = r + 1 /\ r < n
           /\ q[1].k = "stop" => ~Has(p, "stop") /\ r = n
           /\ q[1].k = "finish" => \A k : Has(p, k) => k \in LateKinds
  <1> DEFINE s == IF q[1].k = "post" THEN r + 1 ELSE r
  <1>1. 1 \in 1..Len(q) /\ \A j \in 1..Len(p) : j + 1 \in 1..Len(q)
    BY DEF Sheds
  <1>2. ASSUME q[1].k = "post" PROVE q[1].n = r + 1 /\ r < n
    <2>1. q[1].n \in (r + 1)..n
      BY <1>1, <1>2 DEF InOrder, PostsInOrder
    <2>2. PICK i \in 1..Len(q) : q[i].k = "post" /\ q[i].n = r + 1
      BY <2>1 DEF InOrder, PostsInOrder
    <2>3. i > 1 => q[1].n < r + 1
      BY <1>1, <1>2, <2>2 DEF InOrder, PostsInOrder
    <2> QED BY <1>1, <2>1, <2>2, <2>3
  <1>3. PostsInOrder(p, s, n)
    <2>1. \A i \in 1..Len(p) : p[i].k = "post" => p[i].n \in (s + 1)..n
      <3> SUFFICES ASSUME NEW i \in 1..Len(p), p[i].k = "post"
                   PROVE  p[i].n \in (s + 1)..n
        OBVIOUS
      <3>1. p[i] = q[i + 1] /\ i + 1 \in 1..Len(q) /\ 1 < i + 1
        BY <1>1 DEF Sheds
      <3>2. q[i + 1].n \in (r + 1)..n
        BY <3>1 DEF InOrder, PostsInOrder
      <3>3. q[1].k = "post" => q[1].n < q[i + 1].n
        BY <1>1, <3>1 DEF InOrder, PostsInOrder
      <3> QED BY <1>2, <3>1, <3>2, <3>3
    <2>2. \A i, j \in 1..Len(p) :
            p[i].k = "post" /\ p[j].k = "post" /\ i < j => p[i].n < p[j].n
      <3> SUFFICES ASSUME NEW i \in 1..Len(p), NEW j \in 1..Len(p), i < j,
                          p[i].k = "post", p[j].k = "post"
                   PROVE  p[i].n < p[j].n
        OBVIOUS
      <3>1. p[i] = q[i + 1] /\ p[j] = q[j + 1] /\ i + 1 < j + 1
        BY DEF Sheds
      <3> QED BY <1>1, <3>1 DEF InOrder, PostsInOrder
    <2>3. \A x \in (s + 1)..n :
            \E i \in 1..Len(p) : p[i].k = "post" /\ p[i].n = x
      <3> TAKE x \in (s + 1)..n
      <3>1. PICK i \in 1..Len(q) : q[i].k = "post" /\ q[i].n = x
        BY DEF InOrder, PostsInOrder
      <3>2. i # 1
        BY <1>2, <3>1
      <3>3. i - 1 \in 1..Len(p) /\ p[i - 1] = q[i]
        BY <3>1, <3>2 DEF Sheds
      <3> QED BY <3>1, <3>3
    <2> QED BY <2>1, <2>2, <2>3 DEF PostsInOrder
  <1>4. StopBehindPosts(p)
    <2> SUFFICES ASSUME NEW i \in 1..Len(p), NEW j \in 1..Len(p), i < j,
                        p[i].k = "stop"
                 PROVE  p[j].k \notin {"post", "stop"}
      BY DEF StopBehindPosts
    <2>1. p[i] = q[i + 1] /\ p[j] = q[j + 1] /\ i + 1 < j + 1
      BY DEF Sheds
    <2> QED BY <1>1, <2>1 DEF InOrder, StopBehindPosts
  <1>5. FinishBehindAll(p)
    <2> SUFFICES ASSUME NEW i \in 1..Len(p), NEW j \in 1..Len(p), i < j,
                        p[i].k = "finish"
                 PROVE  p[j].k \in LateKinds
      BY DEF FinishBehindAll
    <2>1. p[i] = q[i + 1] /\ p[j] = q[j + 1] /\ i + 1 < j + 1
      BY DEF Sheds
    <2> QED BY <1>1, <2>1 DEF InOrder, FinishBehindAll
  <1>6. ASSUME q[1].k = "stop" PROVE ~Has(p, "stop") /\ r = n
    <2>1. \A j \in 1..Len(q) : q[j].k # "post" /\ (j > 1 => q[j].k # "stop")
      BY <1>1, <1>6 DEF InOrder, StopBehindPosts
    <2>2. r = n
      <3> SUFFICES ASSUME r # n PROVE FALSE
        OBVIOUS
      <3>1. n \in (r + 1)..n
        OBVIOUS
      <3>2. PICK i \in 1..Len(q) : q[i].k = "post" /\ q[i].n = n
        BY <3>1 DEF InOrder, PostsInOrder
      <3> QED BY <2>1, <3>2
    <2>3. ~Has(p, "stop")
      <3> SUFFICES ASSUME NEW i \in 1..Len(p), p[i].k = "stop" PROVE FALSE
        BY DEF Has
      <3>1. p[i] = q[i + 1] /\ i + 1 \in 1..Len(q) /\ i + 1 > 1
        BY <1>1 DEF Sheds
      <3> QED BY <2>1, <3>1
    <2> QED BY <2>2, <2>3
  <1>7. ASSUME q[1].k = "finish", NEW k, Has(p, k) PROVE k \in LateKinds
    <2>1. PICK i \in 1..Len(p) : p[i].k = k
      BY <1>7 DEF Has
    <2>2. p[i] = q[i + 1] /\ i + 1 \in 1..Len(q) /\ 1 < i + 1
      BY <1>1 DEF Sheds
    <2> QED BY <1>1, <1>7, <2>1, <2>2 DEF InOrder, FinishBehindAll
  <1> QED BY <1>2, <1>3, <1>4, <1>5, <1>6, <1>7 DEF InOrder

LEMMA NoPostLeft ==
    ASSUME NEW q, NEW r \in Nat, NEW n \in Nat, InOrder(q, r, n), r <= n
    PROVE  Has(q, "post") <=> r < n
  <1>1. ASSUME Has(q, "post") PROVE r < n
    BY <1>1 DEF Has, InOrder, PostsInOrder
  <1>2. ASSUME r < n PROVE Has(q, "post")
    <2>1. n \in (r + 1)..n
      BY <1>2
    <2> QED BY <2>1 DEF Has, InOrder, PostsInOrder
  <1> QED BY <1>1, <1>2


(* The two moves of the domain queue, as the actions make them.            *)
LEMMA Push ==
    ASSUME NEW S, NEW q \in Seq(S), NEW b \in S, NEW r \in Nat, NEW n \in Nat,
           InOrder(q, r, n), r <= n,
           b.k \in {"post", "stop"} => ~Has(q, "stop"),
           Has(q, "finish") => b.k \in LateKinds,
           b.k = "post" => b.n = n + 1
    PROVE  /\ Append(q, b) \in Seq(S)
           /\ InOrder(Append(q, b), r, IF b.k = "post" THEN n + 1 ELSE n)
           /\ \A k : Has(Append(q, b), k) <=> Has(q, k) \/ b.k = k
  BY Appends, HasAdds, OrderAdds

LEMMA Pop ==
    ASSUME NEW S, NEW q \in Seq(S), q /= <<>>, NEW r \in Nat, NEW n \in Nat,
           InOrder(q, r, n), r <= n
    PROVE  /\ Tail(q) \in Seq(S) /\ Head(q) \in S /\ Has(q, Head(q).k)
           /\ InOrder(Tail(q), IF Head(q).k = "post" THEN r + 1 ELSE r, n)
           /\ \A k : Has(Tail(q), k) => Has(q, k)
           /\ \A k : Has(q, k) => Has(Tail(q), k) \/ Head(q).k = k
           /\ Head(q).k = "post" => Head(q).n = r + 1 /\ r < n
           /\ Head(q).k = "stop" => ~Has(Tail(q), "stop") /\ r = n
           /\ Head(q).k = "finish" =>
                \A k : Has(Tail(q), k) => k \in LateKinds
  <1>1. Tail(q) \in Seq(S) /\ Sheds(q, Tail(q)) /\ Head(q) = q[1]
        /\ Head(q) \in S
    BY Drops
  <1>2. Has(q, Head(q).k)
    BY <1>1 DEF Has, Sheds
  <1> QED BY <1>1, <1>2, HasSheds, OrderSheds

LEMMA EmptyInOrder ==
    InOrder(<<>>, 0, 0) /\ \A k : ~Has(<<>>, k)
  BY DEF InOrder, PostsInOrder, StopBehindPosts, FinishBehindAll, Has

-----------------------------------------------------------------------------
(* The inductive invariant.                                                *)

Built == boot \notin {"build", "failed"}
Over == conn.stopped_done \/ at \in {"stopped", "unpin"}

(* Before the handle is published there is nothing.                        *)
Nothing ==
    /\ res = {} /\ queue = <<>> /\ at = "idle" /\ accepted = 0 /\ ran = <<>>
    /\ \A a \in Actors : op[a] = "none" /\ held[a] = 0
    /\ conn.refs = 0 /\ drv.pins = 0 /\ drv.kids = 0
    /\ conn.start_state = "QUEUED" /\ ~conn.armed
    /\ ~conn.stop_started /\ ~conn.stopped_done

(* The latches of start and stop, and what the group has been told.        *)
Latches ==
    /\ conn.closed <=> conn.stop_started
    /\ conn.stop_enqueued =>
         conn.stop_started /\ conn.start_state = "STARTED"
    /\ drv.rundown <=> drv.stop_started
    /\ drv.stop_started => conn.stop_enqueued /\ drv.shutdown_started
    /\ conn.stopped_done <=> conn.lifecycle_over
    /\ conn.start_state = "STARTED" => boot \in {"started", "done"}
    /\ group.state /= "new" <=> boot \in {"running", "started", "done"}
    /\ group.cancel => group.state /= "new"

(* The stop block is in one place: a thread about to enqueue it, the       *)
(* queue, or past.                                                         *)
StopOnce ==
    /\ \A a \in Actors : op[a] = "enqueue_stop" =>
         conn.stop_enqueued /\ ~drv.stop_started /\ ~Has(queue, "stop")
    /\ \A a, b \in Actors :
         op[a] = "enqueue_stop" /\ op[b] = "enqueue_stop" => a = b
    /\ Has(queue, "stop") => conn.stop_enqueued /\ ~drv.stop_started

(* Posts run in order, and none is accepted behind the stop.               *)
Queued ==
    /\ ran = [i \in 1..Len(ran) |-> i] /\ Len(ran) <= accepted
    /\ InOrder(queue, Len(ran), accepted)
    /\ drv.rundown => Len(ran) = accepted
    /\ at = "post" => Len(ran) > 0

(* The transport's end, the finish block, and what is left behind it.      *)
Finishing ==
    /\ drv.finish_scheduled => drv.terminal_done /\ drv.stop_started
    /\ drv.terminal_done => "session" \notin res
    /\ drv.terminal_done \/ Has(queue, "failed") \/ Has(queue, "cancelled") =>
         group.state \in {"failed", "cancelled"}
    /\ \A k : Has(queue, k) /\ k \notin {"post", "bell", "timer"} =>
         group.state /= "new"
    /\ Has(queue, "finish") => drv.finish_scheduled /\ ~Over
    /\ Over =>
         /\ drv.finish_scheduled /\ res \cap Sources = {}
         /\ \A k : Has(queue, k) => k \in LateKinds
         /\ at \notin {"post", "bell"}
    /\ at = "stopped" => ~conn.stopped_done
    /\ at = "unpin" => conn.stopped_done
    /\ at = "bell" => "bell" \in res

(* The references, one token each.                                         *)
Outstanding(n) ==
    n <= accepted /\ (n > Len(ran) \/ (n = Len(ran) /\ at = "post"))
Tokens ==
    {t \in {"held", "post", "start"} \X Actors \X Nat :
        \/ t[1] = "held" /\ 1 <= t[3] /\ t[3] <= held[t[2]]
        \/ t[1] = "post" /\ t[2] = Creator /\ Outstanding(t[3])
        \/ t[1] = "start" /\ t[2] = Creator /\ t[3] = 0 /\ Starting}
Counted == IsFiniteSet(Tokens) /\ conn.refs = Cardinality(Tokens)

(* Who has the handle still to free, or to stop.                           *)
Handled ==
    /\ Built /\ (conn.refs > 0 \/ ~conn.lifecycle_over) => "handle" \in res
    /\ \A a \in Actors : op[a] = "free" =>
         "handle" \in res /\ conn.refs = 0 /\ conn.lifecycle_over
    /\ \A a, b \in Actors : op[a] = "free" /\ op[b] = "free" => a = b
    /\ \A a \in Actors : op[a] = "implicit_stop" =>
         conn.refs = 0 /\ ~conn.stop_started
    /\ \A a, b \in Actors :
         op[a] = "implicit_stop" /\ op[b] = "implicit_stop" => a = b
    /\ \A a \in Actors : op[a] = "join" => held[a] > 0

(* The driver's pins: one for each child, one until the finish is over.    *)
Pinned ==
    Built =>
      /\ drv.pins = drv.kids + IF conn.stopped_done /\ at /= "unpin"
                               THEN 0 ELSE 1
      /\ "driver" \in res <=> drv.pins > 0

(* A deadline is that of the latest arm, or saturated.                     *)
Timed ==
    /\ ~early
    /\ conn.armed => conn.deadline = owed \/ conn.deadline = MaxUptime

IInv ==
    /\ TypeOK /\ (~Built => Nothing) /\ Latches /\ StopOnce
    /\ Queued /\ Finishing /\ Counted /\ Handled /\ Pinned /\ Timed

-----------------------------------------------------------------------------
(* The references.                                                         *)

(* A step that moves no reference leaves the tokens alone.                 *)
LEMMA TokensKept ==
    ASSUME UNCHANGED <<held, accepted, ran>>,
           (at = "post") <=> (at' = "post"), Starting <=> Starting'
    PROVE  Tokens' = Tokens
  BY DEF Tokens, Outstanding

LEMMA CountKept ==
    ASSUME Counted, conn'.refs = conn.refs, Tokens' = Tokens
    PROVE  Counted'
  BY DEF Counted

LEMMA TokenAdded ==
    ASSUME Counted, NEW t, t \notin Tokens, Tokens' = Tokens \cup {t},
           conn'.refs = conn.refs + 1
    PROVE  Counted'
  BY FS_AddElement DEF Counted

LEMMA TokenRemoved ==
    ASSUME Counted, NEW t \in Tokens, Tokens' = Tokens \ {t},
           conn'.refs = conn.refs - 1
    PROVE  Counted' /\ conn.refs > 0
  <1>1. Cardinality(Tokens) \in Nat /\ Cardinality(Tokens) > 0
    BY FS_CardinalityType, FS_EmptySet DEF Counted
  <1> QED BY <1>1, FS_RemoveElement DEF Counted

(* An accepted post that has not returned is counted, and so is the start. *)
LEMMA TokenCounts ==
    ASSUME Counted, NEW t \in Tokens
    PROVE  conn.refs > 0
  BY FS_CardinalityType, FS_EmptySet DEF Counted

(* Each reference a thread owns is counted.                                *)
LEMMA HeldRefs ==
    Counted' =>
      \A b \in Actors : held'[b] \in Nat => held'[b] <= conn'.refs
  <1> SUFFICES ASSUME Counted', NEW b \in Actors, held'[b] \in Nat
               PROVE  held'[b] <= conn'.refs
    OBVIOUS
  <1>1. \A i \in 1..held'[b] : <<"held", b, i>> \in Tokens'
    BY DEF Tokens
  <1>2. [i \in 1..held'[b] |-> <<"held", b, i>>]
          \in Injection(1..held'[b], Tokens')
    BY <1>1 DEF Injection, IsInjective
  <1>3. Cardinality(1..held'[b]) = IF 1 > held'[b] THEN 0
                                   ELSE held'[b] - 1 + 1
    BY FS_Interval
  <1>4. Cardinality(1..held'[b]) = held'[b]
    BY <1>3
  <1> QED BY <1>2, <1>4, FS_Injection DEF Counted

-----------------------------------------------------------------------------
(* What every step finds.                                                  *)

LEMMA Bounds ==
    ASSUME TypeOK
    PROVE  /\ limit.refs \in Nat \ {0, 1} /\ limit.posts \in Nat
           /\ limit.rings \in Nat /\ limit.kids \in Nat /\ limit.time \in Nat
           /\ limit.time < MaxUptime /\ MaxUptime \in Nat
           /\ MaxDelay \in Nat /\ Never \in Nat /\ Never > limit.time
           /\ limit.threads \subseteq Actors /\ limit.delays \subseteq Nat
           /\ Creator \in Actors /\ "main" \in Actors /\ "domain" \in Actors
           /\ Creator \notin {"main", "domain"}
  BY ThreadAssumption, BoundAssumption DEF TypeOK, Never, Actors

LEMMA SameTypes ==
    ASSUME limit' = limit
    PROVE  Blocks' = Blocks /\ Handles' = Handles /\ Drivers' = Drivers
  BY DEF Blocks, Handles, Drivers

LEMMA QueueFacts ==
    ASSUME IInv
    PROVE  /\ queue \in Seq(Blocks) /\ Len(ran) \in Nat /\ accepted \in Nat
           /\ Len(ran) <= accepted /\ InOrder(queue, Len(ran), accepted)
           /\ at = "post" => Len(ran) > 0
  <1>1. queue \in Seq(Blocks) /\ Len(ran) \in Nat /\ accepted \in Nat
    BY Bounds DEF IInv, TypeOK
  <1> QED BY <1>1 DEF IInv, Queued

(* Everything in a handle but its reference count.                         *)
SameFlags(c, e) ==
    /\ e.closed = c.closed /\ e.stop_started = c.stop_started
    /\ e.start_state = c.start_state /\ e.stop_enqueued = c.stop_enqueued
    /\ e.stopped_done = c.stopped_done
    /\ e.lifecycle_over = c.lifecycle_over /\ e.on_doorbell = c.on_doorbell
    /\ e.armed = c.armed /\ e.deadline = c.deadline

(* Who calls has a reference, its own, or that of the post that runs, or   *)
(* that of a thread.                                                       *)
LEMMA Callers ==
    ASSUME IInv, NEW a \in Actors, MayCall(a)
    PROVE  /\ Built /\ conn.refs > 0 /\ "handle" \in res /\ op[a] = "none"
           /\ a /= "domain" => held[a] > 0
           /\ a = "domain" => at \in {"post", "bell", "stopped"}
  <1>1. op[a] = "none"
    BY DEF MayCall
  <1>2. a /= "domain" => held[a] > 0
    BY DEF MayCall
  <1>3. a = "domain" => at \in {"post", "bell", "stopped"}
    BY DEF MayCall
  <1>4. Built
    <2> SUFFICES ASSUME ~Built PROVE FALSE
      OBVIOUS
    <2>1. at = "idle" /\ held[a] = 0
      BY DEF IInv, Nothing
    <2> QED BY <1>2, <1>3, <2>1
  <1>5. conn.refs > 0
    <2>1. ASSUME NEW b \in Actors, held[b] > 0 PROVE conn.refs > 0
      <3>1. held[b] \in Nat
        BY Bounds DEF IInv, TypeOK
      <3>2. <<"held", b, 1>> \in Tokens
        BY <2>1, <3>1 DEF Tokens
      <3> QED BY <3>2, TokenCounts DEF IInv
    <2>2. ASSUME at = "post" PROVE conn.refs > 0
      <3>1. <<"post", Creator, Len(ran)>> \in Tokens
        BY <2>2, QueueFacts, Bounds DEF IInv, Tokens, Outstanding
      <3> QED BY <3>1, TokenCounts DEF IInv
    <2> QED BY <1>2, <2>1, <2>2 DEF MayCall, Actors
  <1> QED BY <1>1, <1>2, <1>3, <1>4, <1>5 DEF IInv, Handled

(* A release, of any of the three kinds of reference.                      *)
LEMMA Dropped ==
    ASSUME IInv, NEW a \in Actors, Drop(a)
    PROVE  /\ conn' \in Handles /\ conn'.refs = conn.refs - 1
           /\ conn.refs \in Nat /\ conn.refs > 0 /\ SameFlags(conn, conn')
           /\ op' \in [Actors -> {"none", "implicit_stop", "enqueue_stop",
                                  "free", "join"}]
           /\ \A b \in Actors : op'[b] = IF b = a THEN AfterDrop ELSE op[b]
  <1>1. conn' = [conn EXCEPT !.refs = conn.refs - 1] /\ conn.refs > 0
        /\ op' = [op EXCEPT ![a] = AfterDrop]
    BY DEF Drop
  <1>b. limit.refs \in Nat /\ conn \in Handles
    BY Bounds DEF IInv, TypeOK
  <1>2. conn' \in Handles /\ conn'.refs = conn.refs - 1 /\ conn.refs \in Nat
        /\ SameFlags(conn, conn')
    BY <1>1, <1>b DEF Handles, SameFlags
  <1>3. AfterDrop \in {"none", "implicit_stop", "free"}
    BY DEF AfterDrop
  <1> QED BY <1>1, <1>2, <1>3 DEF IInv, TypeOK

(* What putting a block other than a post behind the queue changes.        *)
Kinds == {"bell", "timer", "stop", "finish", "ready", "waiting", "failed",
          "cancelled", "verify", "gcancel"}

LEMMA Enqueues ==
    ASSUME IInv, NEW k \in Kinds, k = "stop" => ~Has(queue, "stop"),
           Has(queue, "finish") => k \in LateKinds
    PROVE  /\ Append(queue, Block(k)) \in Seq(Blocks)
           /\ InOrder(Append(queue, Block(k)), Len(ran), accepted)
           /\ \A x : Has(Append(queue, Block(k)), x) <=> Has(queue, x) \/ x = k
  <1> DEFINE b == Block(k)
  <1>1. b \in Blocks /\ b.k = k /\ k # "post"
    BY Bounds DEF IInv, Blocks, Block, Kinds
  <1> HIDE DEF b
  <1>2. /\ Append(queue, b) \in Seq(Blocks)
        /\ InOrder(Append(queue, b), Len(ran),
                   IF b.k = "post" THEN accepted + 1 ELSE accepted)
        /\ \A x : Has(Append(queue, b), x) <=> Has(queue, x) \/ b.k = x
    BY <1>1, QueueFacts, Push
  <1>3. /\ Append(queue, b) \in Seq(Blocks)
        /\ InOrder(Append(queue, b), Len(ran), accepted)
        /\ \A x : Has(Append(queue, b), x) <=> Has(queue, x) \/ x = k
    BY <1>1, <1>2
  <1> QED BY <1>3 DEF b

LEMMA Raises ==
    ASSUME IInv, NEW k \in Sources
    PROVE  /\ Raise(k) \in Seq(Blocks)
           /\ InOrder(Raise(k), Len(ran), accepted)
           /\ \A x : Has(Raise(k), x) <=> Has(queue, x) \/ x = k
  <1>1. Pending(k) <=> Has(queue, k)
    BY DEF Pending, Has
  <1>2. k \in Kinds /\ k \in LateKinds /\ k # "stop"
    BY DEF Sources, Kinds, LateKinds
  <1>3. CASE Pending(k)
    BY <1>1, <1>3, QueueFacts DEF Raise
  <1>4. CASE ~Pending(k)
    BY <1>2, <1>4, Enqueues DEF Raise
  <1> QED BY <1>3, <1>4

LEMMA Disarmed ==
    ASSUME NEW c \in Handles, MaxUptime \in Nat
    PROVE  /\ Disarm(c) \in Handles /\ Disarm(c).refs = c.refs
           /\ Disarm(c).stop_started = c.stop_started
           /\ Disarm(c).closed = c.closed
           /\ Disarm(c).start_state = c.start_state
           /\ Disarm(c).stop_enqueued = c.stop_enqueued
           /\ Disarm(c).stopped_done = c.stopped_done
           /\ Disarm(c).lifecycle_over = c.lifecycle_over
           /\ ~Disarm(c).armed
  <1>1. 0 \in 0..MaxUptime
    OBVIOUS
  <1> QED BY <1>1 DEF Disarm, Handles

(* The parts of the driver that one step or another leaves alone.          *)
SameStop(d, e) ==
    /\ e.rundown = d.rundown /\ e.stop_started = d.stop_started
    /\ e.shutdown_started = d.shutdown_started
SameEnd(d, e) ==
    e.terminal_done = d.terminal_done
    /\ e.finish_scheduled = d.finish_scheduled
SameCounts(d, e) == e.pins = d.pins /\ e.kids = d.kids

LEMMA CloseIs ==
    ASSUME NEW d \in Drivers
    PROVE  /\ Close(d) \in Drivers /\ SameCounts(d, Close(d))
           /\ SameEnd(d, Close(d)) /\ Close(d).shutdown_started
           /\ Close(d).rundown = d.rundown
           /\ Close(d).stop_started = d.stop_started
  BY DEF Close, Drivers, SameCounts, SameEnd

LEMMA ScheduledIs ==
    ASSUME NEW d \in Drivers
    PROVE  /\ Scheduled(d) \in Drivers /\ SameCounts(d, Scheduled(d))
           /\ SameStop(d, Scheduled(d))
           /\ Scheduled(d).terminal_done = d.terminal_done
           /\ Scheduled(d).finish_scheduled <=>
                d.finish_scheduled \/ (d.terminal_done /\ d.stop_started)
  <1>1. FinishDue(d) \in BOOLEAN
    BY DEF FinishDue
  <1>2. Scheduled(d).finish_scheduled = (d.finish_scheduled \/ FinishDue(d))
    BY <1>1 DEF Scheduled, Drivers
  <1>3. Scheduled(d) \in Drivers /\ SameCounts(d, Scheduled(d))
        /\ SameStop(d, Scheduled(d))
        /\ Scheduled(d).terminal_done = d.terminal_done
    BY <1>1 DEF Scheduled, Drivers, SameCounts, SameStop
  <1>4. Scheduled(d).finish_scheduled <=>
          d.finish_scheduled \/ (d.terminal_done /\ d.stop_started)
    <2>1. Scheduled(d).finish_scheduled <=>
            d.finish_scheduled \/ FinishDue(d)
      BY <1>2
    <2>2. FinishDue(d) <=>
            ~d.finish_scheduled /\ d.terminal_done /\ d.stop_started
      BY DEF FinishDue
    <2> QED BY <2>1, <2>2
  <1> QED BY <1>3, <1>4

(* A cancelled group: its state stays.                                     *)
Groups == [state : Live \cup {"new", "failed", "cancelled"},
           cancel : BOOLEAN]
LEMMA CloseGroupIs ==
    ASSUME TypeOK
    PROVE  CloseGroup(drv) \in Groups /\ CloseGroup(drv).state = group.state
  <1>1. group \in Groups /\ drv.shutdown_started \in BOOLEAN
    BY DEF TypeOK, Groups, Drivers
  <1>2. PICK x \in BOOLEAN : CloseGroup(drv) = [group EXCEPT !.cancel = x]
    BY <1>1 DEF CloseGroup, Groups
  <1> QED BY <1>1, <1>2 DEF Groups

-----------------------------------------------------------------------------
(* What running the first block changes, and putting one behind the rest.  *)
LEMMA Runs ==
    ASSUME IInv, NEW k, Run(k)
    PROVE  /\ at = "idle" /\ op["domain"] = "none" /\ Built /\ Has(queue, k)
           /\ queue /= <<>> /\ Head(queue).k = k
           /\ Tail(queue) \in Seq(Blocks)
           /\ \A x : Has(Tail(queue), x) => Has(queue, x)
           /\ InOrder(Tail(queue), IF k = "post" THEN Len(ran) + 1
                                                 ELSE Len(ran), accepted)
           /\ k = "post" => Head(queue).n = Len(ran) + 1
                            /\ Len(ran) < accepted
           /\ k = "stop" => ~Has(Tail(queue), "stop") /\ Len(ran) = accepted
           /\ k = "finish" =>
                \A x : Has(Tail(queue), x) => x \in LateKinds
  <1>1. at = "idle" /\ op["domain"] = "none" /\ queue /= <<>>
        /\ Head(queue).k = k
    BY DEF Run
  <1>2. Built
    BY <1>1 DEF IInv, Nothing
  <1> QED BY <1>1, <1>2, QueueFacts, Pop

LEMMA RunsThen ==
    ASSUME IInv, NEW k, Run(k), k # "post", NEW j \in Kinds \ {"stop"},
           Has(Tail(queue), "finish") => j \in LateKinds
    PROVE  LET q == Append(Tail(queue), Block(j))
           IN  /\ Tail(queue) \o <<Block(j)>> = q
               /\ q \in Seq(Blocks) /\ InOrder(q, Len(ran), accepted)
               /\ \A x : Has(q, x) <=> Has(Tail(queue), x) \/ x = j
  <1> DEFINE b == Block(j)
  <1> DEFINE t == Tail(queue)
  <1>1. b \in Blocks /\ b.k = j /\ j \notin {"post", "stop"}
    BY Bounds DEF IInv, Blocks, Block, Kinds
  <1>2. t \in Seq(Blocks) /\ InOrder(t, Len(ran), accepted)
    BY Runs
  <1>3. Has(t, "finish") => b.k \in LateKinds
    BY <1>1
  <1> HIDE DEF b, t
  <1>4. /\ Append(t, b) \in Seq(Blocks)
        /\ InOrder(Append(t, b), Len(ran),
                   IF b.k = "post" THEN accepted + 1 ELSE accepted)
        /\ \A x : Has(Append(t, b), x) <=> Has(t, x) \/ b.k = x
    BY <1>1, <1>2, <1>3, QueueFacts, Push
  <1>5. t \o <<b>> = Append(t, b)
    BY <1>1, <1>2, Concats
  <1>6. /\ InOrder(Append(t, b), Len(ran), accepted)
        /\ \A x : Has(Append(t, b), x) <=> Has(t, x) \/ x = j
    BY <1>1, <1>4
  <1> QED BY <1>4, <1>5, <1>6 DEF b, t

-----------------------------------------------------------------------------
(* Each step keeps the invariant: construction, start, and calls.          *)

LEMMA BuildFails ==
    ASSUME IInv, limit' = limit, nw_conn_build_fails
    PROVE  IInv'
  <1>a. res' = {} /\ boot' = "failed" /\ ~Built
    BY DEF nw_conn_build_fails, Acquired, RolledBack, Stages, Sources,
       Resources, Built
  <1>1. TypeOK'
    BY <1>a, SameTypes, Bounds DEF IInv, TypeOK, nw_conn_build_fails, clocks,
       ghosts
  <1>2. (~Built => Nothing)'
    BY <1>a DEF IInv, Built, Nothing, nw_conn_build_fails, clocks, ghosts
  <1>3. Latches'
    BY <1>a DEF IInv, Latches, nw_conn_build_fails, clocks, ghosts
  <1>4. StopOnce'
    BY <1>a DEF IInv, StopOnce, nw_conn_build_fails, clocks, ghosts
  <1>5. Queued'
    BY <1>a DEF IInv, Queued, nw_conn_build_fails, clocks, ghosts
  <1>6. Finishing'
    BY <1>a DEF IInv, Finishing, Over, nw_conn_build_fails, clocks, ghosts,
       Nothing
  <1>7. Counted'
    BY <1>a, TokensKept, CountKept DEF IInv, Starting, nw_conn_build_fails,
       clocks, ghosts
  <1>8. Handled'
    BY <1>a DEF IInv, Handled, Built, Nothing, nw_conn_build_fails, clocks,
       ghosts
  <1>9. Pinned'
    BY <1>a DEF IInv, Pinned, Built, nw_conn_build_fails, clocks, ghosts
  <1>10. Timed'
    BY <1>a DEF IInv, Timed, nw_conn_build_fails, clocks, ghosts
  <1> QED BY <1>1, <1>2, <1>3, <1>4, <1>5, <1>6, <1>7, <1>8, <1>9,
        <1>10 DEF IInv

LEMMA Join ==
    ASSUME IInv, limit' = limit, NEW a \in Actors, wtq_nw_conn_join(a)
    PROVE  IInv'
  <1>a. Built /\ held[a] > 0
    BY Callers DEF wtq_nw_conn_join
  <1>1. TypeOK'
    BY SameTypes, Bounds DEF IInv, TypeOK, wtq_nw_conn_join, clocks, ghosts
  <1>2. (~Built => Nothing)'
    BY <1>a DEF Built, wtq_nw_conn_join
  <1>3. Latches'
    BY DEF IInv, Latches, wtq_nw_conn_join, clocks, ghosts
  <1>4. StopOnce'
    BY DEF IInv, StopOnce, wtq_nw_conn_join, clocks, ghosts
  <1>5. Queued'
    BY DEF IInv, Queued, wtq_nw_conn_join, clocks, ghosts
  <1>6. Finishing'
    BY DEF IInv, Finishing, Over, wtq_nw_conn_join, clocks, ghosts
  <1>7. Counted'
    BY TokensKept, CountKept DEF IInv, Starting, wtq_nw_conn_join, clocks,
       ghosts
  <1>8. Handled'
    BY <1>a DEF IInv, TypeOK, Handled, Built, wtq_nw_conn_join, clocks, ghosts
  <1>9. Pinned'
    BY DEF IInv, Pinned, Built, wtq_nw_conn_join, clocks, ghosts
  <1>10. Timed'
    BY DEF IInv, Timed, wtq_nw_conn_join, clocks, ghosts
  <1> QED BY <1>1, <1>2, <1>3, <1>4, <1>5, <1>6, <1>7, <1>8, <1>9,
        <1>10 DEF IInv

LEMMA HandleFree ==
    ASSUME IInv, limit' = limit, NEW a \in Actors, nw_conn_handle_free(a)
    PROVE  IInv'
  <1>1. TypeOK'
    BY SameTypes, Bounds DEF IInv, TypeOK, nw_conn_handle_free, clocks, ghosts
  <1>2. (~Built => Nothing)'
    BY DEF IInv, Built, Nothing, nw_conn_handle_free, clocks, ghosts
  <1>3. Latches'
    BY DEF IInv, Latches, nw_conn_handle_free, clocks, ghosts
  <1>4. StopOnce'
    BY DEF IInv, StopOnce, nw_conn_handle_free, clocks, ghosts
  <1>5. Queued'
    BY DEF IInv, Queued, nw_conn_handle_free, clocks, ghosts
  <1>6. Finishing'
    BY DEF IInv, Finishing, Over, nw_conn_handle_free, clocks, ghosts
  <1>7. Counted'
    BY TokensKept, CountKept DEF IInv, Starting, nw_conn_handle_free, clocks,
       ghosts
  <1>8. Handled'
    <2>1. \A b \in Actors : op'[b] = IF b = a THEN "none" ELSE op[b]
      BY DEF nw_conn_handle_free, IInv, TypeOK
    <2>2. op[a] = "free" /\ UNCHANGED <<conn, boot,
          held>> /\ res' = res \ {"handle"}
      BY DEF nw_conn_handle_free
    <2> QED BY <2>1, <2>2 DEF IInv, Handled, Built
  <1>9. Pinned'
    BY DEF IInv, Pinned, Built, nw_conn_handle_free, clocks, ghosts
  <1>10. Timed'
    BY DEF IInv, Timed, nw_conn_handle_free, clocks, ghosts
  <1> QED BY <1>1, <1>2, <1>3, <1>4, <1>5, <1>6, <1>7, <1>8, <1>9,
        <1>10 DEF IInv

LEMMA StartBegins ==
    ASSUME IInv, limit' = limit, start_begins
    PROVE  IInv'
  <1>c. conn' \in Handles
    BY DEF start_begins, IInv, TypeOK, Handles
  <1>1. TypeOK'
    BY <1>c, SameTypes DEF IInv, TypeOK, start_begins, clocks, ghosts
  <1>2. (~Built => Nothing)'
    BY DEF IInv, Built, Nothing, start_begins, clocks, ghosts
  <1>3. Latches'
    BY DEF IInv, Latches, start_begins, clocks, ghosts
  <1>4. StopOnce'
    BY DEF IInv, StopOnce, start_begins, clocks, ghosts
  <1>5. Queued'
    BY DEF IInv, Queued, start_begins, clocks, ghosts
  <1>6. Finishing'
    BY DEF IInv, Finishing, Over, start_begins, clocks, ghosts
  <1>7. Counted'
    BY TokensKept, CountKept DEF IInv, Starting, start_begins, clocks, ghosts
  <1>8. Handled'
    BY DEF IInv, Handled, Built, start_begins, clocks, ghosts
  <1>9. Pinned'
    BY DEF IInv, Pinned, Built, start_begins, clocks, ghosts
  <1>10. Timed'
    BY DEF IInv, Timed, start_begins, clocks, ghosts
  <1> QED BY <1>1, <1>2, <1>3, <1>4, <1>5, <1>6, <1>7, <1>8, <1>9,
        <1>10 DEF IInv

LEMMA GroupStart ==
    ASSUME IInv, limit' = limit, nw_connection_group_start
    PROVE  IInv'
  <1>g. group' \in [state : Live \cup {"new", "failed", "cancelled"},
                    cancel : BOOLEAN] /\ group'.state = "up"
    BY DEF nw_connection_group_start, IInv, TypeOK, Live
  <1>1. TypeOK'
    BY <1>g, SameTypes DEF IInv, TypeOK, nw_connection_group_start, clocks,
       ghosts
  <1>2. (~Built => Nothing)'
    BY DEF IInv, Built, Nothing, nw_connection_group_start, clocks, ghosts
  <1>3. Latches'
    BY DEF IInv, Latches, nw_connection_group_start, clocks, ghosts
  <1>4. StopOnce'
    BY DEF IInv, StopOnce, nw_connection_group_start, clocks, ghosts
  <1>5. Queued'
    BY DEF IInv, Queued, nw_connection_group_start, clocks, ghosts
  <1>6. Finishing'
    BY <1>g DEF IInv, Finishing, Over, Latches, nw_connection_group_start,
       clocks, ghosts
  <1>7. Counted'
    BY TokensKept, CountKept DEF IInv, Starting, nw_connection_group_start,
       clocks, ghosts
  <1>8. Handled'
    BY DEF IInv, Handled, Built, nw_connection_group_start, clocks, ghosts
  <1>9. Pinned'
    BY DEF IInv, Pinned, Built, nw_connection_group_start, clocks, ghosts
  <1>10. Timed'
    BY DEF IInv, Timed, nw_connection_group_start, clocks, ghosts
  <1> QED BY <1>1, <1>2, <1>3, <1>4, <1>5, <1>6, <1>7, <1>8, <1>9,
        <1>10 DEF IInv

LEMMA Ticks ==
    ASSUME IInv, limit' = limit, Tick
    PROVE  IInv'
  <1>b. limit.time \in Nat
    BY Bounds DEF IInv
  <1>1. TypeOK'
    BY <1>b, SameTypes DEF IInv, TypeOK, Tick, clocks, ghosts
  <1>2. (~Built => Nothing)'
    BY DEF IInv, Built, Nothing, Tick, clocks, ghosts
  <1>3. Latches'
    BY DEF IInv, Latches, Tick, clocks, ghosts
  <1>4. StopOnce'
    BY DEF IInv, StopOnce, Tick, clocks, ghosts
  <1>5. Queued'
    BY DEF IInv, Queued, Tick, clocks, ghosts
  <1>6. Finishing'
    BY DEF IInv, Finishing, Over, Tick, clocks, ghosts
  <1>7. Counted'
    BY TokensKept, CountKept DEF IInv, Starting, Tick, clocks, ghosts
  <1>8. Handled'
    BY DEF IInv, Handled, Built, Tick, clocks, ghosts
  <1>9. Pinned'
    BY DEF IInv, Pinned, Built, Tick, clocks, ghosts
  <1>10. Timed'
    BY DEF IInv, Timed, Tick, clocks, ghosts
  <1> QED BY <1>1, <1>2, <1>3, <1>4, <1>5, <1>6, <1>7, <1>8, <1>9,
        <1>10 DEF IInv

LEMMA JoinReturns ==
    ASSUME IInv, limit' = limit, NEW a \in Actors, join_returns(a)
    PROVE  IInv'
  <1>1. TypeOK'
    BY SameTypes, Bounds DEF IInv, TypeOK, join_returns, clocks, ghosts
  <1>2. (~Built => Nothing)'
    BY DEF IInv, Built, Nothing, join_returns, clocks, ghosts
  <1>3. Latches'
    BY DEF IInv, Latches, join_returns, clocks, ghosts
  <1>4. StopOnce'
    BY DEF IInv, StopOnce, join_returns, clocks, ghosts
  <1>5. Queued'
    BY DEF IInv, Queued, join_returns, clocks, ghosts
  <1>6. Finishing'
    BY DEF IInv, Finishing, Over, join_returns, clocks, ghosts
  <1>7. Counted'
    BY TokensKept, CountKept DEF IInv, Starting, join_returns, clocks, ghosts
  <1>8. Handled'
    BY DEF IInv, Handled, Built, join_returns, clocks, ghosts
  <1>9. Pinned'
    BY DEF IInv, Pinned, Built, join_returns, clocks, ghosts
  <1>10. Timed'
    BY DEF IInv, Timed, join_returns, clocks, ghosts
  <1> QED BY <1>1, <1>2, <1>3, <1>4, <1>5, <1>6, <1>7, <1>8, <1>9,
        <1>10 DEF IInv

LEMMA BellReturns ==
    ASSUME IInv, limit' = limit, bell_returns
    PROVE  IInv'
  <1>1. TypeOK'
    BY SameTypes, Bounds DEF IInv, TypeOK, bell_returns, clocks, ghosts
  <1>2. (~Built => Nothing)'
    BY DEF IInv, Built, Nothing, bell_returns, clocks, ghosts
  <1>3. Latches'
    BY DEF IInv, Latches, bell_returns, clocks, ghosts
  <1>4. StopOnce'
    BY DEF IInv, StopOnce, bell_returns, clocks, ghosts
  <1>5. Queued'
    BY DEF IInv, Queued, bell_returns, clocks, ghosts
  <1>6. Finishing'
    BY DEF IInv, Finishing, Over, bell_returns, clocks, ghosts
  <1>7. Counted'
    BY TokensKept, CountKept DEF IInv, Starting, bell_returns, clocks, ghosts
  <1>8. Handled'
    BY DEF IInv, Handled, Built, bell_returns, clocks, ghosts
  <1>9. Pinned'
    BY DEF IInv, Pinned, Built, bell_returns, clocks, ghosts
  <1>10. Timed'
    BY DEF IInv, Timed, bell_returns, clocks, ghosts
  <1> QED BY <1>1, <1>2, <1>3, <1>4, <1>5, <1>6, <1>7, <1>8, <1>9,
        <1>10 DEF IInv

LEMMA ConnBuild ==
    ASSUME IInv, limit' = limit, nw_conn_build
    PROVE  IInv'
  <1>a. ~Built /\ Nothing /\ boot' = "queued" /\ Built'
    BY DEF nw_conn_build, Built, IInv
  <1>u. UNCHANGED <<queue, at, op, group, now, timer, accepted, ran, rings,
                    owed, early>>
    BY DEF nw_conn_build, clocks, ghosts
  <1>r. res' \subseteq Resources /\ {"handle", "driver"} \subseteq res'
    BY DEF nw_conn_build, Resources, Sources
  <1>b. limit.refs \in Nat \ {0, 1} /\ limit.kids \in Nat
        /\ conn \in Handles /\ drv \in Drivers
    BY Bounds DEF IInv, TypeOK
  <1>c. conn' \in Handles /\ conn'.refs = 2 /\ conn'.armed = conn.armed
        /\ conn'.closed = conn.closed /\ conn'.stop_started = conn.stop_started
        /\ conn'.start_state = conn.start_state
        /\ conn'.stop_enqueued = conn.stop_enqueued
        /\ conn'.stopped_done = conn.stopped_done
        /\ conn'.lifecycle_over = conn.lifecycle_over
        /\ conn'.deadline = conn.deadline
    <2>1. PICK x \in BOOLEAN :
            conn' = [conn EXCEPT !.refs = 2, !.on_doorbell = x]
      BY DEF nw_conn_build
    <2>2. 2 \in 0..limit.refs
      BY <1>b
    <2> DEFINE c == [conn EXCEPT !.refs = 2]
    <2>3. c \in Handles /\ c.refs = 2 /\ SameFlags(conn, c)
      BY <2>2, <1>b DEF Handles, SameFlags
    <2>4. conn' = [c EXCEPT !.on_doorbell = x]
      BY <2>1, <1>b DEF Handles
    <2> HIDE DEF c
    <2> QED BY <2>3, <2>4 DEF Handles, SameFlags
  <1>d. drv' \in Drivers /\ drv' = [drv EXCEPT !.pins = 1]
    BY <1>b DEF nw_conn_build, Drivers
  <1>h. /\ held' \in [Actors -> 0..limit.refs]
        /\ \A b \in Actors : held'[b] = IF b = Creator THEN 1 ELSE 0
    BY <1>a, Bounds DEF nw_conn_build, IInv, TypeOK, Nothing
  <1>1. TypeOK'
    BY <1>u, <1>r, <1>c, <1>d, <1>h, <1>a, SameTypes DEF IInv, TypeOK
  <1>2. (~Built => Nothing)'
    BY <1>a
  <1>3. Latches'
    BY <1>a, <1>u, <1>c, <1>d DEF IInv, Latches, TypeOK, Drivers, Built,
       Nothing
  <1>4. StopOnce'
    BY <1>a, <1>u, <1>c, <1>d DEF IInv, StopOnce, TypeOK, Drivers
  <1>5. Queued'
    BY <1>u, <1>d DEF IInv, Queued, TypeOK, Drivers
  <1>6. Finishing'
    <2>1. \A k : ~Has(queue, k)
      BY <1>a, EmptyInOrder DEF Nothing
    <2>2. /\ ~Over' /\ ~drv'.finish_scheduled /\ ~drv'.terminal_done
          /\ at' = "idle"
      BY <1>a, <1>u, <1>c, <1>d DEF Nothing, IInv, Over, Finishing, Latches,
         TypeOK, Drivers, Built
    <2> QED BY <1>u, <2>1, <2>2 DEF Finishing
  <1>7. Counted'
    <2> DEFINE s == <<"start", Creator, 0>>
    <2> DEFINE h == <<"held", Creator, 1>>
    <2>1. Tokens' = {s, h}
      BY <1>a, <1>u, <1>h, Bounds DEF IInv, Nothing, Tokens, Outstanding,
         Starting
    <2>2. s # h
      OBVIOUS
    <2> HIDE DEF s, h
    <2>3. IsFiniteSet({s}) /\ Cardinality({s}) = 1
      BY FS_Singleton
    <2>4. {s, h} = {s} \cup {h}
      OBVIOUS
    <2>5. IsFiniteSet({s, h}) /\ Cardinality({s, h}) = 2
      BY <2>2, <2>3, <2>4, FS_AddElement
    <2> QED BY <2>1, <2>5, <1>c DEF Counted
  <1>8. Handled'
    BY <1>a, <1>u, <1>r, <1>c DEF Nothing, Handled
  <1>9. Pinned'
    BY <1>a, <1>u, <1>r, <1>c, <1>d DEF IInv, TypeOK, Drivers, Nothing, Pinned
  <1>10. Timed'
    BY <1>u, <1>c, <1>a DEF IInv, Timed, Nothing
  <1> QED BY <1>1, <1>2, <1>3, <1>4, <1>5, <1>6, <1>7, <1>8, <1>9,
        <1>10 DEF IInv

LEMMA Retain ==
    ASSUME IInv, limit' = limit, NEW a \in Actors, NEW b \in limit.threads,
           wtq_nw_conn_retain(a, b)
    PROVE  IInv'
  <1>a. Built /\ conn.refs > 0 /\ "handle" \in res
    BY Callers DEF wtq_nw_conn_retain
  <1>b. limit.refs \in Nat /\ conn \in Handles /\ b \in Actors
        /\ held \in [Actors -> 0..limit.refs] /\ conn.refs < limit.refs
    BY Bounds DEF IInv, TypeOK, wtq_nw_conn_retain
  <1>u. UNCHANGED <<res, drv, queue, at, boot, op, group, now, timer,
                    accepted, ran, rings, owed, early>>
    BY DEF wtq_nw_conn_retain, clocks, ghosts
  <1>c. conn' \in Handles /\ conn'.refs = conn.refs + 1 /\ conn.refs \in Nat
        /\ SameFlags(conn, conn')
    BY <1>b DEF wtq_nw_conn_retain, Handles, SameFlags
  <1>h. /\ held' \in [Actors -> Nat]
        /\ \A x \in Actors : held'[x] = IF x = b THEN held[b] + 1 ELSE held[x]
    BY <1>b DEF wtq_nw_conn_retain
  <1>t. Counted'
    <2> DEFINE t == <<"held", b, held[b] + 1>>
    <2>1. Tokens' = Tokens \cup {t} /\ t \notin Tokens
      BY <1>b, <1>h, <1>u DEF Tokens, Outstanding, Starting
    <2> HIDE DEF t
    <2> QED BY <2>1, <1>c, TokenAdded DEF IInv
  <1>m. held' \in [Actors -> 0..limit.refs]
    <2>1. \A x \in Actors : held'[x] <= conn'.refs
      BY <1>t, <1>h, HeldRefs
    <2> QED BY <2>1, <1>h, <1>c, <1>b DEF Handles
  <1>1. TypeOK'
    BY <1>u, <1>c, <1>m, SameTypes DEF IInv, TypeOK
  <1>2. (~Built => Nothing)'
    BY <1>u, <1>a DEF Built
  <1>3. Latches'
    BY <1>u, <1>c DEF IInv, Latches, SameFlags
  <1>4. StopOnce'
    BY <1>u, <1>c DEF IInv, StopOnce, SameFlags
  <1>5. Queued'
    BY <1>u DEF IInv, Queued
  <1>6. Finishing'
    BY <1>u, <1>c DEF IInv, Finishing, Over, SameFlags
  <1>7. Counted'
    BY <1>t
  <1>8. Handled'
    BY <1>a, <1>b, <1>u, <1>c, <1>h DEF IInv, Handled, SameFlags
  <1>9. Pinned'
    BY <1>u, <1>c DEF IInv, Pinned, Built, SameFlags
  <1>10. Timed'
    BY <1>u, <1>c DEF IInv, Timed, SameFlags
  <1> QED BY <1>1, <1>2, <1>3, <1>4, <1>5, <1>6, <1>7, <1>8, <1>9,
        <1>10 DEF IInv

LEMMA Release ==
    ASSUME IInv, limit' = limit, NEW a \in Actors, NEW b \in limit.threads,
           wtq_nw_conn_release(a, b)
    PROVE  IInv'
  <1>a. Built /\ conn.refs > 0 /\ "handle" \in res /\ op[a] = "none"
    BY Callers DEF wtq_nw_conn_release
  <1>b. limit.refs \in Nat /\ b \in Actors
        /\ held \in [Actors -> 0..limit.refs]
    BY Bounds DEF IInv, TypeOK
  <1>o. held[b] > 0 /\ op[b] = "none"
    BY <1>a DEF wtq_nw_conn_release
  <1>u. UNCHANGED <<res, drv, queue, at, boot, group, now, timer, accepted,
                    ran, rings, owed, early>>
    BY DEF wtq_nw_conn_release, clocks, ghosts
  <1>c. /\ conn' \in Handles /\ conn'.refs = conn.refs - 1
        /\ conn.refs \in Nat /\ conn.refs > 0 /\ SameFlags(conn, conn')
        /\ op' \in [Actors -> {"none", "implicit_stop", "enqueue_stop",
                               "free", "join"}]
        /\ \A x \in Actors : op'[x] = IF x = a THEN AfterDrop ELSE op[x]
    BY Dropped DEF wtq_nw_conn_release
  <1>m. held' \in [Actors -> 0..limit.refs]
    BY <1>b, <1>o DEF wtq_nw_conn_release
  <1>h. \A x \in Actors : held'[x] = IF x = b THEN held[b] - 1 ELSE held[x]
    BY <1>b DEF wtq_nw_conn_release
  <1>t. Counted'
    <2> DEFINE t == <<"held", b, held[b]>>
    <2>1. t \in Tokens
      BY <1>b, <1>o DEF Tokens
    <2>2. Tokens' = Tokens \ {t}
      BY <1>b, <1>h, <1>o, <1>u DEF Tokens, Outstanding, Starting
    <2> HIDE DEF t
    <2> QED BY <2>1, <2>2, <1>c, TokenRemoved DEF IInv
  <1>1. TypeOK'
    BY <1>u, <1>c, <1>m, SameTypes DEF IInv, TypeOK
  <1>2. (~Built => Nothing)'
    BY <1>u, <1>a DEF Built
  <1>3. Latches'
    BY <1>u, <1>c DEF IInv, Latches, SameFlags
  <1>4. StopOnce'
    BY <1>u, <1>c DEF IInv, StopOnce, SameFlags, AfterDrop
  <1>5. Queued'
    BY <1>u DEF IInv, Queued
  <1>6. Finishing'
    BY <1>u, <1>c DEF IInv, Finishing, Over, SameFlags
  <1>7. Counted'
    BY <1>t
  <1>8. Handled'
    BY <1>a, <1>u, <1>c, <1>h, <1>o DEF IInv, Handled, SameFlags, AfterDrop
  <1>9. Pinned'
    BY <1>u, <1>c DEF IInv, Pinned, Built, SameFlags
  <1>10. Timed'
    BY <1>u, <1>c DEF IInv, Timed, SameFlags
  <1> QED BY <1>1, <1>2, <1>3, <1>4, <1>5, <1>6, <1>7, <1>8, <1>9,
        <1>10 DEF IInv

LEMMA StartReleases ==
    ASSUME IInv, limit' = limit, start_releases
    PROVE  IInv'
  <1>b. boot = "started" /\ op["main"] = "none" /\ boot' = "done"
    BY DEF start_releases
  <1>s. <<"start", Creator, 0>> \in Tokens
    BY <1>b, Bounds DEF Tokens, Starting, IInv
  <1>a. Built /\ "handle" \in res
    BY <1>b, <1>s, TokenCounts DEF IInv, Handled, Built
  <1>o. "main" \in Actors
    BY Bounds DEF IInv
  <1>u. UNCHANGED <<res, drv, queue, at, held, group, now, timer, accepted,
                    ran, rings, owed, early>>
    BY DEF start_releases, clocks, ghosts
  <1>c. /\ conn' \in Handles /\ conn'.refs = conn.refs - 1
        /\ conn.refs \in Nat /\ conn.refs > 0 /\ SameFlags(conn, conn')
        /\ op' \in [Actors -> {"none", "implicit_stop", "enqueue_stop",
                               "free", "join"}]
        /\ \A x \in Actors : op'[x] = IF x = "main" THEN AfterDrop ELSE op[x]
    BY <1>o, Dropped DEF start_releases
  <1>t. Counted'
    <2> DEFINE t == <<"start", Creator, 0>>
    <2>1. Tokens' = Tokens \ {t}
      BY <1>b, <1>u DEF Tokens, Outstanding, Starting
    <2> HIDE DEF t
    <2>2. t \in Tokens
      BY <1>s DEF t
    <2> QED BY <2>1, <2>2, <1>c, TokenRemoved DEF IInv
  <1>1. TypeOK'
    BY <1>u, <1>b, <1>c, SameTypes DEF IInv, TypeOK
  <1>2. (~Built => Nothing)'
    BY <1>b DEF Built
  <1>3. Latches'
    BY <1>b, <1>u, <1>c DEF IInv, Latches, SameFlags
  <1>4. StopOnce'
    BY <1>u, <1>c DEF IInv, StopOnce, SameFlags, AfterDrop
  <1>5. Queued'
    BY <1>u DEF IInv, Queued
  <1>6. Finishing'
    BY <1>u, <1>c DEF IInv, Finishing, Over, SameFlags
  <1>7. Counted'
    BY <1>t
  <1>8. Handled'
    BY <1>a, <1>b, <1>u, <1>c, <1>o DEF IInv, Handled, SameFlags, AfterDrop
  <1>9. Pinned'
    BY <1>b, <1>u, <1>c DEF IInv, Pinned, Built, SameFlags
  <1>10. Timed'
    BY <1>u, <1>c DEF IInv, Timed, SameFlags
  <1> QED BY <1>1, <1>2, <1>3, <1>4, <1>5, <1>6, <1>7, <1>8, <1>9,
        <1>10 DEF IInv

LEMMA PostReturns ==
    ASSUME IInv, limit' = limit, post_returns
    PROVE  IInv'
  <1>b. at = "post" /\ op["domain"] = "none" /\ at' = "idle"
    BY DEF post_returns
  <1>q. Len(ran) \in Nat /\ Len(ran) > 0 /\ Len(ran) <= accepted
    BY <1>b, QueueFacts
  <1>s. <<"post", Creator, Len(ran)>> \in Tokens
    BY <1>b, <1>q, Bounds DEF Tokens, Outstanding, IInv
  <1>a. Built /\ "handle" \in res
    BY <1>b, <1>s, TokenCounts DEF IInv, Handled, Nothing
  <1>o. "domain" \in Actors
    BY Bounds DEF IInv
  <1>u. UNCHANGED <<res, drv, queue, boot, held, group, now, timer, accepted,
                    ran, rings, owed, early>>
    BY DEF post_returns, clocks, ghosts
  <1>c. /\ conn' \in Handles /\ conn'.refs = conn.refs - 1
        /\ conn.refs \in Nat /\ conn.refs > 0 /\ SameFlags(conn, conn')
        /\ op' \in [Actors -> {"none", "implicit_stop", "enqueue_stop",
                               "free", "join"}]
        /\ \A x \in Actors : op'[x] = IF x = "domain" THEN AfterDrop
                                                      ELSE op[x]
    BY <1>o, Dropped DEF post_returns
  <1>t. Counted'
    <2> DEFINE t == <<"post", Creator, Len(ran)>>
    <2>1. Tokens' = Tokens \ {t}
      BY <1>b, <1>q, <1>u DEF Tokens, Outstanding, Starting
    <2> HIDE DEF t
    <2>2. t \in Tokens
      BY <1>s DEF t
    <2> QED BY <2>1, <2>2, <1>c, TokenRemoved DEF IInv
  <1>1. TypeOK'
    BY <1>u, <1>b, <1>c, SameTypes DEF IInv, TypeOK
  <1>2. (~Built => Nothing)'
    BY <1>u, <1>a DEF Built
  <1>3. Latches'
    BY <1>u, <1>c DEF IInv, Latches, SameFlags
  <1>4. StopOnce'
    BY <1>u, <1>c DEF IInv, StopOnce, SameFlags, AfterDrop
  <1>5. Queued'
    BY <1>b, <1>u DEF IInv, Queued
  <1>6. Finishing'
    BY <1>b, <1>u, <1>c DEF IInv, Finishing, Over, SameFlags
  <1>7. Counted'
    BY <1>t
  <1>8. Handled'
    BY <1>a, <1>b, <1>u, <1>c, <1>o DEF IInv, Handled, SameFlags, AfterDrop
  <1>9. Pinned'
    BY <1>b, <1>u, <1>c DEF IInv, Pinned, Built, SameFlags
  <1>10. Timed'
    BY <1>u, <1>c DEF IInv, Timed, SameFlags
  <1> QED BY <1>1, <1>2, <1>3, <1>4, <1>5, <1>6, <1>7, <1>8, <1>9,
        <1>10 DEF IInv

LEMMA StopBegin ==
    ASSUME IInv, limit' = limit, NEW a \in Actors, wtq_nw_conn_stop_begin(a)
    PROVE  IInv'
  <1>a. Built
    BY Callers DEF wtq_nw_conn_stop_begin, IInv, Nothing
  <1>b. conn \in Handles /\ op \in [Actors -> {"none", "implicit_stop",
        "enqueue_stop",
                               "free", "join"}]
        /\ op[a] \in {"none", "implicit_stop"}
    BY Callers DEF IInv, TypeOK, wtq_nw_conn_stop_begin
  <1>u. UNCHANGED <<res, drv, queue, at, boot, held, group, now, timer,
                    accepted, ran, rings, owed, early>>
    BY DEF wtq_nw_conn_stop_begin, clocks, ghosts
  <1> DEFINE go == /\ ~conn.stop_started /\ conn.start_state = "STARTED"
                   /\ ~conn.stop_enqueued
  <1>c. /\ conn' \in Handles /\ conn'.refs = conn.refs
        /\ conn'.stop_started
        /\ conn'.closed = (conn.stop_started => conn.closed)
        /\ conn'.start_state = conn.start_state
        /\ conn'.stop_enqueued = (conn.stop_enqueued \/ go)
        /\ conn'.stopped_done = conn.stopped_done
        /\ conn'.lifecycle_over = conn.lifecycle_over
        /\ conn'.armed = conn.armed /\ conn'.deadline = conn.deadline
    <2>1. CASE conn.stop_started
      BY <2>1, <1>b DEF wtq_nw_conn_stop_begin, Handles
    <2>2. CASE ~conn.stop_started
      <3> DEFINE c == Latch(conn)
      <3>1. /\ c \in Handles /\ c.closed /\ c.stop_started
            /\ c.refs = conn.refs /\ c.start_state = conn.start_state
            /\ c.stop_enqueued = conn.stop_enqueued
            /\ c.stopped_done = conn.stopped_done
            /\ c.lifecycle_over = conn.lifecycle_over
            /\ c.armed = conn.armed /\ c.deadline = conn.deadline
        BY <1>b DEF Latch, Handles
      <3>2. conn' = [c EXCEPT !.stop_enqueued =
                                c.stop_enqueued \/ EnqueueNow(c)]
        BY <2>2 DEF wtq_nw_conn_stop_begin
      <3> HIDE DEF c
      <3>3. PICK x \in BOOLEAN : conn' = [c EXCEPT !.stop_enqueued = x]
                                 /\ x = (conn.stop_enqueued \/ go)
        BY <2>2, <3>1, <3>2 DEF EnqueueNow, Handles
      <3> QED BY <2>2, <3>1, <3>3 DEF Handles
    <2> QED BY <2>1, <2>2
  <1>o. /\ op' \in [Actors -> {"none", "implicit_stop", "enqueue_stop",
                               "free", "join"}]
        /\ \A x \in Actors : op'[x] = IF x = a THEN IF go THEN "enqueue_stop"
                                                          ELSE "none"
                                               ELSE op[x]
    <2>1. CASE conn.stop_started
      BY <2>1, <1>b DEF wtq_nw_conn_stop_begin
    <2>2. CASE ~conn.stop_started
      <3>1. EnqueueNow(Latch(conn)) <=> go
        BY <1>b, <2>2 DEF EnqueueNow, Latch, Handles
      <3> QED BY <2>2, <3>1, <1>b DEF wtq_nw_conn_stop_begin
    <2> QED BY <2>1, <2>2
  <1>1. TypeOK'
    BY <1>u, <1>c, <1>o, SameTypes DEF IInv, TypeOK
  <1>2. (~Built => Nothing)'
    BY <1>u, <1>a DEF Built
  <1>3. Latches'
    BY <1>u, <1>c DEF IInv, Latches
  <1>4. StopOnce'
    <2>1. ASSUME go
          PROVE  /\ ~conn.stop_enqueued /\ ~drv.stop_started
                 /\ ~Has(queue, "stop")
                 /\ \A x \in Actors : op[x] # "enqueue_stop"
      BY <2>1 DEF IInv, StopOnce, Latches
    <2>2. CASE go
      BY <2>1, <2>2, <1>u, <1>c, <1>o DEF IInv, StopOnce
    <2>3. CASE ~go
      BY <2>3, <1>u, <1>c, <1>o DEF IInv, StopOnce
    <2> QED BY <2>2, <2>3
  <1>5. Queued'
    BY <1>u DEF IInv, Queued
  <1>6. Finishing'
    BY <1>u, <1>c DEF IInv, Finishing, Over
  <1>7. Counted'
    BY <1>u, <1>c, TokensKept, CountKept DEF IInv, Starting
  <1>8. Handled'
    <2>1. \A x \in Actors : op[x] = "implicit_stop" => x = a
      BY <1>b, Callers DEF IInv, Handled, wtq_nw_conn_stop_begin
    <2>2. \A x \in Actors : op'[x] \in {"free", "join"} => op'[x] = op[x]
      BY <1>o
    <2>3. \A x \in Actors : op'[x] # "implicit_stop"
      BY <1>o, <2>1
    <2> QED BY <1>a, <1>u, <1>c, <2>2, <2>3 DEF IInv, Handled
  <1>9. Pinned'
    BY <1>u, <1>c DEF IInv, Pinned, Built
  <1>10. Timed'
    BY <1>u, <1>c DEF IInv, Timed
  <1> QED BY <1>1, <1>2, <1>3, <1>4, <1>5, <1>6, <1>7, <1>8, <1>9,
        <1>10 DEF IInv

LEMMA StartEnds ==
    ASSUME IInv, limit' = limit, start_ends
    PROVE  IInv'
  <1>a. Built /\ boot = "running" /\ boot' = "started"
    BY DEF start_ends, Built
  <1>b. conn \in Handles /\ op \in [Actors -> {"none", "implicit_stop",
        "enqueue_stop",
                               "free", "join"}]
        /\ "main" \in Actors
    BY Bounds DEF IInv, TypeOK
  <1>u. UNCHANGED <<res, drv, queue, at, held, group, now, timer,
                    accepted, ran, rings, owed, early>>
    BY DEF start_ends, clocks, ghosts
  <1> DEFINE go == conn.stop_started /\ ~conn.stop_enqueued
  <1>c. /\ conn' \in Handles /\ conn'.refs = conn.refs
        /\ conn'.stop_started = conn.stop_started
        /\ conn'.closed = conn.closed
        /\ conn'.start_state = "STARTED"
        /\ conn'.stop_enqueued = (conn.stop_enqueued \/ go)
        /\ conn'.stopped_done = conn.stopped_done
        /\ conn'.lifecycle_over = conn.lifecycle_over
        /\ conn'.armed = conn.armed /\ conn'.deadline = conn.deadline
    <2>1. conn' = [conn EXCEPT !.start_state = "STARTED",
                             !.stop_enqueued = conn.stop_enqueued
                                               \/ StartedLatch(conn)]
      BY DEF start_ends
    <2>2. PICK x \in BOOLEAN :
            /\ conn' = [conn EXCEPT !.start_state = "STARTED",
                                    !.stop_enqueued = x]
            /\ x = (conn.stop_enqueued \/ go)
      BY <2>1, <1>b DEF StartedLatch, Handles
    <2> QED BY <2>2, <1>b DEF Handles
  <1>o. /\ op' \in [Actors -> {"none", "implicit_stop", "enqueue_stop",
                               "free", "join"}]
        /\ \A x \in Actors : op'[x] = IF x = "main"
                                      THEN IF go THEN "enqueue_stop"
                                                 ELSE "none"
                                      ELSE op[x]
    BY <1>b DEF start_ends, StartedLatch
  <1>1. TypeOK'
    BY <1>a, <1>u, <1>c, <1>o, SameTypes DEF IInv, TypeOK
  <1>2. (~Built => Nothing)'
    BY <1>a DEF Built
  <1>3. Latches'
    BY <1>a, <1>u, <1>c DEF IInv, Latches
  <1>4. StopOnce'
    BY <1>a, <1>u, <1>c, <1>o DEF IInv, StopOnce, Latches
  <1>5. Queued'
    BY <1>u DEF IInv, Queued
  <1>6. Finishing'
    BY <1>u, <1>c DEF IInv, Finishing, Over
  <1>7. Counted'
    BY <1>a, <1>u, <1>c, TokensKept, CountKept DEF IInv, Starting
  <1>8. Handled'
    BY <1>a, <1>u, <1>c, <1>o DEF IInv, Handled, Built
  <1>9. Pinned'
    BY <1>a, <1>u, <1>c DEF IInv, Pinned, Built
  <1>10. Timed'
    BY <1>u, <1>c DEF IInv, Timed
  <1> QED BY <1>1, <1>2, <1>3, <1>4, <1>5, <1>6, <1>7, <1>8, <1>9,
        <1>10 DEF IInv

LEMMA StoppedReturns ==
    ASSUME IInv, limit' = limit, stopped_returns
    PROVE  IInv'
  <1>a. Built /\ at = "stopped" /\ op["domain"] = "none" /\ at' = "unpin"
    BY DEF stopped_returns, IInv, Nothing
  <1>b. conn \in Handles /\ op \in [Actors -> {"none", "implicit_stop",
        "enqueue_stop",
                               "free", "join"}]
        /\ "domain" \in Actors /\ limit.refs \in Nat
    BY Bounds DEF IInv, TypeOK
  <1>u. UNCHANGED <<res, drv, queue, boot, held, group, now, timer,
                    accepted, ran, rings, owed, early>>
    BY DEF stopped_returns, clocks, ghosts
  <1>c. /\ conn' \in Handles /\ conn'.refs = conn.refs
        /\ conn'.stop_started = conn.stop_started
        /\ conn'.closed = conn.closed
        /\ conn'.start_state = conn.start_state
        /\ conn'.stop_enqueued = conn.stop_enqueued
        /\ conn'.stopped_done /\ conn'.lifecycle_over
        /\ conn'.armed = conn.armed /\ conn'.deadline = conn.deadline
    BY <1>b DEF stopped_returns, Handles
  <1>o. /\ op' \in [Actors -> {"none", "implicit_stop", "enqueue_stop",
                               "free", "join"}]
        /\ \A x \in Actors : op'[x] = IF x = "domain"
                                      THEN IF conn.refs = 0 THEN "free"
                                                            ELSE "none"
                                      ELSE op[x]
    BY <1>b DEF stopped_returns
  <1>s. ~conn.stopped_done /\ ~conn.lifecycle_over /\ conn.stop_started
    BY <1>a DEF IInv, Finishing, Latches, Over
  <1>1. TypeOK'
    BY <1>a, <1>u, <1>c, <1>o, SameTypes DEF IInv, TypeOK
  <1>2. (~Built => Nothing)'
    BY <1>u, <1>a DEF Built
  <1>3. Latches'
    BY <1>u, <1>c DEF IInv, Latches
  <1>4. StopOnce'
    BY <1>u, <1>c, <1>o DEF IInv, StopOnce
  <1>5. Queued'
    BY <1>a, <1>u DEF IInv, Queued
  <1>6. Finishing'
    BY <1>a, <1>u, <1>c DEF IInv, Finishing, Over
  <1>7. Counted'
    BY <1>a, <1>u, <1>c, TokensKept, CountKept DEF IInv, Starting
  <1>8. Handled'
    BY <1>a, <1>u, <1>c, <1>o, <1>s DEF IInv, Handled, Built
  <1>9. Pinned'
    BY <1>a, <1>s, <1>u, <1>c DEF IInv, Pinned, Built
  <1>10. Timed'
    BY <1>u, <1>c DEF IInv, Timed
  <1> QED BY <1>1, <1>2, <1>3, <1>4, <1>5, <1>6, <1>7, <1>8, <1>9,
        <1>10 DEF IInv

-----------------------------------------------------------------------------
(* Steps that put a block on the queue, and the children.                  *)

LEMMA EnqueueStop ==
    ASSUME IInv, limit' = limit, NEW a \in Actors, enqueue_stop(a)
    PROVE  IInv'
  <1>a. /\ op[a] = "enqueue_stop" /\ Built /\ conn.stop_enqueued
        /\ ~Has(queue, "stop") /\ ~drv.stop_started
        /\ ~drv.finish_scheduled /\ ~Has(queue, "finish") /\ ~Over
        /\ group.state # "new"
    BY DEF enqueue_stop, IInv, Nothing, StopOnce, Finishing, Latches
  <1>u. UNCHANGED <<res, conn, drv, at, boot, held, group, now, timer,
                    accepted, ran, rings, owed, early>>
    BY DEF enqueue_stop, clocks, ghosts
  <1>q. /\ queue' \in Seq(Blocks) /\ InOrder(queue', Len(ran), accepted)
        /\ \A x : Has(queue', x) <=> Has(queue, x) \/ x = "stop"
    BY <1>a, Enqueues DEF enqueue_stop, Kinds
  <1>o. /\ op' \in [Actors -> {"none", "implicit_stop", "enqueue_stop",
                               "free", "join"}]
        /\ \A x \in Actors : op'[x] = IF x = a THEN "none" ELSE op[x]
    BY DEF enqueue_stop, IInv, TypeOK
  <1>1. TypeOK'
    BY <1>u, <1>q, <1>o, SameTypes DEF IInv, TypeOK
  <1>2. (~Built => Nothing)'
    BY <1>u, <1>a DEF Built
  <1>3. Latches'
    BY <1>u DEF IInv, Latches
  <1>4. StopOnce'
    BY <1>a, <1>u, <1>q, <1>o DEF IInv, StopOnce
  <1>5. Queued'
    BY <1>u, <1>q DEF IInv, Queued
  <1>6. Finishing'
    BY <1>u, <1>q, <1>a DEF IInv, Finishing, Over, LateKinds
  <1>7. Counted'
    BY <1>u, TokensKept, CountKept DEF IInv, Starting
  <1>8. Handled'
    BY <1>a, <1>u, <1>o DEF IInv, Handled
  <1>9. Pinned'
    BY <1>u DEF IInv, Pinned, Built
  <1>10. Timed'
    BY <1>u DEF IInv, Timed
  <1> QED BY <1>1, <1>2, <1>3, <1>4, <1>5, <1>6, <1>7, <1>8, <1>9,
        <1>10 DEF IInv

LEMMA Rings ==
    ASSUME IInv, limit' = limit, NEW a \in Actors,
           wtq_nw_conn_doorbell_ring(a)
    PROVE  IInv'
  <1>a. Built
    BY Callers DEF wtq_nw_conn_doorbell_ring
  <1>b. rings' \in 0..limit.rings
    <2>1. rings \in 0..limit.rings /\ limit.rings \in Nat
      BY Bounds DEF IInv, TypeOK
    <2> QED BY <2>1 DEF wtq_nw_conn_doorbell_ring
  <1>u. UNCHANGED <<res, conn, drv, at, boot, op, held, group, now, timer,
                    accepted, ran, owed, early>>
    BY DEF wtq_nw_conn_doorbell_ring, clocks
  <1>q. /\ queue' \in Seq(Blocks) /\ InOrder(queue', Len(ran), accepted)
        /\ \A x : Has(queue', x) <=> Has(queue, x) \/ x = "bell"
    BY Raises DEF wtq_nw_conn_doorbell_ring, Sources
  <1>1. TypeOK'
    BY <1>b, <1>u, <1>q, SameTypes DEF IInv, TypeOK
  <1>2. (~Built => Nothing)'
    BY <1>u, <1>a DEF Built
  <1>3. Latches'
    BY <1>u DEF IInv, Latches
  <1>4. StopOnce'
    BY <1>u, <1>q DEF IInv, StopOnce
  <1>5. Queued'
    BY <1>u, <1>q DEF IInv, Queued
  <1>6. Finishing'
    BY <1>u, <1>q, <1>a DEF IInv, Finishing, Over, LateKinds
  <1>7. Counted'
    BY <1>u, TokensKept, CountKept DEF IInv, Starting
  <1>8. Handled'
    BY <1>a, <1>u DEF IInv, Handled
  <1>9. Pinned'
    BY <1>u DEF IInv, Pinned, Built
  <1>10. Timed'
    BY <1>u DEF IInv, Timed
  <1> QED BY <1>1, <1>2, <1>3, <1>4, <1>5, <1>6, <1>7, <1>8, <1>9,
        <1>10 DEF IInv

LEMMA TimerExpires ==
    ASSUME IInv, limit' = limit, timer_expires
    PROVE  IInv'
  <1>a. Built
    BY DEF timer_expires, IInv, Nothing
  <1>b. timer' \in 0..Never
    BY Bounds DEF timer_expires, IInv
  <1>u. UNCHANGED <<res, conn, drv, at, boot, op, held, group, now,
                    accepted, ran, rings, owed, early>>
    BY DEF timer_expires, ghosts
  <1>q. /\ queue' \in Seq(Blocks) /\ InOrder(queue', Len(ran), accepted)
        /\ \A x : Has(queue', x) <=> Has(queue, x) \/ x = "timer"
    BY Raises DEF timer_expires, Sources
  <1>1. TypeOK'
    BY <1>b, <1>u, <1>q, SameTypes DEF IInv, TypeOK, Never
  <1>2. (~Built => Nothing)'
    BY <1>u, <1>a DEF Built
  <1>3. Latches'
    BY <1>u DEF IInv, Latches
  <1>4. StopOnce'
    BY <1>u, <1>q DEF IInv, StopOnce
  <1>5. Queued'
    BY <1>u, <1>q DEF IInv, Queued
  <1>6. Finishing'
    BY <1>u, <1>q, <1>a DEF IInv, Finishing, Over, LateKinds
  <1>7. Counted'
    BY <1>u, TokensKept, CountKept DEF IInv, Starting
  <1>8. Handled'
    BY <1>a, <1>u DEF IInv, Handled
  <1>9. Pinned'
    BY <1>u DEF IInv, Pinned, Built
  <1>10. Timed'
    BY <1>u DEF IInv, Timed
  <1> QED BY <1>1, <1>2, <1>3, <1>4, <1>5, <1>6, <1>7, <1>8, <1>9,
        <1>10 DEF IInv

LEMMA Reports ==
    ASSUME IInv, limit' = limit, NEW s,
           \/ s \in {"ready", "waiting", "failed"} /\ group.state \in Live
           \/ s = "cancelled" /\ group.state \in Live \cup {"failed"},
           Report(s)
    PROVE  IInv'
  <1>g. /\ group' = [group EXCEPT !.state = s]
        /\ group' \in [state : Live \cup {"new", "failed", "cancelled"},
                       cancel : BOOLEAN]
        /\ group'.state = s /\ group'.cancel = group.cancel
        /\ group.state # "new" /\ s # "new" /\ s \in Kinds
    BY DEF Report, IInv, TypeOK, Live, Kinds
  <1>a. Built
    BY <1>g DEF IInv, Latches, Built
  <1>l. drv.terminal_done => s \in LateKinds
    BY DEF IInv, Finishing, Live, LateKinds
  <1>t. s \in {"ready", "waiting"} => ~drv.terminal_done
            /\ ~Has(queue, "failed") /\ ~Has(queue, "cancelled")
    BY DEF IInv, Finishing, Live
  <1>f. Has(queue, "finish") \/ Over => drv.terminal_done
    BY DEF IInv, Finishing
  <1>u. UNCHANGED <<res, conn, drv, at, boot, op, held, now, timer,
                    accepted, ran, rings, owed, early>>
    BY DEF Report, clocks, ghosts
  <1>q. /\ queue' \in Seq(Blocks) /\ InOrder(queue', Len(ran), accepted)
        /\ \A x : Has(queue', x) <=> Has(queue, x) \/ x = s
    BY <1>g, <1>l, <1>f, Enqueues DEF Report
  <1>1. TypeOK'
    BY <1>g, <1>u, <1>q, SameTypes DEF IInv, TypeOK
  <1>2. (~Built => Nothing)'
    BY <1>u, <1>a DEF Built
  <1>3. Latches'
    BY <1>g, <1>u DEF IInv, Latches
  <1>4. StopOnce'
    BY <1>u, <1>q DEF IInv, StopOnce
  <1>5. Queued'
    BY <1>u, <1>q DEF IInv, Queued
  <1>6. Finishing'
    BY <1>g, <1>t, <1>f, <1>l, <1>u, <1>q DEF IInv, Finishing, Over
  <1>7. Counted'
    BY <1>u, TokensKept, CountKept DEF IInv, Starting
  <1>8. Handled'
    BY <1>a, <1>u DEF IInv, Handled
  <1>9. Pinned'
    BY <1>u DEF IInv, Pinned, Built
  <1>10. Timed'
    BY <1>u DEF IInv, Timed
  <1> QED BY <1>1, <1>2, <1>3, <1>4, <1>5, <1>6, <1>7, <1>8, <1>9,
        <1>10 DEF IInv

LEMMA GroupAsks ==
    ASSUME IInv, limit' = limit, GroupVerifies
    PROVE  IInv'
  <1>g. /\ group' \in [state : Live \cup {"new", "failed", "cancelled"},
                       cancel : BOOLEAN]
        /\ group'.state = "asking" /\ group'.cancel = group.cancel
        /\ group.state = "up"
    BY DEF GroupVerifies, IInv, TypeOK, Live
  <1>a. Built
    BY <1>g DEF IInv, Latches, Built
  <1>t. ~drv.terminal_done /\ ~Has(queue, "failed")
            /\ ~Has(queue, "cancelled") /\ ~Has(queue, "finish") /\ ~Over
    BY <1>g DEF IInv, Finishing
  <1>u. UNCHANGED <<res, conn, drv, at, boot, op, held, now, timer,
                    accepted, ran, rings, owed, early>>
    BY DEF GroupVerifies, clocks, ghosts
  <1>q. /\ queue' \in Seq(Blocks) /\ InOrder(queue', Len(ran), accepted)
        /\ \A x : Has(queue', x) <=> Has(queue, x) \/ x = "verify"
    BY <1>t, Enqueues DEF GroupVerifies, Kinds
  <1>1. TypeOK'
    BY <1>g, <1>u, <1>q, SameTypes DEF IInv, TypeOK
  <1>2. (~Built => Nothing)'
    BY <1>u, <1>a DEF Built
  <1>3. Latches'
    BY <1>g, <1>u DEF IInv, Latches
  <1>4. StopOnce'
    BY <1>u, <1>q DEF IInv, StopOnce
  <1>5. Queued'
    BY <1>u, <1>q DEF IInv, Queued
  <1>6. Finishing'
    BY <1>g, <1>t, <1>u, <1>q DEF IInv, Finishing, Over
  <1>7. Counted'
    BY <1>u, TokensKept, CountKept DEF IInv, Starting
  <1>8. Handled'
    BY <1>a, <1>u DEF IInv, Handled
  <1>9. Pinned'
    BY <1>u DEF IInv, Pinned, Built
  <1>10. Timed'
    BY <1>u DEF IInv, Timed
  <1> QED BY <1>1, <1>2, <1>3, <1>4, <1>5, <1>6, <1>7, <1>8, <1>9,
        <1>10 DEF IInv

LEMMA Posts ==
    ASSUME IInv, limit' = limit, NEW a \in Actors, wtq_nw_conn_post(a)
    PROVE  IInv'
  <1>a. Built /\ "handle" \in res
    BY Callers DEF wtq_nw_conn_post
  <1>b. /\ limit.refs \in Nat /\ limit.posts \in Nat /\ conn \in Handles
        /\ conn.refs < limit.refs /\ accepted < limit.posts
        /\ ~conn.closed /\ Len(ran) \in Nat /\ accepted \in Nat
        /\ Len(ran) <= accepted /\ Creator \in Actors
    BY Bounds, QueueFacts DEF IInv, TypeOK, wtq_nw_conn_post
  <1>s. /\ ~conn.stop_started /\ ~Has(queue, "stop") /\ ~drv.stop_started
        /\ ~drv.rundown /\ ~drv.finish_scheduled /\ ~Has(queue, "finish")
        /\ ~Over
    BY <1>b DEF IInv, Latches, StopOnce, Finishing
  <1>u. UNCHANGED <<res, drv, at, boot, op, held, group, now, timer, ran,
                    rings, owed, early>>
    BY DEF wtq_nw_conn_post, clocks
  <1>c. conn' \in Handles /\ conn'.refs = conn.refs + 1 /\ conn.refs \in Nat
        /\ SameFlags(conn, conn')
    <2>1. conn' = [conn EXCEPT !.refs = conn.refs + 1]
      BY DEF wtq_nw_conn_post
    <2> QED BY <2>1, <1>b DEF Handles, SameFlags
  <1>n. accepted' = accepted + 1 /\ accepted' \in 0..limit.posts
    BY <1>b DEF wtq_nw_conn_post
  <1>q. /\ queue' \in Seq(Blocks) /\ InOrder(queue', Len(ran), accepted')
        /\ \A x : Has(queue', x) <=> Has(queue, x) \/ x = "post"
    <2> DEFINE p == [k |-> "post", n |-> accepted + 1]
    <2>1. p \in Blocks /\ p.k = "post" /\ p.n = accepted + 1
      BY <1>b DEF Blocks
    <2>2. queue' = Append(queue, p)
      BY DEF wtq_nw_conn_post
    <2> HIDE DEF p
    <2>3. /\ Append(queue, p) \in Seq(Blocks)
          /\ InOrder(Append(queue, p), Len(ran),
                     IF p.k = "post" THEN accepted + 1 ELSE accepted)
          /\ \A x : Has(Append(queue, p), x) <=> Has(queue, x) \/ p.k = x
      BY <1>s, <2>1, QueueFacts, Push
    <2> QED BY <1>n, <2>1, <2>2, <2>3
  <1>t. Counted'
    <2> DEFINE t == <<"post", Creator, accepted + 1>>
    <2>1. Tokens' = Tokens \cup {t} /\ t \notin Tokens
      BY <1>b, <1>n, <1>u DEF Tokens, Outstanding, Starting
    <2> HIDE DEF t
    <2> QED BY <2>1, <1>c, TokenAdded DEF IInv
  <1>1. TypeOK'
    BY <1>u, <1>c, <1>q, <1>n, SameTypes DEF IInv, TypeOK
  <1>2. (~Built => Nothing)'
    BY <1>u, <1>a DEF Built
  <1>3. Latches'
    BY <1>u, <1>c DEF IInv, Latches, SameFlags
  <1>4. StopOnce'
    BY <1>u, <1>c, <1>q DEF IInv, StopOnce, SameFlags
  <1>5. Queued'
    <2>1. Len(ran) <= accepted' /\ ~drv'.rundown
      BY <1>n, <1>b, <1>s, <1>u
    <2> QED BY <2>1, <1>u, <1>q DEF IInv, Queued
  <1>6. Finishing'
    BY <1>u, <1>c, <1>q, <1>s DEF IInv, Finishing, Over, SameFlags
  <1>7. Counted'
    BY <1>t
  <1>8. Handled'
    <2>1. \A x \in Actors : op[x] \notin {"free", "implicit_stop"}
      BY Callers DEF wtq_nw_conn_post, IInv, Handled
    <2> QED BY <1>a, <1>u, <1>c, <2>1 DEF IInv, Handled, SameFlags
  <1>9. Pinned'
    BY <1>u, <1>c DEF IInv, Pinned, Built, SameFlags
  <1>10. Timed'
    BY <1>u, <1>c DEF IInv, Timed, SameFlags
  <1> QED BY <1>1, <1>2, <1>3, <1>4, <1>5, <1>6, <1>7, <1>8, <1>9,
        <1>10 DEF IInv

LEMMA RingAfter ==
    ASSUME IInv, limit' = limit, NEW a \in Actors, NEW d \in limit.delays,
           wtq_nw_conn_doorbell_ring_after(a, d)
    PROVE  IInv'
  <1> DEFINE eff == nw_doorbell_effective_delay_us(d)
  <1>a. Built
    BY Callers DEF wtq_nw_conn_doorbell_ring_after
  <1>k. /\ limit.rings \in Nat /\ limit.time \in Nat /\ MaxUptime \in Nat
        /\ MaxDelay \in Nat /\ limit.time < MaxUptime /\ d \in Nat
        /\ rings \in 0..limit.rings /\ now \in 0..limit.time
        /\ conn \in Handles
    BY Bounds DEF IInv, TypeOK
  <1>e. eff \in 0..MaxDelay
    BY <1>k DEF nw_doorbell_effective_delay_us
  <1>f. /\ nw_doorbell_deadline_us(now, eff) \in 0..MaxUptime
        /\ \/ nw_doorbell_deadline_us(now, eff) = MaxUptime
           \/ nw_doorbell_deadline_us(now, eff) = now + eff
    BY <1>e, <1>k DEF nw_doorbell_deadline_us
  <1>u. UNCHANGED <<res, drv, at, boot, op, held, group, now, accepted, ran,
                    early>>
    BY DEF wtq_nw_conn_doorbell_ring_after
  <1> HIDE DEF eff
  <1>b. /\ rings' \in 0..limit.rings /\ timer' \in 0..Never
        /\ owed' \in 0..Never
    <2>1. rings' \in 0..limit.rings
      BY <1>k DEF wtq_nw_conn_doorbell_ring_after
    <2>2. CASE d = 0
      BY <1>k, <2>1, <2>2 DEF wtq_nw_conn_doorbell_ring_after, Never
    <2>3. CASE d # 0
      <3>1. timer' \in TimerStart(now, eff) /\ owed' = now + eff
        BY <2>3 DEF wtq_nw_conn_doorbell_ring_after, eff
      <3> QED BY <1>e, <1>k, <2>1, <3>1 DEF Never, TimerStart
    <2> QED BY <2>2, <2>3
  <1>v. PICK ar \in BOOLEAN, dl \in 0..MaxUptime :
          /\ conn' = [conn EXCEPT !.armed = ar, !.deadline = dl]
          /\ ar => dl = owed' \/ dl = MaxUptime
    <2>1. CASE d = 0
      <3>1. conn' = [conn EXCEPT !.armed = FALSE, !.deadline = 0]
        BY <2>1 DEF wtq_nw_conn_doorbell_ring_after
      <3>2. 0 \in 0..MaxUptime
        BY <1>k
      <3> QED BY <3>1, <3>2
    <2>2. CASE d # 0
      <3>1. owed' = now + eff
            /\ conn' = [conn EXCEPT !.armed = TRUE,
                          !.deadline = nw_doorbell_deadline_us(now, eff)]
        BY <2>2 DEF wtq_nw_conn_doorbell_ring_after, eff
      <3> QED BY <1>f, <3>1
    <2> QED BY <2>1, <2>2
  <1>c. /\ conn' \in Handles /\ conn'.refs = conn.refs
        /\ conn'.stop_started = conn.stop_started
        /\ conn'.closed = conn.closed
        /\ conn'.start_state = conn.start_state
        /\ conn'.stop_enqueued = conn.stop_enqueued
        /\ conn'.stopped_done = conn.stopped_done
        /\ conn'.lifecycle_over = conn.lifecycle_over
        /\ conn'.armed = ar /\ conn'.deadline = dl
    BY <1>k, <1>v DEF Handles
  <1>d. conn'.armed => conn'.deadline = owed' \/ conn'.deadline = MaxUptime
    BY <1>c, <1>v
  <1>q. /\ queue' \in Seq(Blocks) /\ InOrder(queue', Len(ran), accepted)
        /\ \A x : Has(queue', x) => Has(queue, x) \/ x = "bell"
    <2>1. CASE d = 0
      BY <2>1, Raises DEF wtq_nw_conn_doorbell_ring_after, Sources
    <2>2. CASE d # 0
      BY <2>2, QueueFacts DEF wtq_nw_conn_doorbell_ring_after
    <2> QED BY <2>1, <2>2
  <1>1. TypeOK'
    BY <1>b, <1>u, <1>c, <1>q, SameTypes DEF IInv, TypeOK
  <1>2. (~Built => Nothing)'
    BY <1>u, <1>a DEF Built
  <1>3. Latches'
    BY <1>u, <1>c DEF IInv, Latches
  <1>4. StopOnce'
    BY <1>u, <1>c, <1>q DEF IInv, StopOnce
  <1>5. Queued'
    BY <1>u, <1>q DEF IInv, Queued
  <1>6. Finishing'
    BY <1>u, <1>c, <1>q DEF IInv, Finishing, Over, LateKinds
  <1>7. Counted'
    BY <1>u, <1>c, TokensKept, CountKept DEF IInv, Starting
  <1>8. Handled'
    BY <1>u, <1>c DEF IInv, Handled, Built
  <1>9. Pinned'
    BY <1>u, <1>c DEF IInv, Pinned, Built
  <1>10. Timed'
    BY <1>u, <1>c, <1>d DEF IInv, Timed
  <1> QED BY <1>1, <1>2, <1>3, <1>4, <1>5, <1>6, <1>7, <1>8, <1>9,
        <1>10 DEF IInv

LEMMA CancelAfter ==
    ASSUME IInv, limit' = limit, NEW a \in Actors,
           wtq_nw_conn_doorbell_cancel_after(a)
    PROVE  IInv'
  <1>a. Built
    BY Callers DEF wtq_nw_conn_doorbell_cancel_after
  <1>k. conn \in Handles /\ MaxUptime \in Nat
    BY Bounds DEF IInv, TypeOK
  <1>u. UNCHANGED <<res, drv, queue, at, boot, op, held, group, now, accepted,
                    ran, rings, early>>
    BY DEF wtq_nw_conn_doorbell_cancel_after
  <1>b. timer' \in 0..Never /\ owed' \in 0..Never
    BY Bounds DEF wtq_nw_conn_doorbell_cancel_after, IInv
  <1>c. /\ conn' \in Handles /\ conn'.refs = conn.refs
        /\ conn'.stop_started = conn.stop_started
        /\ conn'.closed = conn.closed
        /\ conn'.start_state = conn.start_state
        /\ conn'.stop_enqueued = conn.stop_enqueued
        /\ conn'.stopped_done = conn.stopped_done
        /\ conn'.lifecycle_over = conn.lifecycle_over
        /\ ~conn'.armed
    BY <1>k, Disarmed DEF wtq_nw_conn_doorbell_cancel_after
  <1>1. TypeOK'
    BY <1>b, <1>u, <1>c, SameTypes DEF IInv, TypeOK
  <1>2. (~Built => Nothing)'
    BY <1>u, <1>a DEF Built
  <1>3. Latches'
    BY <1>u, <1>c DEF IInv, Latches
  <1>4. StopOnce'
    BY <1>u, <1>c DEF IInv, StopOnce
  <1>5. Queued'
    BY <1>u DEF IInv, Queued
  <1>6. Finishing'
    BY <1>u, <1>c DEF IInv, Finishing, Over, LateKinds
  <1>7. Counted'
    BY <1>u, <1>c, TokensKept, CountKept DEF IInv, Starting
  <1>8. Handled'
    BY <1>u, <1>c DEF IInv, Handled, Built
  <1>9. Pinned'
    BY <1>u, <1>c DEF IInv, Pinned, Built
  <1>10. Timed'
    BY <1>u, <1>c DEF IInv, Timed
  <1> QED BY <1>1, <1>2, <1>3, <1>4, <1>5, <1>6, <1>7, <1>8, <1>9,
        <1>10 DEF IInv

LEMMA ChildMade ==
    ASSUME IInv, limit' = limit, child_made
    PROVE  IInv'
  <1>a. Built /\ ~Over /\ group.state = "ready"
    BY DEF child_made, IInv, Latches, Built, Finishing
  <1>p. /\ drv \in Drivers /\ limit.kids \in Nat /\ drv.kids < limit.kids
        /\ drv.pins = drv.kids + 1 /\ "driver" \in res
    <2>1. drv \in Drivers /\ limit.kids \in Nat /\ drv.kids < limit.kids
      BY Bounds DEF child_made, IInv, TypeOK
    <2>2. drv.kids \in Nat /\ drv.pins = drv.kids + 1
      BY <1>a, <2>1 DEF IInv, Pinned, Over, Drivers
    <2> QED BY <1>a, <2>1, <2>2 DEF IInv, Pinned
  <1>u. UNCHANGED <<res, conn, queue, at, boot, op, held, group, now, timer,
                    accepted, ran, rings, owed, early>>
    BY DEF child_made, clocks, ghosts
  <1>d. /\ drv' \in Drivers /\ drv'.kids = drv.kids + 1
        /\ drv'.pins = drv.pins + 1 /\ drv'.kids \in Nat
        /\ drv'.rundown = drv.rundown
        /\ drv'.stop_started = drv.stop_started
        /\ drv'.terminal_done = drv.terminal_done
        /\ drv'.finish_scheduled = drv.finish_scheduled
        /\ drv'.shutdown_started = drv.shutdown_started
    <2> DEFINE k == drv.kids + 1
    <2> DEFINE p == drv.pins + 1
    <2>1. drv' = [drv EXCEPT !.kids = k, !.pins = p]
      BY DEF child_made
    <2>2. k \in 0..limit.kids /\ p \in 0..(limit.kids + 1) /\ k \in Nat
      BY <1>p DEF Drivers
    <2> HIDE DEF k, p
    <2>3. /\ drv' \in Drivers /\ drv'.kids = k /\ drv'.pins = p
          /\ SameStop(drv, drv') /\ SameEnd(drv, drv')
      BY <2>1, <2>2, <1>p DEF Drivers, SameStop, SameEnd
    <2> QED BY <2>2, <2>3 DEF k, p, SameStop, SameEnd
  <1>1. TypeOK'
    BY <1>u, <1>d, SameTypes DEF IInv, TypeOK
  <1>2. (~Built => Nothing)'
    BY <1>u, <1>a DEF Built
  <1>3. Latches'
    BY <1>u, <1>d DEF IInv, Latches
  <1>4. StopOnce'
    BY <1>u, <1>d DEF IInv, StopOnce
  <1>5. Queued'
    BY <1>u, <1>d DEF IInv, Queued
  <1>6. Finishing'
    BY <1>u, <1>d DEF IInv, Finishing, Over
  <1>7. Counted'
    BY <1>u, TokensKept, CountKept DEF IInv, Starting
  <1>8. Handled'
    BY <1>u DEF IInv, Handled, Built
  <1>9. Pinned'
    BY <1>a, <1>u, <1>d, <1>p DEF Pinned, Over
  <1>10. Timed'
    BY <1>u DEF IInv, Timed
  <1> QED BY <1>1, <1>2, <1>3, <1>4, <1>5, <1>6, <1>7, <1>8, <1>9,
        <1>10 DEF IInv

LEMMA ChildReaped ==
    ASSUME IInv, limit' = limit, child_reaped
    PROVE  IInv'
  <1>p. /\ drv \in Drivers /\ limit.kids \in Nat /\ drv.kids > 0
        /\ at = "idle"
    BY Bounds DEF child_reaped, Calm, IInv, TypeOK
  <1>a. Built
    BY <1>p DEF IInv, Nothing
  <1>n. /\ drv.kids \in Nat /\ drv.pins \in Nat /\ drv.pins >= drv.kids
        /\ "driver" \in res
        /\ drv.pins = drv.kids + IF conn.stopped_done THEN 0 ELSE 1
    BY <1>a, <1>p DEF IInv, Pinned, Drivers
  <1>u. UNCHANGED <<conn, queue, at, boot, op, held, group, now, timer,
                    accepted, ran, rings, owed, early>>
    BY DEF child_reaped, clocks, ghosts
  <1>d. /\ drv' \in Drivers /\ drv'.kids = drv.kids - 1
        /\ drv'.pins = drv.pins - 1 /\ drv'.kids \in Nat
        /\ drv'.rundown = drv.rundown
        /\ drv'.stop_started = drv.stop_started
        /\ drv'.terminal_done = drv.terminal_done
        /\ drv'.finish_scheduled = drv.finish_scheduled
        /\ drv'.shutdown_started = drv.shutdown_started
    <2> DEFINE k == drv.kids - 1
    <2> DEFINE p == drv.pins - 1
    <2>1. drv' = [drv EXCEPT !.kids = k, !.pins = p]
      BY DEF child_reaped
    <2>2. k \in 0..limit.kids /\ p \in 0..(limit.kids + 1) /\ k \in Nat
      BY <1>p, <1>n DEF Drivers
    <2> HIDE DEF k, p
    <2>3. /\ drv' \in Drivers /\ drv'.kids = k /\ drv'.pins = p
          /\ SameStop(drv, drv') /\ SameEnd(drv, drv')
      BY <2>1, <2>2, <1>p DEF Drivers, SameStop, SameEnd
    <2> QED BY <2>2, <2>3 DEF k, p, SameStop, SameEnd
  <1>r. res' = IF drv'.pins = 0 THEN res \ {"driver", "group"} ELSE res
    BY <1>d DEF child_reaped, drv_free_if_done
  <1>1. TypeOK'
    BY <1>u, <1>d, <1>r, SameTypes DEF IInv, TypeOK
  <1>2. (~Built => Nothing)'
    BY <1>u, <1>a DEF Built
  <1>3. Latches'
    BY <1>u, <1>d DEF IInv, Latches
  <1>4. StopOnce'
    BY <1>u, <1>d DEF IInv, StopOnce
  <1>5. Queued'
    BY <1>u, <1>d DEF IInv, Queued
  <1>6. Finishing'
    BY <1>u, <1>d, <1>r DEF IInv, Finishing, Over
  <1>7. Counted'
    BY <1>u, TokensKept, CountKept DEF IInv, Starting
  <1>8. Handled'
    BY <1>u, <1>r DEF IInv, Handled, Built
  <1>9. Pinned'
    BY <1>u, <1>d, <1>r, <1>n, <1>p DEF Pinned, Built
  <1>10. Timed'
    BY <1>u DEF IInv, Timed
  <1> QED BY <1>1, <1>2, <1>3, <1>4, <1>5, <1>6, <1>7, <1>8, <1>9,
        <1>10 DEF IInv

LEMMA FinishUnpins ==
    ASSUME IInv, limit' = limit, finish_unpins
    PROVE  IInv'
  <1>p. /\ drv \in Drivers /\ limit.kids \in Nat /\ at = "unpin"
        /\ at' = "idle"
    BY Bounds DEF finish_unpins, IInv, TypeOK
  <1>a. Built
    BY <1>p DEF IInv, Nothing
  <1>n. /\ drv.kids \in Nat /\ drv.pins = drv.kids + 1
        /\ "driver" \in res /\ conn.stopped_done
    BY <1>a, <1>p DEF IInv, Pinned, Drivers, Finishing
  <1>u. UNCHANGED <<conn, queue, boot, op, held, group, now, timer,
                    accepted, ran, rings, owed, early>>
    BY DEF finish_unpins, clocks, ghosts
  <1>d. /\ drv' \in Drivers /\ drv'.kids = drv.kids
        /\ drv'.pins = drv.pins - 1 /\ drv'.kids \in Nat
        /\ drv'.rundown = drv.rundown
        /\ drv'.stop_started = drv.stop_started
        /\ drv'.terminal_done = drv.terminal_done
        /\ drv'.finish_scheduled = drv.finish_scheduled
        /\ drv'.shutdown_started = drv.shutdown_started
    BY <1>p, <1>n DEF finish_unpins, Drivers
  <1>r. res' = IF drv'.pins = 0 THEN res \ {"driver", "group"} ELSE res
    BY <1>d DEF finish_unpins, drv_free_if_done
  <1>1. TypeOK'
    BY <1>u, <1>d, <1>r, <1>p, SameTypes DEF IInv, TypeOK
  <1>2. (~Built => Nothing)'
    BY <1>u, <1>a DEF Built
  <1>3. Latches'
    BY <1>u, <1>d DEF IInv, Latches
  <1>4. StopOnce'
    BY <1>u, <1>d DEF IInv, StopOnce
  <1>5. Queued'
    BY <1>u, <1>d, <1>p DEF IInv, Queued
  <1>6. Finishing'
    BY <1>u, <1>d, <1>r, <1>p, <1>n DEF IInv, Finishing, Over
  <1>7. Counted'
    BY <1>u, <1>p, TokensKept, CountKept DEF IInv, Starting
  <1>8. Handled'
    BY <1>u, <1>r DEF IInv, Handled, Built
  <1>9. Pinned'
    BY <1>u, <1>d, <1>r, <1>n, <1>p DEF Pinned, Built
  <1>10. Timed'
    BY <1>u DEF IInv, Timed
  <1> QED BY <1>1, <1>2, <1>3, <1>4, <1>5, <1>6, <1>7, <1>8, <1>9,
        <1>10 DEF IInv

-----------------------------------------------------------------------------
(* The domain runs a block.                                                *)

LEMMA PostTramp ==
    ASSUME IInv, limit' = limit, nw_post_tramp
    PROVE  IInv'
  <1>a. at = "idle" /\ Built /\ Has(queue, "post") /\ at' = "post"
        /\ Head(queue).n = Len(ran) + 1 /\ Len(ran) < accepted
    BY Runs DEF nw_post_tramp
  <1>b. Len(ran) \in Nat /\ accepted \in 0..limit.posts /\ limit.posts \in Nat
        /\ ran \in Seq(1..limit.posts) /\ ran = [i \in 1..Len(ran) |-> i]
    BY Bounds, QueueFacts DEF IInv, TypeOK, Queued
  <1>u. UNCHANGED <<res, conn, drv, boot, op, held, group, now, timer,
                    accepted, rings, owed, early>>
    BY DEF nw_post_tramp, clocks
  <1>n. /\ ran' \in Seq(1..limit.posts) /\ Len(ran') = Len(ran) + 1
        /\ ran' = [i \in 1..Len(ran') |-> i]
    <2>1. ran' = Append(ran, Len(ran) + 1)
      BY <1>a DEF nw_post_tramp
    <2>2. Len(ran) + 1 \in 1..limit.posts
      BY <1>a, <1>b
    <2>3. ran' \in Seq(1..limit.posts) /\ Len(ran') = Len(ran) + 1
      BY <1>b, <2>1, <2>2
    <2>4. \A i \in 1..Len(ran') : ran'[i] = i
      BY <1>b, <2>1, <2>2, <2>3
    <2>5. ran' = [i \in 1..Len(ran') |-> ran'[i]]
      BY <2>3
    <2> QED BY <2>3, <2>4, <2>5
  <1>q. /\ queue' \in Seq(Blocks) /\ InOrder(queue', Len(ran'), accepted)
        /\ \A x : Has(queue', x) => Has(queue, x)
    BY <1>n, Runs DEF nw_post_tramp
  <1>s. ~Over /\ ~drv.rundown
    <2>1. ~Over
      BY <1>a DEF IInv, Finishing, LateKinds
    <2>2. drv.rundown => Len(ran) = accepted
      BY DEF IInv, Queued
    <2> QED BY <1>a, <2>1, <2>2, QueueFacts
  <1>t. Tokens' = Tokens
    BY <1>a, <1>b, <1>n, <1>u DEF Tokens, Outstanding, Starting
  <1>1. TypeOK'
    BY <1>a, <1>n, <1>u, <1>q, SameTypes DEF IInv, TypeOK
  <1>2. (~Built => Nothing)'
    BY <1>u, <1>a DEF Built
  <1>3. Latches'
    BY <1>u DEF IInv, Latches
  <1>4. StopOnce'
    BY <1>u, <1>q DEF IInv, StopOnce
  <1>5. Queued'
    <2>1. Len(ran') <= accepted /\ Len(ran') > 0
      BY <1>a, <1>b, <1>n
    <2> QED BY <1>u, <1>q, <1>n, <1>s, <2>1 DEF Queued
  <1>6. Finishing'
    BY <1>a, <1>s, <1>u, <1>q DEF IInv, Finishing, Over
  <1>7. Counted'
    BY <1>t, <1>u, CountKept DEF IInv
  <1>8. Handled'
    BY <1>u DEF IInv, Handled, Built
  <1>9. Pinned'
    BY <1>a, <1>u DEF IInv, Pinned, Built
  <1>10. Timed'
    BY <1>u DEF IInv, Timed
  <1> QED BY <1>1, <1>2, <1>3, <1>4, <1>5, <1>6, <1>7, <1>8, <1>9,
        <1>10 DEF IInv

LEMMA DoorbellFire ==
    ASSUME IInv, limit' = limit, nw_doorbell_fire
    PROVE  IInv'
  <1>a. at = "idle" /\ Built /\ at' = IF "bell" \in res THEN "bell" ELSE "idle"
    BY Runs DEF nw_doorbell_fire
  <1>u. UNCHANGED <<res, conn, drv, boot, op, held, group, now, timer,
                    accepted, ran, rings, owed, early>>
    BY DEF nw_doorbell_fire, clocks, ghosts
  <1>q. /\ queue' \in Seq(Blocks) /\ InOrder(queue', Len(ran), accepted)
        /\ \A x : Has(queue', x) => Has(queue, x)
    BY Runs DEF nw_doorbell_fire
  <1>1. TypeOK'
    BY <1>a, <1>u, <1>q, SameTypes DEF IInv, TypeOK
  <1>2. (~Built => Nothing)'
    BY <1>u, <1>a DEF Built
  <1>3. Latches'
    BY <1>u DEF IInv, Latches
  <1>4. StopOnce'
    BY <1>u, <1>q DEF IInv, StopOnce
  <1>5. Queued'
    BY <1>u, <1>q, <1>a DEF IInv, Queued
  <1>6. Finishing'
    BY <1>a, <1>u, <1>q DEF IInv, Finishing, Over, Sources
  <1>7. Counted'
    BY <1>a, <1>u, TokensKept, CountKept DEF IInv, Starting
  <1>8. Handled'
    BY <1>u DEF IInv, Handled, Built
  <1>9. Pinned'
    BY <1>a, <1>u DEF IInv, Pinned, Built
  <1>10. Timed'
    BY <1>u DEF IInv, Timed
  <1> QED BY <1>1, <1>2, <1>3, <1>4, <1>5, <1>6, <1>7, <1>8, <1>9,
        <1>10 DEF IInv

LEMMA TimerFire ==
    ASSUME IInv, limit' = limit, nw_doorbell_timer_fire
    PROVE  IInv'
  <1> DEFINE real == "timer" \in res /\ GenuineFire(conn)
  <1>a. at = "idle" /\ Built
    BY Runs DEF nw_doorbell_timer_fire
  <1>k. conn \in Handles /\ MaxUptime \in Nat /\ now \in Nat /\ now < MaxUptime
        /\ owed \in Nat
    BY Bounds DEF IInv, TypeOK
  <1>u. UNCHANGED <<res, drv, at, boot, op, held, group, now, accepted, ran,
                    rings>>
    BY DEF nw_doorbell_timer_fire
  <1>c. /\ conn' \in Handles /\ conn'.refs = conn.refs
        /\ conn'.stop_started = conn.stop_started
        /\ conn'.closed = conn.closed
        /\ conn'.start_state = conn.start_state
        /\ conn'.stop_enqueued = conn.stop_enqueued
        /\ conn'.stopped_done = conn.stopped_done
        /\ conn'.lifecycle_over = conn.lifecycle_over
        /\ conn'.armed => conn' = conn /\ ~real
    <2>1. CASE real
      <3>1. conn' = Disarm(conn)
        BY <2>1 DEF nw_doorbell_timer_fire, Disarm
      <3> QED BY <1>k, <3>1, Disarmed
    <2>2. CASE ~real
      BY <1>k, <2>2 DEF nw_doorbell_timer_fire
    <2> QED BY <2>1, <2>2
  <1>b. timer' \in 0..Never /\ owed' \in 0..Never /\ early' = FALSE
        /\ (~real => owed' = owed)
    <2>1. Never \in 0..Never /\ timer \in 0..Never /\ owed \in 0..Never
          /\ early = FALSE
      BY Bounds DEF IInv, TypeOK, Timed
    <2>2. CASE real
      <3>1. conn.armed /\ now >= conn.deadline
        BY <2>2 DEF GenuineFire
      <3>2. ~(now < owed)
        BY <1>k, <3>1 DEF IInv, Timed
      <3>3. timer' = Never /\ owed' = Never /\ early' = (early \/ now < owed)
        BY <2>2 DEF nw_doorbell_timer_fire
      <3> QED BY <2>1, <2>2, <3>2, <3>3
    <2>3. CASE ~real
      BY <2>1, <2>3 DEF nw_doorbell_timer_fire
    <2> QED BY <2>2, <2>3
  <1>q. /\ queue' \in Seq(Blocks) /\ InOrder(queue', Len(ran), accepted)
        /\ \A x : Has(queue', x) => Has(queue, x) \/ x = "bell"
    <2>1. "bell" \in Kinds \ {"stop"} /\ "bell" \in LateKinds
      BY DEF Kinds, LateKinds
    <2>2. CASE queue' = Tail(queue)
      BY <2>2, Runs DEF nw_doorbell_timer_fire
    <2>3. CASE queue' = Append(Tail(queue), Block("bell"))
      BY <2>1, <2>3, Runs, RunsThen DEF nw_doorbell_timer_fire
    <2> QED BY <2>2, <2>3 DEF nw_doorbell_timer_fire
  <1>1. TypeOK'
    BY <1>b, <1>c, <1>u, <1>q, SameTypes DEF IInv, TypeOK
  <1>2. (~Built => Nothing)'
    BY <1>u, <1>a DEF Built
  <1>3. Latches'
    BY <1>u, <1>c DEF IInv, Latches
  <1>4. StopOnce'
    BY <1>u, <1>q, <1>c DEF IInv, StopOnce
  <1>5. Queued'
    BY <1>u, <1>q, <1>a DEF IInv, Queued
  <1>6. Finishing'
    BY <1>a, <1>c, <1>u, <1>q DEF IInv, Finishing, Over, LateKinds
  <1>7. Counted'
    BY <1>u, <1>c, TokensKept, CountKept DEF IInv, Starting
  <1>8. Handled'
    BY <1>u, <1>c DEF IInv, Handled, Built
  <1>9. Pinned'
    BY <1>u, <1>c DEF IInv, Pinned, Built
  <1>10. Timed'
    BY <1>b, <1>c DEF IInv, Timed
  <1> QED BY <1>1, <1>2, <1>3, <1>4, <1>5, <1>6, <1>7, <1>8, <1>9,
        <1>10 DEF IInv

LEMMA FinishWorker ==
    ASSUME IInv, limit' = limit, nw_finish_worker
    PROVE  IInv'
  <1>a. at = "idle" /\ at' = "stopped" /\ Built /\ Has(queue, "finish")
    BY Runs DEF nw_finish_worker
  <1>b. timer' \in 0..Never /\ owed' \in 0..Never
        /\ conn \in Handles /\ MaxUptime \in Nat
    BY Bounds DEF nw_finish_worker, IInv, TypeOK
  <1>u. UNCHANGED <<drv, boot, op, held, group, now, accepted, ran, rings,
                    early>> /\ res' = res \ Sources
    BY DEF nw_finish_worker, nw_doorbell_teardown
  <1>c. /\ conn' \in Handles /\ conn'.refs = conn.refs
        /\ conn'.stop_started = conn.stop_started
        /\ conn'.closed = conn.closed
        /\ conn'.start_state = conn.start_state
        /\ conn'.stop_enqueued = conn.stop_enqueued
        /\ conn'.stopped_done = conn.stopped_done
        /\ conn'.lifecycle_over = conn.lifecycle_over
        /\ ~conn'.armed
    BY <1>b, Disarmed DEF nw_finish_worker
  <1>q. /\ queue' \in Seq(Blocks) /\ InOrder(queue', Len(ran), accepted)
        /\ \A x : Has(queue', x) => Has(queue, x) /\ x \in LateKinds
    BY Runs DEF nw_finish_worker
  <1>s. ~conn.stopped_done /\ drv.finish_scheduled
    BY <1>a DEF IInv, Finishing, Over
  <1>1. TypeOK'
    BY <1>a, <1>b, <1>c, <1>u, <1>q, SameTypes DEF IInv, TypeOK
  <1>2. (~Built => Nothing)'
    BY <1>u, <1>a DEF Built
  <1>3. Latches'
    BY <1>u, <1>c DEF IInv, Latches
  <1>4. StopOnce'
    BY <1>u, <1>q, <1>c DEF IInv, StopOnce
  <1>5. Queued'
    BY <1>u, <1>q, <1>a DEF IInv, Queued
  <1>6. Finishing'
    BY <1>a, <1>s, <1>c, <1>u, <1>q DEF IInv, Finishing, Over, LateKinds
  <1>7. Counted'
    BY <1>a, <1>u, <1>c, TokensKept, CountKept DEF IInv, Starting
  <1>8. Handled'
    BY <1>u, <1>c DEF IInv, Handled, Built, Sources
  <1>9. Pinned'
    BY <1>a, <1>s, <1>u, <1>c DEF IInv, Pinned, Built, Sources
  <1>10. Timed'
    BY <1>c, <1>u DEF IInv, Timed
  <1> QED BY <1>1, <1>2, <1>3, <1>4, <1>5, <1>6, <1>7, <1>8, <1>9,
        <1>10 DEF IInv

LEMMA GroupReadyRuns ==
    ASSUME IInv, limit' = limit, group_ready
    PROVE  IInv'
  <1>a. at = "idle" /\ Built /\ group.state # "new"
    <2>1. at = "idle" /\ Built /\ Has(queue, "ready")
      BY Runs DEF group_ready
    <2> QED BY <2>1 DEF IInv, Finishing
  <1>b. drv \in Drivers /\ limit.kids \in Nat
    BY Bounds DEF IInv, TypeOK
  <1>u. UNCHANGED <<res, conn, at, boot, op, held, group, now, timer,
                    accepted, ran, rings, owed, early>>
    BY DEF group_ready, clocks, ghosts
  <1>d. /\ drv' \in Drivers /\ SameStop(drv, drv') /\ SameEnd(drv, drv')
        /\ drv'.pins - drv'.kids = drv.pins - drv.kids
        /\ drv' # drv => "session" \in res /\ drv'.kids >= drv.kids
    <2>1. CASE drv' = drv
      BY <1>b, <2>1 DEF SameStop, SameEnd, Drivers
    <2>2. CASE drv' # drv
      <3>1. "session" \in res /\ \E k \in {0,
            1} : /\ drv.kids + k <= limit.kids
                /\ drv' = [drv EXCEPT !.started = TRUE, !.pins = drv.pins + k,
                                      !.kids = drv.kids + k]
        BY <2>2 DEF group_ready
      <3>2. PICK k \in {0, 1} : /\ drv.kids + k <= limit.kids
                /\ drv' = [drv EXCEPT !.started = TRUE, !.pins = drv.pins + k,
                                      !.kids = drv.kids + k]
        BY <3>1
      <3>3. drv.pins = drv.kids + IF conn.stopped_done THEN 0 ELSE 1
        BY <1>a, <1>b DEF IInv, Pinned, Drivers
      <3> DEFINE m == drv.kids + k
      <3> DEFINE p == drv.pins + k
      <3>4. m \in 0..limit.kids /\ p \in 0..(limit.kids + 1)
            /\ p - m = drv.pins - drv.kids /\ m >= drv.kids
        BY <1>b, <3>2, <3>3 DEF Drivers
      <3>5. drv' = [drv EXCEPT !.started = TRUE, !.pins = p, !.kids = m]
        BY <3>2
      <3> HIDE DEF m, p
      <3>6. /\ drv' \in Drivers /\ SameStop(drv, drv') /\ SameEnd(drv, drv')
            /\ drv'.pins = p /\ drv'.kids = m
        BY <1>b, <3>4, <3>5 DEF Drivers, SameStop, SameEnd
      <3> QED BY <3>1, <3>4, <3>6
    <2> QED BY <2>1, <2>2
  <1>q. /\ queue' \in Seq(Blocks) /\ InOrder(queue', Len(ran), accepted)
        /\ \A x : Has(queue', x) => Has(queue, x)
    BY Runs DEF group_ready
  <1>1. TypeOK'
    BY <1>a, <1>u, <1>d, <1>q, SameTypes DEF IInv, TypeOK, Groups
  <1>2. (~Built => Nothing)'
    BY <1>u, <1>a DEF Built
  <1>3. Latches'
    BY <1>u, <1>d DEF IInv, Latches, SameStop
  <1>4. StopOnce'
    BY <1>u, <1>q, <1>d DEF IInv, StopOnce, SameStop
  <1>5. Queued'
    BY <1>u, <1>q, <1>a, <1>d DEF IInv, Queued, SameStop
  <1>6. Finishing'
    BY <1>a, <1>u, <1>q, <1>d DEF IInv, Finishing, Over, SameEnd
  <1>7. Counted'
    BY <1>a, <1>u, TokensKept, CountKept DEF IInv, Starting
  <1>8. Handled'
    BY <1>u DEF IInv, Handled, Built
  <1>9. Pinned'
    <2>1. CASE drv' = drv
      BY <2>1, <1>a, <1>u DEF IInv, Pinned, Built
    <2>2. CASE drv' # drv
      <3>1. ~conn.stopped_done
        BY <2>2, <1>d DEF IInv, Finishing, Over
      <3>2. drv.kids \in Nat /\ drv.pins = drv.kids + 1 /\ "driver" \in res
        <4>1. drv.kids \in Nat /\ drv.pins = drv.kids + 1
          BY <1>a, <1>b, <3>1 DEF IInv, Pinned, Drivers
        <4> QED BY <4>1, <1>a DEF IInv, Pinned
      <3>3. drv'.kids \in Nat /\ drv'.pins = drv'.kids + 1
        BY <1>b, <1>d, <3>2 DEF Drivers
      <3> QED BY <1>u, <3>1, <3>2, <3>3 DEF Pinned
    <2> QED BY <2>1, <2>2
  <1>10. Timed'
    BY <1>u DEF IInv, Timed
  <1> QED BY <1>1, <1>2, <1>3, <1>4, <1>5, <1>6, <1>7, <1>8, <1>9,
        <1>10 DEF IInv

LEMMA GroupWaitingRuns ==
    ASSUME IInv, limit' = limit, group_waiting
    PROVE  IInv'
  <1>a. at = "idle" /\ Built /\ group.state # "new"
    <2>1. at = "idle" /\ Built /\ Has(queue, "waiting")
      BY Runs DEF group_waiting
    <2> QED BY <2>1 DEF IInv, Finishing
  <1>u. UNCHANGED <<res, conn, at, boot, op, held, now, timer,
                    accepted, ran, rings, owed, early>>
    BY DEF group_waiting, clocks, ghosts
  <1>d. /\ drv' \in Drivers /\ SameCounts(drv, drv') /\ SameEnd(drv, drv')
        /\ drv'.rundown = drv.rundown /\ drv'.stop_started = drv.stop_started
        /\ drv'.shutdown_started
    BY CloseIs DEF group_waiting, IInv, TypeOK
  <1>g. group' \in Groups /\ group'.state = group.state
    BY CloseGroupIs DEF group_waiting, IInv
  <1>q. /\ queue' \in Seq(Blocks) /\ InOrder(queue', Len(ran), accepted)
        /\ \A x : Has(queue', x) => Has(queue, x)
    BY Runs DEF group_waiting
  <1>1. TypeOK'
    BY <1>a, <1>u, <1>d, <1>g, <1>q, SameTypes DEF IInv, TypeOK, Groups
  <1>2. (~Built => Nothing)'
    BY <1>u, <1>a DEF Built
  <1>3. Latches'
    BY <1>a, <1>u, <1>d, <1>g DEF IInv, Latches
  <1>4. StopOnce'
    BY <1>u, <1>q, <1>d DEF IInv, StopOnce, SameStop
  <1>5. Queued'
    BY <1>u, <1>q, <1>a, <1>d DEF IInv, Queued, SameStop
  <1>6. Finishing'
    BY <1>a, <1>u, <1>q, <1>d, <1>g DEF IInv, Finishing, Over, SameEnd
  <1>7. Counted'
    BY <1>a, <1>u, TokensKept, CountKept DEF IInv, Starting
  <1>8. Handled'
    BY <1>u DEF IInv, Handled, Built
  <1>9. Pinned'
    BY <1>a, <1>u, <1>d DEF IInv, Pinned, Built, SameCounts
  <1>10. Timed'
    BY <1>u DEF IInv, Timed
  <1> QED BY <1>1, <1>2, <1>3, <1>4, <1>5, <1>6, <1>7, <1>8, <1>9,
        <1>10 DEF IInv

LEMMA VerifyRejects ==
    ASSUME IInv, limit' = limit, verify_rejects
    PROVE  IInv'
  <1>a. at = "idle" /\ Built /\ group.state # "new"
    <2>1. at = "idle" /\ Built /\ Has(queue, "verify")
      BY Runs DEF verify_rejects
    <2> QED BY <2>1 DEF IInv, Finishing
  <1>s. ~Over
    <2>1. Has(queue, "verify")
      BY Runs DEF verify_rejects
    <2> QED BY <2>1 DEF IInv, Finishing, LateKinds
  <1>u. UNCHANGED <<res, conn, at, boot, op, held, group, now, timer,
                    accepted, ran, rings, owed, early>>
    BY DEF verify_rejects, clocks, ghosts
  <1>d. /\ drv' \in Drivers /\ SameCounts(drv, drv') /\ SameEnd(drv, drv')
        /\ drv'.rundown = drv.rundown /\ drv'.stop_started = drv.stop_started
        /\ drv'.shutdown_started
    BY CloseIs DEF verify_rejects, IInv, TypeOK
  <1>q. /\ queue' \in Seq(Blocks) /\ InOrder(queue', Len(ran), accepted)
        /\ \A x : Has(queue', x) => Has(queue, x) \/ x = "gcancel"
    <2>1. CASE drv.shutdown_started
      <3>1. queue' = Tail(queue) \o <<>> /\ Tail(queue) \in Seq(Blocks)
        BY <2>1, Runs DEF verify_rejects
      <3>2. queue' = Tail(queue)
        BY <3>1
      <3> QED BY <3>2, Runs DEF verify_rejects
    <2>2. CASE ~drv.shutdown_started
      <3>1. ~Has(queue, "finish")
        BY <2>2 DEF IInv, Finishing, Latches
      <3>2. ~Has(Tail(queue), "finish")
        BY <3>1, Runs DEF verify_rejects
      <3>3. queue' = Tail(queue) \o <<Block("gcancel")>>
        BY <2>2 DEF verify_rejects
      <3>4. "gcancel" \in Kinds \ {"stop"}
        BY DEF Kinds
      <3>5. Run("verify") /\ "verify" # "post"
        BY DEF verify_rejects
      <3> DEFINE q == Append(Tail(queue), Block("gcancel"))
      <3>6. /\ Tail(queue) \o <<Block("gcancel")>> = q
            /\ q \in Seq(Blocks) /\ InOrder(q, Len(ran), accepted)
            /\ \A x : Has(q, x) <=> Has(Tail(queue), x) \/ x = "gcancel"
        BY <3>2, <3>4, <3>5, RunsThen
      <3> QED BY <3>3, <3>5, <3>6, Runs
    <2> QED BY <2>1, <2>2
  <1>1. TypeOK'
    BY <1>a, <1>u, <1>d, <1>q, SameTypes DEF IInv, TypeOK, Groups
  <1>2. (~Built => Nothing)'
    BY <1>u, <1>a DEF Built
  <1>3. Latches'
    BY <1>a, <1>u, <1>d DEF IInv, Latches
  <1>4. StopOnce'
    BY <1>u, <1>q, <1>d DEF IInv, StopOnce
  <1>5. Queued'
    BY <1>u, <1>q, <1>a, <1>d DEF IInv, Queued, SameStop
  <1>6. Finishing'
    BY <1>a, <1>u, <1>q, <1>d, <1>s DEF IInv, Finishing, Over, SameEnd
  <1>7. Counted'
    BY <1>a, <1>u, TokensKept, CountKept DEF IInv, Starting
  <1>8. Handled'
    BY <1>u DEF IInv, Handled, Built
  <1>9. Pinned'
    BY <1>a, <1>u, <1>d DEF IInv, Pinned, Built, SameCounts
  <1>10. Timed'
    BY <1>u DEF IInv, Timed
  <1> QED BY <1>1, <1>2, <1>3, <1>4, <1>5, <1>6, <1>7, <1>8, <1>9,
        <1>10 DEF IInv

LEMMA VerifyAccepts ==
    ASSUME IInv, limit' = limit, verify_accepts
    PROVE  IInv'
  <1>a. at = "idle" /\ Built
    BY Runs DEF verify_accepts
  <1>u. UNCHANGED <<res, conn, drv, at, boot, op, held, now, timer,
                    accepted, ran, rings, owed, early>>
    BY DEF verify_accepts, clocks, ghosts
  <1>g. /\ group' \in Groups /\ group'.cancel = group.cancel
        /\ group'.state = IF group.state = "asking" THEN "trusted"
                                                    ELSE group.state
    <2>1. group \in Groups
      BY DEF IInv, TypeOK, Groups
    <2> DEFINE x == IF group.state = "asking" THEN "trusted" ELSE group.state
    <2>2. group' = [group EXCEPT !.state = x]
      BY DEF verify_accepts
    <2>3. x \in Live \cup {"new", "failed", "cancelled"}
      BY <2>1 DEF Groups, Live
    <2> HIDE DEF x
    <2>4. group' \in Groups /\ group'.cancel = group.cancel /\ group'.state = x
      BY <2>1, <2>2, <2>3 DEF Groups
    <2> QED BY <2>4 DEF x
  <1>q. /\ queue' \in Seq(Blocks) /\ InOrder(queue', Len(ran), accepted)
        /\ \A x : Has(queue', x) => Has(queue, x)
    BY Runs DEF verify_accepts
  <1>1. TypeOK'
    BY <1>a, <1>u, <1>g, <1>q, SameTypes DEF IInv, TypeOK, Groups
  <1>2. (~Built => Nothing)'
    BY <1>u, <1>a DEF Built
  <1>3. Latches'
    BY <1>u, <1>g DEF IInv, Latches, SameStop
  <1>4. StopOnce'
    BY <1>u, <1>q DEF IInv, StopOnce, SameStop
  <1>5. Queued'
    BY <1>u, <1>q, <1>a DEF IInv, Queued, SameStop
  <1>6. Finishing'
    BY <1>a, <1>u, <1>q, <1>g DEF IInv, Finishing, Over, SameEnd
  <1>7. Counted'
    BY <1>a, <1>u, TokensKept, CountKept DEF IInv, Starting
  <1>8. Handled'
    BY <1>u DEF IInv, Handled, Built
  <1>9. Pinned'
    BY <1>a, <1>u DEF IInv, Pinned, Built, SameCounts
  <1>10. Timed'
    BY <1>u DEF IInv, Timed
  <1> QED BY <1>1, <1>2, <1>3, <1>4, <1>5, <1>6, <1>7, <1>8, <1>9,
        <1>10 DEF IInv

LEMMA VerifyCancels ==
    ASSUME IInv, limit' = limit, verify_cancels
    PROVE  IInv'
  <1>a. at = "idle" /\ Built /\ group.state # "new"
    <2>1. at = "idle" /\ Built /\ Has(queue, "gcancel")
      BY Runs DEF verify_cancels
    <2> QED BY <2>1 DEF IInv, Finishing
  <1>u. UNCHANGED <<res, conn, drv, at, boot, op, held, now, timer,
                    accepted, ran, rings, owed, early>>
    BY DEF verify_cancels, clocks, ghosts
  <1>g. group' \in Groups /\ group'.state = group.state
    BY DEF verify_cancels, IInv, TypeOK, Groups
  <1>q. /\ queue' \in Seq(Blocks) /\ InOrder(queue', Len(ran), accepted)
        /\ \A x : Has(queue', x) => Has(queue, x)
    BY Runs DEF verify_cancels
  <1>1. TypeOK'
    BY <1>a, <1>u, <1>g, <1>q, SameTypes DEF IInv, TypeOK, Groups
  <1>2. (~Built => Nothing)'
    BY <1>u, <1>a DEF Built
  <1>3. Latches'
    BY <1>a, <1>u, <1>g DEF IInv, Latches
  <1>4. StopOnce'
    BY <1>u, <1>q DEF IInv, StopOnce, SameStop
  <1>5. Queued'
    BY <1>u, <1>q, <1>a DEF IInv, Queued, SameStop
  <1>6. Finishing'
    BY <1>a, <1>u, <1>q, <1>g DEF IInv, Finishing, Over, SameEnd
  <1>7. Counted'
    BY <1>a, <1>u, TokensKept, CountKept DEF IInv, Starting
  <1>8. Handled'
    BY <1>u DEF IInv, Handled, Built
  <1>9. Pinned'
    BY <1>a, <1>u DEF IInv, Pinned, Built, SameCounts
  <1>10. Timed'
    BY <1>u DEF IInv, Timed
  <1> QED BY <1>1, <1>2, <1>3, <1>4, <1>5, <1>6, <1>7, <1>8, <1>9,
        <1>10 DEF IInv

LEMMA StopWorker ==
    ASSUME IInv, limit' = limit, nw_stop_worker
    PROVE  IInv'
  <1> DEFINE c == Close(drv)
  <1> DEFINE d == [c EXCEPT !.rundown = TRUE, !.stop_started = TRUE]
  <1>w. Run("stop") /\ "stop" # "post"
    BY DEF nw_stop_worker
  <1>a. at = "idle" /\ Built /\ Len(ran) = accepted /\ Has(queue, "stop")
        /\ ~Has(Tail(queue), "stop")
    BY <1>w, Runs
  <1>s. /\ group.state # "new" /\ conn.stop_enqueued /\ ~drv.stop_started
        /\ ~drv.finish_scheduled /\ ~Over
        /\ \A x \in Actors : op[x] # "enqueue_stop"
    BY <1>a DEF IInv, Finishing, StopOnce
  <1>b. /\ drv' = Scheduled(d) /\ queue' = Tail(queue) \o FinishBlock(d)
        /\ group' = CloseGroup(drv)
    BY DEF nw_stop_worker
  <1>c. /\ c \in Drivers /\ SameCounts(drv, c) /\ SameEnd(drv, c)
        /\ c.shutdown_started
    BY CloseIs DEF IInv, TypeOK
  <1> HIDE DEF c
  <1>x. /\ d \in Drivers /\ SameCounts(c, d) /\ SameEnd(c, d)
        /\ d.rundown /\ d.stop_started /\ d.shutdown_started
    BY <1>c DEF Drivers, SameCounts, SameEnd
  <1> HIDE DEF d
  <1>d. /\ drv' \in Drivers /\ SameCounts(drv, drv')
        /\ drv'.rundown /\ drv'.stop_started /\ drv'.shutdown_started
        /\ drv'.terminal_done = drv.terminal_done
        /\ drv'.finish_scheduled <=> drv.terminal_done
    BY <1>b, <1>c, <1>x, <1>s, ScheduledIs DEF SameCounts, SameStop, SameEnd
  <1>e. FinishBlock(d) = IF drv.terminal_done THEN <<Block("finish")>>
                                              ELSE <<>>
    BY <1>c, <1>x, <1>s DEF FinishBlock, FinishDue, SameEnd
  <1>f. queue' = Tail(queue) \o IF drv.terminal_done THEN <<Block("finish")>>
                                                     ELSE <<>>
    BY <1>b, <1>e
  <1>u. UNCHANGED <<res, conn, at, boot, op, held, now, timer,
                    accepted, ran, rings, owed, early>>
    BY DEF nw_stop_worker, clocks, ghosts
  <1>g. group' \in Groups /\ group'.state = group.state
    BY <1>b, CloseGroupIs DEF IInv
  <1>q. /\ queue' \in Seq(Blocks) /\ InOrder(queue', Len(ran), accepted)
        /\ \A x : Has(queue', x) =>
             \/ Has(Tail(queue), x)
             \/ x = "finish" /\ drv.terminal_done
    <2>1. CASE ~drv.terminal_done
      <3>1. Tail(queue) \in Seq(Blocks)
        BY <1>w, Runs
      <3>2. queue' = Tail(queue)
        BY <2>1, <1>f, <3>1
      <3> QED BY <1>w, <3>2, Runs
    <2>2. CASE drv.terminal_done
      <3>1. ~Has(queue, "finish")
        BY <1>s DEF IInv, Finishing
      <3>2. ~Has(Tail(queue), "finish")
        BY <1>w, <3>1, Runs
      <3>3. queue' = Tail(queue) \o <<Block("finish")>>
        BY <1>f, <2>2
      <3>4. "finish" \in Kinds \ {"stop"}
        BY DEF Kinds
      <3> DEFINE q == Append(Tail(queue), Block("finish"))
      <3>5. /\ Tail(queue) \o <<Block("finish")>> = q
            /\ q \in Seq(Blocks) /\ InOrder(q, Len(ran), accepted)
            /\ \A x : Has(q, x) <=> Has(Tail(queue), x) \/ x = "finish"
        BY <1>w, <3>2, <3>4, RunsThen
      <3> QED BY <2>2, <3>3, <3>5
    <2> QED BY <2>1, <2>2
  <1>h. \A x : Has(Tail(queue), x) => Has(queue, x)
    BY <1>w, Runs
  <1>1. TypeOK'
    BY <1>a, <1>u, <1>d, <1>g, <1>q, SameTypes DEF IInv, TypeOK, Groups
  <1>2. (~Built => Nothing)'
    BY <1>u, <1>a DEF Built
  <1>3. Latches'
    BY <1>u, <1>d, <1>g, <1>s DEF IInv, Latches
  <1>4. StopOnce'
    BY <1>a, <1>u, <1>q, <1>s DEF StopOnce
  <1>5. Queued'
    BY <1>u, <1>q, <1>a, <1>d DEF IInv, Queued
  <1>6. Finishing'
    BY <1>a, <1>u, <1>q, <1>h, <1>d, <1>g, <1>s DEF IInv, Finishing, Over
  <1>7. Counted'
    BY <1>a, <1>u, TokensKept, CountKept DEF IInv, Starting
  <1>8. Handled'
    BY <1>u DEF IInv, Handled, Built
  <1>9. Pinned'
    BY <1>a, <1>u, <1>d DEF IInv, Pinned, Built, SameCounts
  <1>10. Timed'
    BY <1>u DEF IInv, Timed
  <1> QED BY <1>1, <1>2, <1>3, <1>4, <1>5, <1>6, <1>7, <1>8, <1>9,
        <1>10 DEF IInv

LEMMA TerminalRuns ==
    ASSUME IInv, limit' = limit, group_handle_terminal
    PROVE  IInv'
  <1> DEFINE r == [drv EXCEPT !.terminal_done = TRUE]
  <1> DEFINE t == Scheduled(r)
  <1>w. PICK k \in {"failed", "cancelled"} : Run(k)
    BY DEF group_handle_terminal
  <1>a. at = "idle" /\ Built /\ Has(queue, k) /\ Head(queue).k = k
    BY <1>w, Runs
  <1>s. group.state \in {"failed", "cancelled"}
    BY <1>a DEF IInv, Finishing
  <1>b. /\ drv' = IF Head(queue).k = "failed" THEN Close(t) ELSE t
        /\ group' = IF Head(queue).k = "failed" THEN CloseGroup(drv) ELSE group
        /\ queue' = Tail(queue) \o
             IF t.finish_scheduled /\ ~drv.finish_scheduled
             THEN <<Block("finish")>> ELSE <<>>
    BY DEF group_handle_terminal, Terminal
  <1>c. /\ r \in Drivers /\ SameCounts(drv, r) /\ SameStop(drv, r)
        /\ r.terminal_done /\ r.finish_scheduled = drv.finish_scheduled
    BY DEF Drivers, SameCounts, SameStop, IInv, TypeOK
  <1> HIDE DEF r
  <1>x. /\ t \in Drivers /\ SameCounts(drv, t) /\ SameStop(drv, t)
        /\ t.terminal_done
        /\ t.finish_scheduled <=> drv.finish_scheduled \/ drv.stop_started
    BY <1>c, ScheduledIs DEF SameCounts, SameStop
  <1> HIDE DEF t
  <1>d. /\ drv' \in Drivers /\ SameCounts(drv, drv')
        /\ drv'.rundown = drv.rundown /\ drv'.stop_started = drv.stop_started
        /\ drv.shutdown_started => drv'.shutdown_started
        /\ drv'.terminal_done
        /\ drv'.finish_scheduled <=> drv.finish_scheduled \/ drv.stop_started
    <2>1. CASE drv' = t
      BY <2>1, <1>x DEF SameCounts, SameStop
    <2>2. CASE drv' = Close(t)
      BY <2>2, <1>x, CloseIs DEF SameCounts, SameStop, SameEnd
    <2> QED BY <1>b, <2>1, <2>2
  <1>u. UNCHANGED <<conn, at, boot, op, held, now, timer,
                    accepted, ran, rings, owed, early>>
        /\ res' = res \ {"session"}
    BY DEF group_handle_terminal, clocks, ghosts
  <1>g. group' \in Groups /\ group'.state = group.state
    <2>1. group \in Groups
      BY DEF IInv, TypeOK, Groups
    <2> QED BY <1>b, <2>1, CloseGroupIs DEF IInv
  <1>e. queue' = Tail(queue) \o
          IF drv.stop_started /\ ~drv.finish_scheduled
          THEN <<Block("finish")>> ELSE <<>>
    BY <1>b, <1>x
  <1>o. Over => drv.finish_scheduled
    BY DEF IInv, Finishing
  <1>q. /\ queue' \in Seq(Blocks) /\ InOrder(queue', Len(ran), accepted)
        /\ \A x : Has(queue', x) =>
             \/ Has(Tail(queue), x)
             \/ x = "finish" /\ drv.stop_started /\ ~drv.finish_scheduled
    <2>1. CASE ~(drv.stop_started /\ ~drv.finish_scheduled)
      <3>1. Tail(queue) \in Seq(Blocks)
        BY <1>w, Runs
      <3>2. queue' = Tail(queue)
        BY <2>1, <1>e, <3>1
      <3> QED BY <1>w, <3>2, Runs
    <2>2. CASE drv.stop_started /\ ~drv.finish_scheduled
      <3>1. ~Has(queue, "finish")
        BY <2>2 DEF IInv, Finishing
      <3>2. ~Has(Tail(queue), "finish")
        BY <1>w, <3>1, Runs
      <3>3. queue' = Tail(queue) \o <<Block("finish")>>
        BY <1>e, <2>2
      <3>4. "finish" \in Kinds \ {"stop"}
        BY DEF Kinds
      <3> DEFINE q == Append(Tail(queue), Block("finish"))
      <3>5. /\ Tail(queue) \o <<Block("finish")>> = q
            /\ q \in Seq(Blocks) /\ InOrder(q, Len(ran), accepted)
            /\ \A x : Has(q, x) <=> Has(Tail(queue), x) \/ x = "finish"
        BY <1>w, <3>2, <3>4, RunsThen
      <3> QED BY <2>2, <3>3, <3>5
    <2> QED BY <2>1, <2>2
  <1>h. \A x : Has(Tail(queue), x) => Has(queue, x)
    BY <1>w, Runs
  <1>1. TypeOK'
    BY <1>a, <1>u, <1>d, <1>g, <1>q, SameTypes DEF IInv, TypeOK, Groups
  <1>2. (~Built => Nothing)'
    BY <1>u, <1>a DEF Built
  <1>3. Latches'
    BY <1>u, <1>d, <1>g, <1>s DEF IInv, Latches
  <1>4. StopOnce'
    BY <1>u, <1>q, <1>h, <1>d, <1>s DEF IInv, StopOnce
  <1>5. Queued'
    BY <1>u, <1>q, <1>a, <1>d DEF IInv, Queued
  <1>6. Finishing'
    BY <1>a, <1>u, <1>q, <1>h, <1>d, <1>g, <1>s, <1>o DEF IInv, Finishing, Over
  <1>7. Counted'
    BY <1>a, <1>u, TokensKept, CountKept DEF IInv, Starting
  <1>8. Handled'
    BY <1>u DEF IInv, Handled, Built
  <1>9. Pinned'
    BY <1>a, <1>u, <1>d DEF IInv, Pinned, Built, SameCounts
  <1>10. Timed'
    BY <1>u DEF IInv, Timed
  <1> QED BY <1>1, <1>2, <1>3, <1>4, <1>5, <1>6, <1>7, <1>8, <1>9,
        <1>10 DEF IInv

-----------------------------------------------------------------------------
(* The induction.                                                          *)

LEMMA Begins == Init => IInv
  <1> SUFFICES ASSUME Init PROVE IInv
    OBVIOUS
  <1>b. /\ limit \in Limits /\ limit.refs \in Nat /\ limit.posts \in Nat
        /\ limit.rings \in Nat /\ limit.kids \in Nat /\ limit.time \in Nat
        /\ MaxUptime \in Nat /\ Never \in Nat
    BY BoundAssumption DEF Init, Never
  <1>c. conn \in Handles /\ drv \in Drivers
    BY <1>b DEF Init, Handles, Drivers
  <1>q. \A k : ~Has(queue, k)
    BY EmptyInOrder DEF Init
  <1>1. TypeOK
    <2>1. /\ res \subseteq Resources /\ queue \in Seq(Blocks)
          /\ ran \in Seq(1..limit.posts)
      BY DEF Init
    <2>2. /\ group \in [state : Live \cup {"new", "failed", "cancelled"},
                       cancel : BOOLEAN]
      BY DEF Init
    <2>3. /\ op \in [Actors -> {"none", "implicit_stop", "enqueue_stop",
                                "free", "join"}]
          /\ held \in [Actors -> 0..limit.refs]
      BY <1>b DEF Init
    <2>4. /\ now \in 0..limit.time /\ timer \in 0..Never
          /\ accepted \in 0..limit.posts /\ rings \in 0..limit.rings
          /\ owed \in 0..Never
      BY <1>b DEF Init
    <2> QED BY <1>b, <1>c, <2>1, <2>2, <2>3, <2>4 DEF Init, TypeOK
  <1>2. ~Built => Nothing
    BY DEF Init, Nothing
  <1>3. Latches
    BY DEF Init, Latches
  <1>4. StopOnce
    BY <1>q DEF Init, StopOnce
  <1>5. Queued
    <2>1. Len(ran) = 0 /\ ran = [i \in 1..0 |-> i] /\ InOrder(queue, 0, 0)
      BY EmptyInOrder DEF Init
    <2> QED BY <2>1 DEF Init, Queued
  <1>6. Finishing
    BY <1>q DEF Init, Finishing, Over
  <1>7. Counted
    <2>1. Tokens = {}
      BY DEF Init, Tokens, Outstanding, Starting
    <2> QED BY <2>1, FS_EmptySet DEF Init, Counted
  <1>8. Handled
    BY DEF Init, Handled, Built
  <1>9. Pinned
    BY DEF Init, Pinned, Built
  <1>10. Timed
    BY DEF Init, Timed
  <1> QED BY <1>1, <1>2, <1>3, <1>4, <1>5, <1>6, <1>7, <1>8, <1>9, <1>10
          DEF IInv

LEMMA Stutters ==
    ASSUME IInv, UNCHANGED <<vars, limit>>
    PROVE  IInv'
  <1>u. UNCHANGED <<res, conn, drv, queue, at, boot, op, held, group, now,
                    timer, accepted, ran, rings, owed, early, limit>>
    BY DEF vars
  <1>1. TypeOK'
    BY <1>u, SameTypes DEF IInv, TypeOK
  <1>2. (~Built => Nothing)' /\ Latches' /\ StopOnce' /\ Queued'
    BY <1>u DEF IInv, Built, Nothing, Latches, StopOnce, Queued
  <1>3. Finishing' /\ Handled' /\ Pinned' /\ Timed'
    BY <1>u DEF IInv, Finishing, Over, Handled, Built, Pinned, Timed
  <1>4. Counted'
    BY <1>u, TokensKept, CountKept DEF IInv, Starting
  <1> QED BY <1>1, <1>2, <1>3, <1>4 DEF IInv

LEMMA CallSteps ==
    ASSUME IInv, limit' = limit, NEW a \in Actors, Calls(a) \/ Resumes(a)
    PROVE  IInv'
  <1>1. CASE \E b \in limit.threads : wtq_nw_conn_retain(a, b)
    BY <1>1, Retain
  <1>2. CASE \E b \in limit.threads : wtq_nw_conn_release(a, b)
    BY <1>2, Release
  <1>3. CASE wtq_nw_conn_stop_begin(a)
    BY <1>3, StopBegin
  <1>4. CASE wtq_nw_conn_join(a)
    BY <1>4, Join
  <1>5. CASE wtq_nw_conn_post(a)
    BY <1>5, Posts
  <1>6. CASE wtq_nw_conn_doorbell_ring(a)
    BY <1>6, Rings
  <1>7. CASE \E d \in limit.delays : wtq_nw_conn_doorbell_ring_after(a, d)
    BY <1>7, RingAfter
  <1>8. CASE wtq_nw_conn_doorbell_cancel_after(a)
    BY <1>8, CancelAfter
  <1>9. CASE enqueue_stop(a)
    BY <1>9, EnqueueStop
  <1>10. CASE join_returns(a)
    BY <1>10, JoinReturns
  <1>11. CASE nw_conn_handle_free(a)
    BY <1>11, HandleFree
  <1> QED BY <1>1, <1>2, <1>3, <1>4, <1>5, <1>6, <1>7, <1>8, <1>9, <1>10,
             <1>11 DEF Calls, Resumes

LEMMA DomainSteps ==
    ASSUME IInv, limit' = limit, Domain
    PROVE  IInv'
  BY PostTramp, PostReturns, DoorbellFire, BellReturns, TimerFire, StopWorker,
     FinishWorker, StoppedReturns, FinishUnpins, GroupReadyRuns,
     GroupWaitingRuns, VerifyRejects, VerifyAccepts, VerifyCancels,
     TerminalRuns DEF Domain

LEMMA GroupSteps ==
    ASSUME IInv, limit' = limit, NwGroup
    PROVE  IInv'
  <1>1. CASE GroupReady
    BY <1>1, Reports DEF GroupReady, Live
  <1>2. CASE GroupWaiting
    BY <1>2, Reports DEF GroupWaiting, Live
  <1>3. CASE GroupFailed
    BY <1>3, Reports DEF GroupFailed
  <1>4. CASE GroupCancelled
    BY <1>4, Reports DEF GroupCancelled
  <1>5. CASE GroupVerifies
    BY <1>5, GroupAsks
  <1> QED BY <1>1, <1>2, <1>3, <1>4, <1>5 DEF NwGroup

LEMMA Steps ==
    IInv /\ [Next]_<<vars, limit>> => IInv'
  <1> SUFFICES ASSUME IInv, [Next]_<<vars, limit>> PROVE IInv'
    OBVIOUS
  <1>1. CASE UNCHANGED <<vars, limit>>
    BY <1>1, Stutters
  <1>2. CASE Next
    <2>1. limit' = limit /\ Step
      BY <1>2 DEF Next
    <2>2. CASE Starts
      BY <2>1, <2>2, StartBegins, GroupStart, StartEnds, StartReleases
         DEF Starts
    <2>3. CASE \E a \in Actors : Calls(a) \/ Resumes(a)
      BY <2>1, <2>3, CallSteps
    <2>4. CASE Domain
      BY <2>1, <2>4, DomainSteps
    <2>5. CASE NwGroup
      BY <2>1, <2>5, GroupSteps
    <2> QED BY <2>1, <2>2, <2>3, <2>4, <2>5, BuildFails, ConnBuild, ChildMade,
               ChildReaped, Ticks, TimerExpires DEF Step
  <1> QED BY <1>1, <1>2

(* The invariant holds of every run, whatever the threads, the bounds, and *)
(* what the group reports after it failed.                                 *)
THEOREM Inductive == Spec => []IInv
  BY Begins, Steps, PTL DEF Spec

-----------------------------------------------------------------------------
(* What follows from it.                                                   *)

(* wtq_nw_conn_post: accepted posts run in order of acceptance, each once, *)
(* and rundown starts behind the last of them.                             *)
THEOREM PostsRunFirst == Spec => []PostsBeforeRundown
  <1>1. IInv => PostsBeforeRundown
    BY DEF IInv, Queued, PostsBeforeRundown
  <1> QED BY <1>1, Inductive, PTL

(* wtq_nw_conn_stop_begin: no group is cancelled before it was started, and *)
(* when on_stopped is called nothing is left that would call the           *)
(* application: no doorbell, no session, no post, no second stop.          *)
THEOREM StopsInOrder == Spec => []StopInOrder
  <1>1. IInv => NoCancelBeforeStart
    BY DEF IInv, Latches, NoCancelBeforeStart
  <1>2. ASSUME IInv, conn.stopped_done \/ at = "stopped"
        PROVE  /\ "session" \notin res /\ res \cap Sources = {}
               /\ \A k \in {"post", "stop", "finish"} : ~Pending(k)
               /\ at \notin {"post", "bell"} /\ Len(ran) = accepted
    <2>1. Over
      BY <1>2 DEF Over
    <2>2. drv.finish_scheduled /\ res \cap Sources = {}
          /\ (\A k : Has(queue, k) => k \in LateKinds)
          /\ at \notin {"post", "bell"}
      BY <1>2, <2>1 DEF IInv, Finishing
    <2>3. "session" \notin res /\ drv.rundown
      BY <1>2, <2>2 DEF IInv, Finishing, Latches
    <2>4. Len(ran) = accepted
      BY <1>2, <2>3 DEF IInv, Queued
    <2>5. \A k \in {"post", "stop", "finish"} : ~Pending(k)
      <3>1. \A k : Pending(k) => Has(queue, k)
        BY DEF Pending, Has
      <3> QED BY <2>2, <3>1 DEF LateKinds
    <2> QED BY <2>2, <2>3, <2>4, <2>5
  <1>3. IInv => StopInOrder
    BY <1>1, <1>2 DEF StopInOrder, StoppedIsLast
  <1> QED BY <1>3, Inductive, PTL

(* The delayed doorbell: no delivery of the timer, however late or stale,  *)
(* rings before the deadline of the arm that is live.                      *)
THEOREM NeverEarly == Spec => []DelayedRingOnTime
  <1>1. IInv => DelayedRingOnTime
    BY DEF IInv, Timed, DelayedRingOnTime
  <1> QED BY <1>1, Inductive, PTL

LEMMA HandleKept == IInv => HandleOutlivesUsers
  <1> SUFFICES ASSUME IInv PROVE HandleOutlivesUsers
    OBVIOUS
  <1>1. Built /\ conn.refs > 0 => "handle" \in res
    BY DEF IInv, Handled
  <1>2. Built /\ ~conn.stopped_done => "handle" \in res
    BY DEF IInv, Handled, Latches
  <1>3. ASSUME Starting PROVE "handle" \in res
    <2>1. Built /\ <<"start", Creator, 0>> \in Tokens
      BY <1>3, Bounds DEF Starting, Built, Tokens, IInv
    <2> QED BY <1>1, <2>1, TokenCounts DEF IInv
  <1>4. ASSUME Pending("post") \/ at = "post" PROVE "handle" \in res
    <2>1. Built
      BY <1>4 DEF IInv, Nothing, Pending
    <2>2. PICK n \in Nat : Outstanding(n)
      <3>1. CASE at = "post"
        BY <3>1, QueueFacts DEF Outstanding
      <3>2. CASE Pending("post")
        <4>1. Len(ran) < accepted
          BY <3>2, QueueFacts, NoPostLeft DEF Pending, Has
        <4> QED BY <4>1, QueueFacts DEF Outstanding
      <3> QED BY <1>4, <3>1, <3>2
    <2>3. <<"post", Creator, n>> \in Tokens
      BY <2>2, Bounds DEF Tokens, IInv
    <2> QED BY <1>1, <2>1, <2>3, TokenCounts DEF IInv
  <1>5. ASSUME res \cap Sources /= {} \/ at \in {"bell", "stopped"}
        PROVE  "handle" \in res
    <2>1. Built
      BY <1>5 DEF IInv, Nothing
    <2>2. ~conn.stopped_done
      BY <1>5 DEF IInv, Finishing, Over, Sources
    <2> QED BY <1>2, <2>1, <2>2
  <1>6. ASSUME NEW a \in Actors, held[a] > 0 PROVE "handle" \in res
    <2>1. Built
      BY <1>6 DEF IInv, Nothing
    <2>2. held[a] \in Nat
      BY Bounds DEF IInv, TypeOK
    <2>3. <<"held", a, 1>> \in Tokens
      BY <1>6, <2>2 DEF Tokens
    <2> QED BY <1>1, <2>1, <2>3, TokenCounts DEF IInv
  <1>7. ASSUME NEW a \in Actors, op[a] \in {"implicit_stop", "free", "join"}
        PROVE  "handle" \in res
    <2>1. Built
      BY <1>7 DEF IInv, Nothing
    <2>2. CASE op[a] = "implicit_stop"
      <3>1. ~conn.stop_started
        BY <2>2 DEF IInv, Handled
      <3>2. ~conn.stopped_done
        BY <3>1 DEF IInv, Finishing, Over, Latches
      <3> QED BY <1>2, <2>1, <3>2
    <2>3. CASE op[a] = "free"
      BY <2>3 DEF IInv, Handled
    <2>4. CASE op[a] = "join"
      BY <2>4, <1>6 DEF IInv, Handled
    <2> QED BY <1>7, <2>2, <2>3, <2>4
  <1>8. Cardinality({a \in Actors : op[a] = "free"}) <= 1
    <2> DEFINE S == {a \in Actors : op[a] = "free"}
    <2>1. \A a, b \in S : a = b
      BY DEF IInv, Handled
    <2>2. S = {} \/ \E a : S = {a}
      BY <2>1
    <2> HIDE DEF S
    <2>3. Cardinality(S) <= 1
      <3>1. CASE S = {}
        BY <3>1, FS_EmptySet
      <3>2. ASSUME NEW a, S = {a} PROVE Cardinality(S) <= 1
        <4>1. Cardinality(S) = 1
          BY <3>2, FS_Singleton
        <4> QED BY <4>1
      <3> QED BY <2>2, <3>1, <3>2
    <2> QED BY <2>3 DEF S
  <1> QED BY <1>3, <1>4, <1>5, <1>6, <1>7, <1>8 DEF HandleOutlivesUsers

(* While the end of the transport is still to be handled, or the finish    *)
(* block to be run, a block finds the driver; the late report alone need   *)
(* not.                                                                    *)
LEMMA DriverKept == IInv => DriverOutlivesBlocks
  <1> SUFFICES ASSUME IInv PROVE DriverOutlivesBlocks
    OBVIOUS
  <1>1. Built /\ ~conn.stopped_done => "driver" \in res
    BY DEF IInv, TypeOK, Pinned, Drivers
  <1>2. CASE boot \in {"queued", "starting"}
    <2>1. Built /\ ~conn.stop_enqueued
      BY <1>2 DEF IInv, Latches, Built
    <2>2. ~conn.stopped_done
      BY <2>1 DEF IInv, Finishing, Over, Latches
    <2> QED BY <1>1, <2>1, <2>2 DEF DriverOutlivesBlocks
  <1>3. CASE drv.kids > 0
    <2>1. Built
      BY <1>3 DEF IInv, Nothing
    <2> QED BY <1>3, <2>1 DEF IInv, TypeOK, Pinned, Drivers,
                              DriverOutlivesBlocks
  <1>4. CASE at \in {"stopped", "unpin"}
    <2>1. Built
      BY <1>4 DEF IInv, Nothing
    <2>2. at = "unpin" => "driver" \in res
      BY <2>1 DEF IInv, TypeOK, Pinned, Drivers
    <2>3. at = "stopped" => ~conn.stopped_done
      BY DEF IInv, Finishing
    <2> QED BY <1>1, <1>4, <2>1, <2>2, <2>3 DEF DriverOutlivesBlocks
  <1>5. ASSUME NEW a \in Actors, op[a] = "enqueue_stop"
        PROVE  "driver" \in res
    <2>1. Built /\ ~drv.stop_started
      BY <1>5 DEF IInv, Nothing, StopOnce
    <2>2. ~conn.stopped_done
      BY <2>1 DEF IInv, Finishing, Over
    <2> QED BY <1>1, <2>1, <2>2
  <1>6. ASSUME NEW i \in 1..Len(queue),
               queue[i].k \notin {"post", "bell", "timer"},
               ~LateReport(queue[i])
        PROVE  "driver" \in res
    <2>1. Has(queue, queue[i].k)
      BY DEF Has
    <2>2. Built
      BY <2>1, EmptyInOrder DEF IInv, Nothing
    <2>3. CASE conn.stopped_done
      <3>1. drv.terminal_done /\ queue[i].k \in LateKinds
        BY <2>1, <2>3 DEF IInv, Finishing, Over
      <3> QED BY <1>6, <3>1 DEF LateKinds, LateReport
    <2> QED BY <1>1, <2>2, <2>3
  <1> QED BY <1>2, <1>3, <1>4, <1>5, <1>6 DEF DriverOutlivesBlocks

(* Handle and driver outlive their users, and every count stays in its     *)
(* range, whatever the group reports; the driver may be gone only for a    *)
(* `cancelled' behind a `failed' that ended the rundown.                   *)
THEOREM OwnersOutlive == Spec => []OwnersOutliveUsers
  <1>1. IInv => OwnersOutliveUsers
    BY HandleKept, DriverKept DEF IInv, OwnersOutliveUsers
  <1> QED BY <1>1, Inductive, PTL
=============================================================================
