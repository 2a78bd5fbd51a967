-------------------- MODULE EngineSessionPointers_proof --------------------
(***************************************************************************)
(* Proofs about EngineSession that need its streams: session_es and        *)
(* parked_es are never stale where they are followed, a stream is released *)
(* once, and a server answers a request once.  The invariant of            *)
(* EngineSession_proof says which calls may wait on the stack; here every  *)
(* waiting call is tied to the stream it will work on.                     *)
(***************************************************************************)
EXTENDS EngineSession_proof

-----------------------------------------------------------------------------
(* The invariant.                                                          *)

\* The calls on the stack.
Items(s) == {s[i] : i \in 1..Len(s)}
Stacked == Items(agenda)
Below == {agenda[k] : k \in 2..Len(agenda)}

\* The calls that end with the release of their stream.
Releases == {"fin_release", "reset_release", "session_stream_poisoned",
             "request_stream_failed"}
\* While one of these waits only Light calls run, which start no new work on
\* a request: what an application callback can lead to, and refusals.
Guarded == Releases \cup {"settings_latched", "parked_request_cancel", "mark_dead",
                       "shutdown_raw"}
Light == {"app", "conn_fatal", "session_conn_lost", "on_conn_error", "shutdown_raw",
          "session_closed", "on_session_closed", "client_send_connect", "mark_dead",
          "send_error", "parked_request_cancel", "request_stream_fin"}
\* Call a may stand above call b.
Under(a, b) ==
    /\ b.op \in Guarded => a.op \in Light
    /\ a.op \in Releases => b.op \in {"request_stream_bytes", "stream_bytes_end", "control_bytes"}
    /\ a.op = "parked_request_cancel" => b.op \in {"reset_release", "stream_bytes_end"}
    /\ a.op = "request_stream_bytes" => b.op = "stream_bytes_end"
    /\ a.op = "session_capsule" => b.op \in {"request_stream_bytes", "stream_bytes_end"}
    /\ a.op \in {"settings_latched", "deferred_fin"} => b.op = "control_bytes"
    /\ a.op # "control_bytes"
Chain(s) == \A i, j \in 1..Len(s) : i < j => Under(s[i], s[j])
Order == Chain(agenda)

\* The parked request r is being refused.
Refusing(r) == Do("parked_request_cancel") \in Stacked \/ On("request_stream_failed", r) \in Stacked
\* A release of r is on its way that forgets the session's stream.
Going(r) == On("request_stream_failed", r) \in Stacked \/ On("fin_release", r) \in Stacked

\* What a waiting call relies on.
Owes(a) ==
    /\ a.op = "establish_unless_closed" =>
         \/ closed
         \/ /\ req[a.r].kind = "REQUEST" /\ req[a.r].headers /\ ~req[a.r].dead
            /\ parked.es # a.r
    /\ a.op = "request_stream_bytes" => ~req[a.r].idPending /\ req[a.r].kind # "BTYPE"
    /\ a.op = "stream_bytes_end" => req[a.r].kind # "UNOPENED"
    /\ a.op = "deferred_fin" =>
         req[a.r].kind # "UNOPENED" /\ parked.es # a.r /\ settings # "none"
    /\ a.op = "settings_latched" => settings # "none"
    /\ a.op \in Releases => req[a.r].kind \notin {"UNOPENED", "FREE"}
    /\ a.op = "fin_release" =>
         parked.es # a.r /\ (At("request_stream_fin") \/ sessionEs # a.r)
    /\ a.op = "reset_release" =>
         /\ ~req[a.r].isSession
         /\ parked.es # a.r \/ Do("parked_request_cancel") \in Stacked
    /\ a.op = "session_stream_poisoned" => req[a.r].isSession /\ closeRx
    /\ a.op = "mark_dead" =>
         /\ req[a.r].kind # "UNOPENED" /\ (req[a.r].kind = "CONNECT" => sess # "SENT")
         /\ req[a.r].isSession => Going(a.r)
    /\ a.op = "shutdown_raw" =>
         /\ req[a.r].kind \notin {"UNOPENED", "BTYPE"}
         /\ req[a.r].kind = "REQUEST" /\ ~req[a.r].headers =>
              req[a.r].dead \/ On("mark_dead", a.r) \in Stacked
    /\ a.op \in {"shutdown_raw", "mark_dead"} => (parked.es = a.r => Refusing(a.r))
    /\ a.op = "shutdown_unless_closed" => req[a.r].kind \notin {"UNOPENED", "BTYPE", "REQUEST"}
Owing == \A a \in Stacked : Owes(a)

\* What the call at the head relies on.
NoneAccepted == \A q \in Requests : answered[q] # "200"
HeadOwes ==
    /\ At("session_capsule") => req[This.r].isSession /\ req[This.r].kind # "FREE"
    /\ At("client_response_done") => ~req[This.r].idPending /\ ~req[This.r].dead
    /\ At("client_maybe_establish") =>
         req[This.r].kind = "CONNECT" /\ (req[This.r].headers => respOk)
    /\ At("session_established") =>
         /\ req[This.r].kind \in {"CONNECT", "REQUEST"} /\ req[This.r].headers
         /\ ~req[This.r].dead /\ parked.es # This.r
    /\ At("server_request_done") =>
         /\ req[This.r].kind = "REQUEST" /\ req[This.r].headers /\ ~req[This.r].dead
         /\ ~req[This.r].isSession /\ parked.es # This.r
         /\ answered[This.r] = "nothing" /\ (everEst \/ NoneAccepted)
    /\ At("send_error") \/ At("send_200") =>
         /\ answered[This.r] = "nothing" /\ settings # "none"
         /\ req[This.r].kind = "REQUEST" /\ req[This.r].headers /\ parked.es # This.r
    /\ At("send_200") =>
         /\ settings = "wt" /\ NoneAccepted
         /\ On("establish_unless_closed", This.r) \in Stacked
    /\ At("request_stream_fin") => ~(req[This.r].dead /\ req[This.r].isSession)

\* session_es and the CLOSE capsule: an active session without its stream,
\* or behind a CLOSE, is about to end.
SessionHeld ==
    /\ sessionEs # NoStream =>
         req[sessionEs].kind \in {"CONNECT", "REQUEST"} /\ req[sessionEs].isSession
    /\ sess \in Active /\ sessionEs = NoStream /\ ~closed =>
         At("conn_fatal") \/ At("session_closed")
    /\ closeRx => everEst /\ (sess = "CLOSED" \/ At("session_closed"))
\* The streams: one that carries the session is not dead unless it is going.
StreamsHeld ==
    \A r \in Requests :
        /\ req[r].isSession => everEst /\ req[r].headers
        /\ req[r].frame = "capsules" => req[r].isSession
        /\ req[r].kind \in {"UNOPENED", "BTYPE"} => ~req[r].headers
        /\ req[r].kind = "UNOPENED" => ~req[r].dead
        /\ req[r].idPending => ~req[r].headers
        /\ req[r].isSession /\ req[r].dead /\ req[r].kind # "FREE" => Going(r)
        /\ req[r].kind = "CONNECT" /\ sess = "SENT" =>
             /\ ~req[r].dead
             /\ req[r].headers => \/ At("client_response_done") \/ At("client_maybe_establish")
                                  \/ At("session_established")
\* parked_es: shut, dead or answered only while it is being refused, and held
\* only until SETTINGS are acted on.
ParkedHeld ==
    parked.es # NoStream =>
        /\ req[parked.es].kind = "REQUEST" /\ req[parked.es].headers
        /\ ~req[parked.es].isSession
        /\ req[parked.es].dead \/ answered[parked.es] # "nothing" => Refusing(parked.es)
        /\ settings # "none" => Do("settings_latched") \in Stacked
\* Answers: none before the request is read, and a 200 only with SETTINGS and
\* for the one session.
Undecided(r) == req[r].kind \in {"UNOPENED", "BTYPE", "REQUEST"} /\ ~req[r].headers
AnswersHeld ==
    /\ \A r \in Requests : Undecided(r) =>
          answered[r] = "nothing" \/ req[r].dead \/ On("mark_dead", r) \in Stacked
    /\ \A r \in Requests : answered[r] = "200" =>
          /\ settings = "wt"
          /\ \/ everEst \/ closed \/ At("session_established")
             \/ On("establish_unless_closed", r) \in Stacked
    /\ Do("settings_latched") \in Stacked => NoneAccepted

Held == SessionHeld /\ StreamsHeld /\ ParkedHeld /\ AnswersHeld
Points == Order /\ Owing /\ HeadOwes /\ Held

-----------------------------------------------------------------------------
(* Steps of the stack, as the set of the calls on it.                      *)

\* Short sequences of calls.
LEMMA Few ==
    ASSUME NEW a, NEW b
    PROVE  /\ Items(<<>>) = {} /\ Items(<<a>>) = {a} /\ Items(<<a, b>>) = {a, b}
           /\ Chain(<<>>) /\ Chain(<<a>>) /\ (Under(a, b) => Chain(<<a, b>>))
<1>1. Items(<<>>) = {} /\ Items(<<a>>) = {a}
  BY DEF Items
<1>2. Items(<<a, b>>) = {a, b}
  BY DEF Items
<1>3. Chain(<<>>) /\ Chain(<<a>>)
  BY DEF Chain
<1>4. Under(a, b) => Chain(<<a, b>>)
  BY DEF Chain
<1> QED BY <1>1, <1>2, <1>3, <1>4

LEMMA Three ==
    ASSUME NEW a, NEW b, NEW c
    PROVE  /\ Items(<<a, b, c>>) = {a, b, c}
           /\ Under(a, b) /\ Under(a, c) /\ Under(b, c) => Chain(<<a, b, c>>)
<1>1. Items(<<a, b, c>>) = {a, b, c}
  BY DEF Items
<1>2. Under(a, b) /\ Under(a, c) /\ Under(b, c) => Chain(<<a, b, c>>)
  BY DEF Chain
<1> QED BY <1>1, <1>2

\* Concatenations.
LEMMA Joint ==
    ASSUME NEW s \in Seq(Calls), NEW t \in Seq(Calls), Chain(s), Chain(t),
           \A a \in Items(s) : \A b \in Items(t) : Under(a, b)
    PROVE  /\ s \o t \in Seq(Calls) /\ Items(s \o t) = Items(s) \cup Items(t)
           /\ Chain(s \o t)
           /\ s # <<>> => s \o t # <<>> /\ Head(s \o t) = s[1]
<1> DEFINE u == s \o t
<1>1. /\ u \in Seq(Calls) /\ Len(u) = Len(s) + Len(t)
      /\ \A i \in 1..Len(s) : u[i] = s[i]
      /\ \A i \in 1..Len(u) : i > Len(s) => i - Len(s) \in 1..Len(t) /\ u[i] = t[i - Len(s)]
  OBVIOUS
<1>2. \A i \in 1..Len(t) : i + Len(s) \in 1..Len(u) /\ u[i + Len(s)] = t[i]
  OBVIOUS
<1>3. Len(s) \in Nat /\ Len(t) \in Nat /\ Len(u) \in Nat
  BY <1>1
<1>4. s # <<>> => Len(s) >= 1 /\ u # <<>> /\ Head(u) = s[1]
  OBVIOUS
<1> HIDE DEF u
<1>5. Items(u) \subseteq Items(s) \cup Items(t)
  <2> SUFFICES ASSUME NEW i \in 1..Len(u) PROVE u[i] \in Items(s) \cup Items(t)
    BY DEF Items
  <2>1. CASE i <= Len(s)
    BY <1>1, <1>3, <2>1 DEF Items
  <2>2. CASE i > Len(s)
    BY <1>1, <1>3, <2>2 DEF Items
  <2> QED BY <1>3, <2>1, <2>2
<1>6. Items(s) \cup Items(t) \subseteq Items(u)
  <2>1. ASSUME NEW i \in 1..Len(s) PROVE s[i] \in Items(u)
    <3>1. i \in 1..Len(u) /\ u[i] = s[i]
      BY <1>1, <1>3
    <3> QED BY <3>1 DEF Items
  <2>2. ASSUME NEW i \in 1..Len(t) PROVE t[i] \in Items(u)
    <3>1. i + Len(s) \in 1..Len(u) /\ u[i + Len(s)] = t[i]
      BY <1>2
    <3> QED BY <3>1 DEF Items
  <2> QED BY <2>1, <2>2 DEF Items
<1>7. Chain(u)
  <2> SUFFICES ASSUME NEW i \in 1..Len(u), NEW j \in 1..Len(u), i < j
               PROVE  Under(u[i], u[j])
    BY DEF Chain
  <2>1. CASE j <= Len(s)
    BY <1>1, <1>3, <2>1 DEF Chain
  <2>2. CASE i <= Len(s) /\ j > Len(s)
    <3>1. i \in 1..Len(s) /\ u[i] = s[i]
      BY <1>1, <1>3, <2>2
    <3>2. j - Len(s) \in 1..Len(t) /\ u[j] = t[j - Len(s)]
      BY <1>1, <2>2
    <3> QED BY <3>1, <3>2 DEF Items
  <2>3. CASE i > Len(s)
    <3>1. /\ i - Len(s) \in 1..Len(t) /\ j - Len(s) \in 1..Len(t) /\ i - Len(s) < j - Len(s)
          /\ u[i] = t[i - Len(s)] /\ u[j] = t[j - Len(s)]
      BY <1>1, <1>3, <2>3
    <3> QED BY <3>1 DEF Chain
  <2> QED BY <1>3, <2>1, <2>2, <2>3
<1> QED BY <1>1, <1>4, <1>5, <1>6, <1>7 DEF u

\* The call at the head and those below it.
LEMMA HeadView ==
    ASSUME Inv, Order, agenda # <<>>
    PROVE  /\ This \in Stacked /\ Below \subseteq Stacked /\ Stacked \subseteq Calls
           /\ \A x \in Stacked : x = This \/ x \in Below
           /\ \A b \in Below : Under(This, b) /\ b.op \notin HeadOnly
           /\ Below # {} => This.op # "stream_bytes_end"
           /\ Tail(agenda) \in Seq(Calls) /\ Items(Tail(agenda)) = Below /\ Chain(Tail(agenda))
<1>1. agenda \in Seq(Calls) /\ Len(agenda) \in Nat /\ Len(agenda) >= 1 /\ This = agenda[1]
  BY DEF Inv, TypeOK, This
<1>2. This \in Stacked /\ Below \subseteq Stacked /\ Stacked \subseteq Calls
  BY <1>1 DEF Stacked, Items, Below
<1>3. \A x \in Stacked : x = This \/ x \in Below
  <2> SUFFICES ASSUME NEW i \in 1..Len(agenda) PROVE agenda[i] = This \/ agenda[i] \in Below
    BY DEF Stacked, Items
  <2>1. i = 1 \/ i \in 2..Len(agenda)
    BY <1>1
  <2> QED BY <1>1, <2>1 DEF Below
<1>4. ASSUME NEW k \in 2..Len(agenda)
      PROVE  /\ Under(This, agenda[k]) /\ agenda[k].op \notin HeadOnly
             /\ This.op # "stream_bytes_end"
  <2>1. 1 \in 1..Len(agenda) /\ k \in 1..Len(agenda) /\ 1 < k
    BY <1>1
  <2>2. Apart(closed, agenda[1], agenda[k])
    BY <2>1 DEF Inv, Stack, Pairs
  <2>3. Under(agenda[1], agenda[k])
    BY <2>1 DEF Order, Chain
  <2> QED BY <1>1, <2>2, <2>3 DEF Apart
<1>5. /\ Tail(agenda) \in Seq(Calls) /\ Len(Tail(agenda)) = Len(agenda) - 1
      /\ \A i \in 1..Len(Tail(agenda)) : i + 1 \in 2..Len(agenda) /\ Tail(agenda)[i] = agenda[i + 1]
      /\ \A k \in 2..Len(agenda) : k - 1 \in 1..Len(Tail(agenda)) /\ Tail(agenda)[k - 1] = agenda[k]
  BY <1>1
<1>6. Items(Tail(agenda)) = Below
  BY <1>5 DEF Items, Below
<1>7. Chain(Tail(agenda))
  <2> SUFFICES ASSUME NEW i \in 1..Len(Tail(agenda)), NEW j \in 1..Len(Tail(agenda)), i < j
               PROVE  Under(Tail(agenda)[i], Tail(agenda)[j])
    BY DEF Chain
  <2>1. i + 1 \in 1..Len(agenda) /\ j + 1 \in 1..Len(agenda) /\ i + 1 < j + 1
    BY <1>1, <1>5
  <2> QED BY <1>5, <2>1 DEF Order, Chain
<1> QED BY <1>2, <1>3, <1>4, <1>5, <1>6, <1>7 DEF Below

\* A return into `calls'.
LEMMA Shape ==
    ASSUME Inv, Order, agenda # <<>>, NEW calls \in Seq(Calls), Then(calls), Chain(calls),
           \A a \in Items(calls) : \A b \in Below : Under(a, b)
    PROVE  /\ Order' /\ Stacked' = Items(calls) \cup Below
           /\ calls # <<>> => agenda' # <<>> /\ This' = calls[1]
           /\ calls = <<>> => Stacked' = Below /\ (agenda' # <<>> => This' \in Below)
<1>1. /\ agenda' \in Seq(Calls) /\ Items(agenda') = Items(calls) \cup Below /\ Chain(agenda')
      /\ calls # <<>> => agenda' # <<>> /\ Head(agenda') = calls[1]
  BY HeadView, Joint DEF Then
<1>2. calls = <<>> => Items(calls) = {}
  BY DEF Items
<1>3. agenda' # <<>> => Head(agenda') \in Items(agenda')
  BY <1>1 DEF Items
<1> QED BY <1>1, <1>2, <1>3 DEF Order, Stacked, This

\* A call on top.
LEMMA ShapeEnter ==
    ASSUME Inv, Order, NEW calls \in Seq(Calls), Enter(calls), Chain(calls),
           \A a \in Items(calls) : \A b \in Stacked : Under(a, b)
    PROVE  /\ Order' /\ Stacked' = Items(calls) \cup Stacked
           /\ calls # <<>> => agenda' # <<>> /\ This' = calls[1]
           /\ calls = <<>> => agenda' = agenda
<1>1. agenda \in Seq(Calls) /\ Chain(agenda)
  BY DEF Inv, TypeOK, Order
<1>2. /\ agenda' \in Seq(Calls) /\ Items(agenda') = Items(calls) \cup Items(agenda) /\ Chain(agenda')
      /\ calls # <<>> => agenda' # <<>> /\ Head(agenda') = calls[1]
  BY <1>1, Joint DEF Enter, Stacked
<1>3. calls = <<>> => agenda' = agenda
  BY <1>1 DEF Enter
<1> QED BY <1>2, <1>3 DEF Order, Stacked, This

-----------------------------------------------------------------------------
(* Steps that leave most of it alone.                                      *)

\* The calls whose return others or the state rely on.
Relied == {"request_stream_failed", "fin_release", "parked_request_cancel", "mark_dead",
           "settings_latched"}
\* The step leaves New and Old on the stack, and loses nothing relied on.
Leaves(New, Old) ==
    /\ Old \subseteq Stacked /\ Stacked' = New \cup Old
    /\ \A x \in Stacked : x.op \in Relied => x \in Old
\* Heads whose return is a matter of the streams or the session.
Turns == {"request_stream_fin", "client_response_done", "client_maybe_establish",
          "session_established"}
NoTurn == \A op \in Turns : ~At(op)
\* The state that calls and streams depend on, as far as it only moves on.
Onward ==
    /\ closed => closed'
    /\ sess' = "SENT" => sess = "SENT"
    /\ settings # "none" => settings' # "none"
    /\ everEst => everEst'

\* A call that stays keeps what it relies on, when its stream keeps its kind.
LEMMA StillOwes ==
    ASSUME Owing, NEW New, NEW Old, Leaves(New, Old), Onward, ~At("request_stream_fin"),
           UNCHANGED sessionEs, closeRx => closeRx', parked'.es = parked.es,
           NEW a \in Old,
           a.op \in StreamOps =>
             /\ req'[a.r].kind = req[a.r].kind
             /\ req'[a.r].isSession = req[a.r].isSession
             /\ req'[a.r].idPending = req[a.r].idPending
             /\ req[a.r].kind # "CONNECT" =>
                  /\ req'[a.r].headers = req[a.r].headers
                  /\ a.op = "establish_unless_closed" => closed' \/ req'[a.r].dead = req[a.r].dead
             /\ req[a.r].dead => req'[a.r].dead
    PROVE  Owes(a)'
<1>1. Owes(a)
  BY DEF Owing, Leaves
<1>2. /\ \A r : Going(r) => Going(r)'
      /\ \A r : Refusing(r) => Refusing(r)'
      /\ \A r : On("mark_dead", r) \in Stacked => On("mark_dead", r) \in Stacked'
      /\ Do("parked_request_cancel") \in Stacked => Do("parked_request_cancel") \in Stacked'
  BY CallFacts DEF Leaves, Relied, Going, Refusing
<1>3. ~At("request_stream_fin") => (a.op = "fin_release" => sessionEs # a.r)
  BY <1>1 DEF Owes
<1> HIDE DEF Leaves
<1>4. CASE a.op \in StreamOps
  BY <1>1, <1>2, <1>3, <1>4 DEF Owes, Onward
<1>5. CASE a.op \notin StreamOps
  BY <1>1, <1>5 DEF Owes, Onward, StreamOps, Releases
<1> QED BY <1>4, <1>5

\* The streams stay what they are; a DATA payload may be under way.
Same ==
    \A q \in Requests :
        /\ req'[q].kind = req[q].kind /\ req'[q].dead = req[q].dead
        /\ req'[q].headers = req[q].headers /\ req'[q].isSession = req[q].isSession
        /\ req'[q].idPending = req[q].idPending
        /\ req'[q].frame = "capsules" => req[q].isSession
LEMMA StreamsStay ==
    ASSUME StreamsHeld, NEW New, NEW Old, Leaves(New, Old), Onward, NoTurn, Same
    PROVE  StreamsHeld'
<1>1. \A r : Going(r) => Going(r)'
  BY CallFacts DEF Leaves, Relied, Going
<1>2. ~At("client_response_done") /\ ~At("client_maybe_establish") /\ ~At("session_established")
  BY DEF NoTurn, Turns
<1> QED BY <1>1, <1>2 DEF StreamsHeld, Onward, Same

\* The parked request, when its stream stays as it is.
LEMMA ParkedStays ==
    ASSUME ParkedHeld, NEW New, NEW Old, Leaves(New, Old), parked'.es = parked.es,
           settings' = settings,
           parked.es # NoStream =>
             /\ req'[parked.es].kind = req[parked.es].kind
             /\ req'[parked.es].headers = req[parked.es].headers
             /\ req'[parked.es].isSession = req[parked.es].isSession
             /\ \/ req'[parked.es].dead = req[parked.es].dead /\ answered'[parked.es] = answered[parked.es]
                \/ Refusing(parked.es)
    PROVE  ParkedHeld'
<1>1. /\ \A r : Refusing(r) => Refusing(r)'
      /\ Do("settings_latched") \in Stacked => Do("settings_latched") \in Stacked'
  BY CallFacts DEF Leaves, Relied, Refusing
<1> QED BY <1>1 DEF ParkedHeld

\* The answers, when none is sent and no request is new.
LEMMA AnswersStay ==
    ASSUME AnswersHeld, NEW New, NEW Old, Leaves(New, Old), Onward, answered' = answered,
           settings' = settings, ~At("session_established"),
           \A a \in New : a.op # "settings_latched",
           \A r \in Requests : Undecided(r)' => Undecided(r) /\ (req[r].dead => req'[r].dead),
           \A r : On("establish_unless_closed", r) \in Stacked
                   => On("establish_unless_closed", r) \in Old \/ closed' \/ At("session_established")'
    PROVE  AnswersHeld'
<1>1. /\ \A r : On("mark_dead", r) \in Stacked => On("mark_dead", r) \in Stacked'
      /\ \A r : On("establish_unless_closed", r) \in Stacked
                 => On("establish_unless_closed", r) \in Stacked' \/ closed' \/ At("session_established")'
      /\ Do("settings_latched") \in Stacked' => Do("settings_latched") \in Stacked
  BY CallFacts DEF Leaves, Relied
<1> QED BY <1>1 DEF AnswersHeld, Onward, NoneAccepted

\* The session, when it keeps its stream.
LEMMA SessionStays ==
    ASSUME SessionHeld, Onward, UNCHANGED <<sessionEs, closeRx>>,
           sess' \in Active => sess \in Active, sess = "CLOSED" => sess' = "CLOSED",
           ~At("conn_fatal"), ~At("session_closed"),
           sessionEs # NoStream =>
             req'[sessionEs].kind = req[sessionEs].kind
             /\ req'[sessionEs].isSession = req[sessionEs].isSession
    PROVE  SessionHeld'
  BY DEF SessionHeld, Onward

\* A return to a waiting call is not to one that runs as soon as it is made.
HeadOps == {"session_capsule", "client_response_done", "client_maybe_establish",
            "session_established", "server_request_done", "send_error", "send_200",
            "request_stream_fin"}
LEMMA NoHead ==
    ASSUME agenda' # <<>> => This'.op \notin HeadOps
    PROVE  HeadOwes'
  BY DEF HeadOwes, HeadOps, At, This

\* The steps that change nothing but the stack and how far a frame is read,
\* and the state only onward.
Calm ==
    /\ Onward /\ UNCHANGED <<sessionEs, closeRx, answered, settings>>
    /\ req' = req \/ Same
    /\ parked'.es = parked.es
    /\ sess' \in Active => sess \in Active
    /\ sess = "CLOSED" => sess' = "CLOSED"
LEMMA CalmHeld ==
    ASSUME Inv, Points, NEW New, NEW Old, Leaves(New, Old), Calm, NoTurn,
           \A a \in New : a.op # "settings_latched" /\ Owes(a)',
           \A x \in Stacked : x.op = "establish_unless_closed"
                                => x \in Old \/ closed' \/ At("session_established")'
    PROVE  /\ Owing' /\ StreamsHeld' /\ ParkedHeld' /\ AnswersHeld'
           /\ ~At("conn_fatal") /\ ~At("session_closed") => SessionHeld'
<1> USE DEF Points, Held
<1>0. Same
  BY DEF Calm, Same, StreamsHeld
<1>1. \A a \in Old : Owes(a)'
  <2> SUFFICES ASSUME NEW a \in Old PROVE Owes(a)'
    OBVIOUS
  <2>1. a \in Calls /\ (a.op \in StreamOps => a.r \in Requests)
    BY CallFacts DEF Leaves, Stacked, Items, Inv, TypeOK
  <2>2. ~At("request_stream_fin")
    BY DEF NoTurn, Turns
  <2> QED BY <1>0, <2>1, <2>2, StillOwes DEF Calm, Same
<1>2. Owing'
  BY <1>1 DEF Owing, Leaves
<1>3. StreamsHeld'
  BY <1>0, StreamsStay DEF Calm
<1>4. parked.es \in Requests \cup {NoStream} /\ sessionEs \in Requests \cup {NoStream}
  BY DEF Inv, TypeOK
<1>5. ParkedHeld'
  BY <1>0, <1>4, ParkedStays DEF Calm, Same
<1>6. AnswersHeld'
  <2>1. ~At("session_established")
    BY DEF NoTurn, Turns
  <2>2. \A r \in Requests : Undecided(r)' => Undecided(r) /\ (req[r].dead => req'[r].dead)
    BY <1>0 DEF Same, Undecided
  <2>3. \A r : On("establish_unless_closed", r) \in Stacked
               => On("establish_unless_closed", r) \in Old \/ closed' \/ At("session_established")'
    BY CallFacts
  <2>4. \A a \in New : a.op # "settings_latched"
    OBVIOUS
  <2> QED BY <2>1, <2>2, <2>3, <2>4, AnswersStay DEF Calm
<1>7. ~At("conn_fatal") /\ ~At("session_closed") => SessionHeld'
  BY <1>0, <1>4, SessionStays DEF Calm, Same
<1> QED BY <1>2, <1>3, <1>5, <1>6, <1>7

-----------------------------------------------------------------------------
(* Calls that owe nothing to a stream.                                     *)

\* What an application callback, a loss or an end leads to.
Quick == {"app", "conn_fatal", "session_conn_lost", "on_conn_error", "session_closed",
          "on_session_closed", "client_send_connect"}

\* They fit anywhere, and owe nothing.
LEMMA QuickFits ==
    ASSUME NEW a \in Calls, a.op \in Quick
    PROVE  /\ \A b \in Calls : Under(a, b)
           /\ Owes(a)' /\ a.op \notin Relied \cup HeadOps \cup {"settings_latched"}
<1>1. \A b \in Calls : Under(a, b)
  BY DEF Under, Quick, Light, Releases
<1>2. Owes(a)'
  BY DEF Owes, Quick, Releases
<1>3. a.op \notin Relied \cup HeadOps \cup {"settings_latched"}
  BY DEF Relied, HeadOps, Quick
<1> QED BY <1>1, <1>2, <1>3

LEMMA QuickChain ==
    ASSUME NEW calls \in Seq(Calls), \A a \in Items(calls) : a.op \in Quick
    PROVE  /\ Chain(calls) /\ Items(calls) \subseteq Calls
           /\ calls # <<>> => calls[1].op \in Quick
<1>1. \A i \in 1..Len(calls) : calls[i] \in Calls /\ calls[i].op \in Quick
  BY DEF Items
<1>2. calls # <<>> => 1 \in 1..Len(calls)
  OBVIOUS
<1> QED BY <1>1, <1>2, QuickFits DEF Chain, Items

\* Points but the session's part, which depends on the head that returns.
PointsLeft == Order /\ Owing /\ HeadOwes /\ StreamsHeld /\ ParkedHeld /\ AnswersHeld

\* A calm return.
LEMMA CalmReturn ==
    ASSUME Inv, Points, agenda # <<>>, Calm, This.op \notin Relied \cup Turns,
           This.op = "establish_unless_closed" => closed' \/ At("session_established")',
           NEW calls \in Seq(Calls), Then(calls), Chain(calls),
           \A a \in Items(calls) : \A b \in Below : Under(a, b),
           \A a \in Items(calls) : a.op # "settings_latched",
           Stacked' = Items(calls) \cup Below => \A a \in Items(calls) : Owes(a)',
           calls # <<>> => calls[1].op \notin HeadOps \/ HeadOwes'
    PROVE  /\ PointsLeft'
           /\ This.op \notin {"conn_fatal", "session_closed"} => Points'
<1>1. /\ Order' /\ Stacked' = Items(calls) \cup Below
      /\ calls # <<>> => agenda' # <<>> /\ This' = calls[1]
      /\ calls = <<>> => (agenda' # <<>> => This' \in Below)
  BY Shape DEF Points
<1>2. Below \subseteq Stacked /\ \A x \in Stacked : x = This \/ x \in Below
  BY HeadView DEF Points
<1>3. \A op : At(op) <=> This.op = op
  BY HeadFacts
<1>4. Leaves(Items(calls), Below) /\ NoTurn
  BY <1>1, <1>2, <1>3 DEF Leaves, NoTurn
<1>5. \A b \in Below : b.op \notin HeadOps
  BY HeadView DEF Points, HeadOps, HeadOnly
<1>6. HeadOwes'
  BY <1>1, <1>5, NoHead
<1>7. Owing' /\ StreamsHeld' /\ ParkedHeld' /\ AnswersHeld'
      /\ (~At("conn_fatal") /\ ~At("session_closed") => SessionHeld')
  <2>1. \A x \in Stacked : x.op = "establish_unless_closed"
                             => x \in Below \/ closed' \/ At("session_established")'
    BY <1>2
  <2> QED BY <1>1, <1>4, <2>1, CalmHeld
<1> QED BY <1>1, <1>3, <1>6, <1>7 DEF Points, PointsLeft, Held

LEMMA QuickReturn ==
    ASSUME Inv, Points, agenda # <<>>, Calm, This.op \notin Relied \cup Turns,
           This.op = "establish_unless_closed" => closed',
           NEW calls \in Seq(Calls), Then(calls), \A a \in Items(calls) : a.op \in Quick
    PROVE  /\ PointsLeft'
           /\ This.op \notin {"conn_fatal", "session_closed"} => Points'
<1>1. Below \subseteq Calls
  BY HeadView DEF Points
<1>2. /\ Chain(calls) /\ Items(calls) \subseteq Calls
      /\ calls # <<>> => calls[1].op \in Quick
  BY QuickChain
<1>3. \A a \in Items(calls) : /\ \A b \in Below : Under(a, b)
                              /\ Owes(a)' /\ a.op # "settings_latched"
  BY <1>1, <1>2, QuickFits
<1>4. calls # <<>> => calls[1].op \notin HeadOps
  BY <1>2 DEF Quick, HeadOps
<1> QED BY <1>2, <1>3, <1>4, CalmReturn

\* A calm call on top of what the application or nothing runs.
LEMMA MayView ==
    ASSUME Inv, AppMay
    PROVE  /\ \A op : op # "app" => ~At(op)
           /\ Stacked \subseteq Calls /\ (agenda # <<>> => This.op = "app")
           /\ Idle => Stacked = {}
<1>1. \A op : op # "app" => ~At(op)
  BY DEF AppMay, Idle, At
<1>2. agenda # <<>> => This.op = "app"
  BY DEF AppMay, Idle, At, This
<1>3. Stacked \subseteq Calls
  BY DEF Inv, TypeOK, Stacked, Items
<1>4. Idle => Stacked = {}
  BY DEF Idle, Stacked, Items
<1> QED BY <1>1, <1>2, <1>3, <1>4

LEMMA CalmEnter ==
    ASSUME Inv, Points, AppMay, Calm,
           NEW calls \in Seq(Calls), Enter(calls), Chain(calls),
           \A a \in Items(calls) : \A b \in Stacked : Under(a, b),
           \A a \in Items(calls) : a.op # "settings_latched",
           Stacked' = Items(calls) \cup Stacked => \A a \in Items(calls) : Owes(a)',
           calls # <<>> => calls[1].op \notin HeadOps \/ HeadOwes'
    PROVE  Points'
<1>1. /\ Order' /\ Stacked' = Items(calls) \cup Stacked
      /\ calls # <<>> => agenda' # <<>> /\ This' = calls[1]
      /\ calls = <<>> => agenda' = agenda
  BY ShapeEnter DEF Points
<1>2. /\ \A op : op # "app" => ~At(op)
      /\ agenda # <<>> => This.op = "app"
  BY MayView
<1>3. Leaves(Items(calls), Stacked) /\ NoTurn
  BY <1>1, <1>2 DEF Leaves, NoTurn, Turns
<1>4. HeadOwes'
  BY <1>1, <1>2, NoHead DEF HeadOps, This
<1>5. Owing' /\ StreamsHeld' /\ ParkedHeld' /\ AnswersHeld' /\ SessionHeld'
  BY <1>1, <1>2, <1>3, CalmHeld
<1> QED BY <1>1, <1>4, <1>5 DEF Points, Held

LEMMA QuickEnter ==
    ASSUME Inv, Points, AppMay, Calm,
           NEW calls \in Seq(Calls), Enter(calls), \A a \in Items(calls) : a.op \in Quick
    PROVE  Points'
<1>1. Stacked \subseteq Calls
  BY MayView
<1>2. /\ Chain(calls) /\ Items(calls) \subseteq Calls
      /\ calls # <<>> => calls[1].op \in Quick
  BY QuickChain
<1>3. \A a \in Items(calls) : /\ \A b \in Stacked : Under(a, b)
                              /\ Owes(a)' /\ a.op # "settings_latched"
  BY <1>1, <1>2, QuickFits
<1>4. calls # <<>> => calls[1].op \notin HeadOps
  BY <1>2 DEF Quick, HeadOps
<1> QED BY <1>2, <1>3, <1>4, CalmEnter

LEMMA CalmStay ==
    ASSUME Inv, Points, AppMay, Calm, UNCHANGED agenda
    PROVE  Points'
<1>1. agenda \in Seq(Calls)
  BY DEF Inv, TypeOK
<1>2. <<>> \o agenda = agenda
  BY <1>1
<1>3. <<>> \in Seq(Calls) /\ Enter(<<>>)
  BY <1>2 DEF Enter
<1>4. Items(<<>>) = {}
  BY Few
<1> QED BY <1>3, <1>4, QuickEnter

\* The short sequences of quick calls.
LEMMA QuickFew ==
    /\ <<>> \in Seq(Calls) /\ Items(<<>>) = {}
    /\ \A a \in Quick :
         /\ <<Do(a)>> \in Seq(Calls) /\ \A x \in Items(<<Do(a)>>) : x.op \in Quick
         /\ \A b \in Quick : /\ <<Do(a), Do(b)>> \in Seq(Calls)
                             /\ \A x \in Items(<<Do(a), Do(b)>>) : x.op \in Quick
<1>1. \A a \in Quick : Do(a) \in Calls /\ Do(a).op = a
  BY CallFacts DEF Quick, ConnOps
<1>0. <<>> \in Seq(Calls)
  OBVIOUS
<1>2. <<>> \in Seq(Calls) /\ Items(<<>>) = {}
  BY <1>0, Few
<1>3. ASSUME NEW a \in Quick
      PROVE  <<Do(a)>> \in Seq(Calls) /\ \A x \in Items(<<Do(a)>>) : x.op \in Quick
  <2>1. Items(<<Do(a)>>) = {Do(a)}
    BY Few
  <2> QED BY <1>1, <2>1
<1>4. ASSUME NEW a \in Quick, NEW b \in Quick
      PROVE  /\ <<Do(a), Do(b)>> \in Seq(Calls)
             /\ \A x \in Items(<<Do(a), Do(b)>>) : x.op \in Quick
  <2>1. Items(<<Do(a), Do(b)>>) = {Do(a), Do(b)}
    BY Few
  <2> QED BY <1>1, <2>1
<1> QED BY <1>2, <1>3, <1>4

\* A return into at most two quick calls.
FewQuick ==
    \/ Then(<<>>)
    \/ \E a \in Quick : Then(<<Do(a)>>)
    \/ \E a, b \in Quick : Then(<<Do(a), Do(b)>>)
LEMMA QuickPick ==
    ASSUME FewQuick
    PROVE  \E s \in Seq(Calls) : Then(s) /\ \A x \in Items(s) : x.op \in Quick
<1>1. CASE Then(<<>>)
  BY <1>1, QuickFew
<1>2. ASSUME NEW a \in Quick, Then(<<Do(a)>>)
      PROVE  \E s \in Seq(Calls) : Then(s) /\ \A x \in Items(s) : x.op \in Quick
  <2>1. <<Do(a)>> \in Seq(Calls) /\ \A x \in Items(<<Do(a)>>) : x.op \in Quick
    BY QuickFew
  <2> QED BY <1>2, <2>1
<1>3. ASSUME NEW a \in Quick, NEW b \in Quick, Then(<<Do(a), Do(b)>>)
      PROVE  \E s \in Seq(Calls) : Then(s) /\ \A x \in Items(s) : x.op \in Quick
  <2>1. <<Do(a), Do(b)>> \in Seq(Calls) /\ \A x \in Items(<<Do(a), Do(b)>>) : x.op \in Quick
    BY QuickFew
  <2> QED BY <1>3, <2>1
<1> QED BY <1>1, <1>2, <1>3 DEF FewQuick

LEMMA QuickReturns ==
    ASSUME Inv, Points, agenda # <<>>, Calm, This.op \notin Relied \cup Turns,
           This.op = "establish_unless_closed" => closed', FewQuick
    PROVE  /\ PointsLeft'
           /\ This.op \notin {"conn_fatal", "session_closed"} => Points'
<1>1. PICK s \in Seq(Calls) : Then(s) /\ \A x \in Items(s) : x.op \in Quick
  BY QuickPick
<1> QED BY <1>1, QuickReturn

-----------------------------------------------------------------------------
(* The functions every part of the engine shares.                          *)

\* The calls and outcomes that change the session and the connection only.
LEMMA CalmFacts ==
    ASSUME Inv
    PROVE  /\ \A x \in Active : x \notin Opening /\ x # "CLOSED" /\ x # "SENT"
           /\ \A x \in Opening : x # "CLOSED" /\ x \notin Active
           /\ everEst <=> sess \in Active \cup {"CLOSED"}
           /\ "FAILED" \notin Active /\ "CLOSED" \notin Active /\ "REJECTED" \notin Active
<1>1. everEst <=> sess \in Active \cup {"CLOSED"}
  BY DEF Inv, Story
<1> QED BY <1>1 DEF Active, Opening

LEMMA PointsAppReturns ==
    ASSUME Inv, Points, AppReturns PROVE Points'
<1>1. agenda # <<>> /\ This.op = "app" /\ Then(<<>>)
  BY DEF AppReturns, At, This
<1>2. Calm
  BY DEF AppReturns, Calm, Onward, connVars, sessVars
<1> QED BY <1>1, <1>2, QuickFew, QuickReturn DEF Relied, Turns

LEMMA PointsConnFatal ==
    ASSUME Inv, Points, ConnFatal PROVE Points'
<1>1. agenda # <<>> /\ This.op = "conn_fatal" /\ At("conn_fatal")
  BY DEF ConnFatal, At, This
<1>2. Calm
  BY DEF ConnFatal, Calm, Onward, connVars, sessVars
<1>3. Then(<<>>) \/ Then(<<Do("session_conn_lost"), Do("on_conn_error")>>)
  BY DEF ConnFatal
<1>4. PointsLeft'
  <2>1. FewQuick
    BY <1>3 DEF FewQuick, Quick
  <2> QED BY <1>1, <1>2, <2>1, QuickReturns DEF Relied, Turns
<1>5. closed' /\ UNCHANGED <<everEst, sess, sessionEs, closeRx, req>>
  BY DEF ConnFatal, sessVars
<1>6. SessionHeld'
  BY <1>1, <1>5 DEF SessionHeld, Points, Held, At
<1> QED BY <1>4, <1>6 DEF Points, PointsLeft, Held

LEMMA PointsSessionConnLost ==
    ASSUME Inv, Points, SessionConnLost PROVE Points'
<1>1. agenda # <<>> /\ This.op = "session_conn_lost"
  BY DEF SessionConnLost, At, This
<1>2. /\ UNCHANGED <<closed, settings, everEst, sessionEs, closeRx, parked, req, answered>>
      /\ sess' = sess \/ (sess \in Opening /\ sess' = "FAILED")
  BY DEF SessionConnLost, SessionFailed, LostStates
<1>3. Calm
  BY <1>2, CalmFacts DEF Calm, Onward
<1>4. Then(<<>>) \/ Then(<<Do("session_closed")>>) \/ Then(<<App>> \o <<>>)
  BY DEF SessionConnLost, SessionFailed
<1>5. <<App>> \o <<>> = <<Do("app")>>
  BY CallFacts, Joined DEF App
<1>6. FewQuick
  BY <1>4, <1>5 DEF FewQuick, Quick
<1> QED BY <1>1, <1>3, <1>6, QuickReturns DEF Relied, Turns

LEMMA PointsCallbacks ==
    ASSUME Inv, Points, OnConnError \/ OnSessionClosed PROVE Points'
<1>1. agenda # <<>> /\ This.op \in {"on_conn_error", "on_session_closed"} /\ Then(<<Do("app")>>)
  BY DEF OnConnError, OnSessionClosed, At, This, App
<1>2. Calm
  BY DEF OnConnError, OnSessionClosed, Calm, Onward, sessVars
<1>3. FewQuick
  BY <1>1 DEF FewQuick, Quick
<1> QED BY <1>1, <1>2, <1>3, QuickReturns DEF Relied, Turns

LEMMA PointsSessionClosed ==
    ASSUME Inv, Points, SessionClosed PROVE Points'
<1>1. agenda # <<>> /\ This.op = "session_closed"
  BY DEF SessionClosed, At, This
<1>2. /\ UNCHANGED <<closed, settings, everEst, sessionEs, closeRx, parked, req, answered>>
      /\ \/ sess \notin Active /\ sess' = sess
         \/ sess' = "CLOSED" /\ sess \in Active
  BY DEF SessionClosed, connVars
<1>3. Calm
  BY <1>2, CalmFacts DEF Calm, Onward
<1>4. Then(<<>>) \/ Then(<<Do("on_session_closed")>>)
      \/ Then(<<Do("conn_fatal"), Do("on_session_closed")>>)
  BY DEF SessionClosed
<1>5. PointsLeft'
  <2>1. FewQuick
    BY <1>4 DEF FewQuick, Quick
  <2> QED BY <1>1, <1>3, <2>1, QuickReturns DEF Relied, Turns
<1>6. SessionHeld'
  BY <1>2, CalmFacts DEF SessionHeld, Points, Held
<1> QED BY <1>5, <1>6 DEF Points, PointsLeft, Held

LEMMA PointsSessionDraining ==
    ASSUME Inv, Points, SessionDraining PROVE Points'
<1>1. agenda # <<>> /\ This.op = "session_draining"
  BY DEF SessionDraining, At, This
<1>2. /\ UNCHANGED <<closed, settings, everEst, sessionEs, closeRx, parked, req, answered>>
      /\ sess' = sess \/ (sess \in Active /\ sess' = "DRAINING")
  BY DEF SessionDraining, DrainIgnored, connVars
<1>3. Calm
  BY <1>2, CalmFacts DEF Calm, Onward
<1>4. Then(<<>>) \/ Then(<<Do("app")>>)
  BY DEF SessionDraining, App
<1>5. FewQuick
  BY <1>4 DEF FewQuick, Quick
<1> QED BY <1>1, <1>3, <1>5, QuickReturns DEF Relied, Turns

\* Inputs and operations that call nothing, or quick calls only.
LEMMA PointsPlain ==
    ASSUME Inv, Points, Next,
           \/ \E ok \in BOOLEAN : OpenDeferredLocals(ok)
           \/ OnPeerControlOpened \/ OnCriticalViolation \/ OnConnClosed \/ SetTransportError
           \/ Start \/ ClientConnect \/ SessionClose \/ SessionDrain \/ WtStreams
    PROVE  Points'
<1>1. AppMay
  BY DEF OpenDeferredLocals, OnPeerControlOpened, OnCriticalViolation, OnConnClosed,
     SetTransportError, Start, ClientConnect, SessionClose, SessionDrain, WtStreams, AppMay
<1>2. /\ UNCHANGED <<settings, everEst, sessionEs, closeRx, parked, req, answered>>
      /\ closed => closed'
      /\ sess' = sess \/ (sess = "IDLE" /\ sess' \in {"PENDING", "FAILED"})
  BY DEF OpenDeferredLocals, OnPeerControlOpened, OnCriticalViolation, OnConnClosed,
     SetTransportError, Start, ClientConnect, SessionClose, SessionDrain, WtStreams,
     connVars, sessVars
<1>3. Calm
  BY <1>2 DEF Calm, Onward, Active
<1>4. \/ UNCHANGED agenda \/ Enter(<<>>)
      \/ \E a \in {"conn_fatal", "app", "client_send_connect", "session_closed"} : Enter(<<Do(a)>>)
      \/ Enter(<<Do("session_conn_lost"), Do("on_conn_error")>>)
  BY DEF OpenDeferredLocals, OnPeerControlOpened, OnCriticalViolation, OnConnClosed,
     SetTransportError, Start, ClientConnect, SessionClose, SessionDrain, WtStreams, App
<1>5. CASE UNCHANGED agenda
  BY <1>1, <1>3, <1>5, CalmStay
<1>6. ASSUME NEW calls \in Seq(Calls), Enter(calls), \A x \in Items(calls) : x.op \in Quick
      PROVE  Points'
  BY <1>1, <1>3, <1>6, QuickEnter
<1>7. CASE Enter(<<>>)
  BY <1>6, <1>7, QuickFew
<1>8. ASSUME NEW a \in Quick, Enter(<<Do(a)>>) PROVE Points'
  BY <1>6, <1>8, QuickFew
<1>9. CASE Enter(<<Do("session_conn_lost"), Do("on_conn_error")>>)
  BY <1>6, <1>9, QuickFew DEF Quick
<1> QED BY <1>4, <1>5, <1>7, <1>8, <1>9 DEF Quick

-----------------------------------------------------------------------------
(* Calls on streams that change nothing themselves.                        *)

\* Short sequences of calls on streams.
LEMMA FewCalls ==
    ASSUME NEW a \in Calls, NEW b \in Calls, NEW c \in Calls
    PROVE  /\ <<>> \in Seq(Calls) /\ <<a>> \in Seq(Calls) /\ <<a, b>> \in Seq(Calls)
           /\ <<a, b, c>> \in Seq(Calls)
           /\ <<a>> # <<>> /\ <<a, b>> # <<>> /\ <<a, b, c>> # <<>>
           /\ <<a>>[1] = a /\ <<a, b>>[1] = a /\ <<a, b, c>>[1] = a
  OBVIOUS

LEMMA NoStreamIsNone ==
    NoStream \notin Requests
  BY RoleAssumption DEF Requests

\* The pointers and the streams, by their types.
LEMMA Typed ==
    ASSUME Inv
    PROVE  /\ req \in [Requests -> Streams] /\ NoStream \notin Requests
           /\ parked.es \in Requests \cup {NoStream} /\ sessionEs \in Requests \cup {NoStream}
           /\ answered \in [Requests -> {"nothing", "reset", "200", "error"}]
           /\ agenda \in Seq(Calls)
  BY NoStreamIsNone DEF Inv, TypeOK

LEMMA PointsShutdownUnlessClosed ==
    ASSUME Inv, Points, ShutdownUnlessClosed PROVE Points'
<1>1. agenda # <<>> /\ This.op = "shutdown_unless_closed"
  BY DEF ShutdownUnlessClosed, At, This
<1>2. Calm /\ UNCHANGED <<parked, req>>
  BY DEF ShutdownUnlessClosed, Calm, Onward, connVars, sessVars
<1>3. CASE Then(<<>>)
  BY <1>1, <1>2, <1>3, QuickFew, QuickReturn DEF Relied, Turns
<1>4. CASE Then(<<On("shutdown_raw", This.r)>>)
  <2>1. PICK r \in Requests : r = This.r
    BY <1>1, AtStream DEF Inv, TypeOK, At, This, StreamOps
  <2> DEFINE a == On("shutdown_raw", r)
  <2>2. a \in Calls /\ a.op = "shutdown_raw" /\ a.r = r
    BY CallFacts DEF StreamOps
  <2>3. <<a>> \in Seq(Calls) /\ Items(<<a>>) = {a} /\ Chain(<<a>>) /\ <<a>>[1] = a
    <3>1. <<a>> \in Seq(Calls) /\ <<a>>[1] = a
      BY <2>2
    <3> QED BY <3>1, Few
  <2>4. Then(<<a>>)
    BY <1>4, <2>1 DEF Then
  <2> HIDE DEF a
  <2>5. req[r].kind \notin {"UNOPENED", "BTYPE", "REQUEST"}
    BY <1>1, <2>1, HeadView DEF Points, Owing, Owes
  <2>6. parked.es # r
    BY <2>1, <2>5, NoStreamIsNone DEF Points, Held, ParkedHeld
  <2>7. Owes(a)'
    BY <1>2, <2>2, <2>5, <2>6 DEF Owes, Releases
  <2>8. \A b \in Below : Under(a, b)
    BY <2>2 DEF Under, Light, Releases
  <2>9. a.op # "settings_latched" /\ a.op \notin HeadOps
    BY <2>2 DEF HeadOps
  <2> QED BY <1>1, <1>2, <2>3, <2>4, <2>7, <2>8, <2>9, CalmReturn DEF Relied, Turns
<1> QED BY <1>3, <1>4 DEF ShutdownUnlessClosed

\* Fin(r): a live stream that is not parked, with no release pending.
LEMMA FinOwes ==
    ASSUME Inv, Points, NEW r \in Requests, UNCHANGED <<sessionEs, req>>, parked'.es = parked.es,
           req[r].kind \notin {"UNOPENED", "FREE"}, parked.es # r, agenda' # <<>>,
           This' = On("request_stream_fin", r),
           \A x \in Stacked : x.op \notin {"request_stream_failed", "fin_release"}
    PROVE  /\ Owes(On("fin_release", r))' /\ Owes(On("request_stream_fin", r))'
           /\ HeadOwes'
<1>1. ~Going(r)
  BY CallFacts DEF Going
<1>2. ~(req[r].isSession /\ req[r].dead)
  BY <1>1 DEF Points, Held, StreamsHeld
<1>3. /\ On("fin_release", r).op = "fin_release" /\ On("fin_release", r).r = r
      /\ On("request_stream_fin", r).op = "request_stream_fin" /\ On("request_stream_fin", r).r = r
  BY CallFacts
<1>4. Owes(On("request_stream_fin", r))'
  BY <1>3 DEF Owes, Releases
<1>5. At("request_stream_fin")'
  BY <1>3 DEF At, This
<1>6. Owes(On("fin_release", r))'
  BY <1>3, <1>5 DEF Owes, Releases
<1>7. \A op : At(op)' => op = "request_stream_fin"
  BY <1>3 DEF At, This
<1>8. HeadOwes'
  BY <1>2, <1>3, <1>7 DEF HeadOwes
<1> QED BY <1>4, <1>6, <1>8

LEMMA FinFits ==
    ASSUME NEW r \in Requests, NEW b, b.op \in {"control_bytes"}
    PROVE  Under(On("request_stream_fin", r), b) /\ Under(On("fin_release", r), b)
  BY CallFacts DEF Under, Releases, Guarded, Light

LEMMA FinChain ==
    ASSUME NEW r \in Requests
    PROVE  /\ Fin(r) \in Seq(Calls) /\ Chain(Fin(r)) /\ Fin(r) # <<>>
           /\ Items(Fin(r)) = {On("request_stream_fin", r), On("fin_release", r)}
           /\ Fin(r)[1] = On("request_stream_fin", r)
<1> DEFINE a == On("request_stream_fin", r)  b == On("fin_release", r)
<1>1. a \in Calls /\ b \in Calls /\ a.op = "request_stream_fin" /\ b.op = "fin_release"
  BY CallFacts DEF StreamOps
<1> HIDE DEF a, b
<1>2. Under(a, b)
  BY <1>1 DEF Under, Releases, Guarded, Light
<1>3. Items(<<a, b>>) = {a, b} /\ Chain(<<a, b>>)
  BY <1>2, Few
<1>4. <<a, b>> \in Seq(Calls) /\ <<a, b>> # <<>> /\ <<a, b>>[1] = a
  BY <1>1
<1> QED BY <1>3, <1>4 DEF a, b, Fin

\* Fin(r) on a stack of which nothing but control_bytes stays.
LEMMA FinReturn ==
    ASSUME Inv, Points, agenda # <<>>, Calm, UNCHANGED <<parked, req>>,
           This.op \in {"stream_bytes_end", "deferred_fin"}, NEW r \in Requests, Then(Fin(r)),
           req[r].kind \notin {"UNOPENED", "FREE"}, parked.es # r,
           \A b \in Below : b.op = "control_bytes"
    PROVE  Points'
<1>1. /\ Fin(r) \in Seq(Calls) /\ Chain(Fin(r)) /\ Fin(r) # <<>>
      /\ Items(Fin(r)) = {On("request_stream_fin", r), On("fin_release", r)}
      /\ Fin(r)[1] = On("request_stream_fin", r)
  BY FinChain
<1>2. \A a \in Items(Fin(r)) : \A b \in Below : Under(a, b)
  BY <1>1, FinFits
<1>3. Order' /\ Stacked' = Items(Fin(r)) \cup Below /\ agenda' # <<>> /\ This' = Fin(r)[1]
  BY <1>1, <1>2, Shape DEF Points
<1>4. /\ Below \subseteq Stacked /\ \A x \in Stacked : x = This \/ x \in Below
      /\ \A op : At(op) <=> This.op = op
  BY HeadView, HeadFacts DEF Points
<1>5. \A x \in Stacked : x.op \notin {"request_stream_failed", "fin_release"}
  BY <1>4
<1>6. HeadOwes' /\ \A a \in Items(Fin(r)) : Owes(a)'
  BY <1>1, <1>3, <1>5, FinOwes DEF Calm
<1>7. \A a \in Items(Fin(r)) : a.op # "settings_latched"
  BY <1>1, CallFacts
<1>8. Leaves(Items(Fin(r)), Below) /\ NoTurn
  BY <1>3, <1>4 DEF Leaves, NoTurn, Relied, Turns
<1>9. Owing' /\ StreamsHeld' /\ ParkedHeld' /\ AnswersHeld' /\ SessionHeld'
  BY <1>4, <1>6, <1>7, <1>8, CalmHeld
<1> QED BY <1>3, <1>6, <1>9 DEF Points, Held

LEMMA PointsStreamBytesEnd ==
    ASSUME Inv, Points, StreamBytesEnd PROVE Points'
<1>1. agenda # <<>> /\ This.op = "stream_bytes_end"
  BY DEF StreamBytesEnd, At, This
<1>2. PICK r \in Requests : r = This.r
  BY <1>1, AtStream DEF Inv, TypeOK, At, This, StreamOps
<1>3. UNCHANGED <<closed, settings, everEst, sess, sessionEs, closeRx, req, answered>>
  BY DEF StreamBytesEnd, connVars, sessVars
<1>4. /\ parked'.es = parked.es
      /\ \/ Then(<<>>) \/ Then(<<Do("conn_fatal")>>)
         \/ /\ req[r].kind # "FREE" /\ parked.es # r /\ UNCHANGED parked
            /\ Then(Fin(r))
  BY <1>2 DEF StreamBytesEnd, Then, Inv, TypeOK
<1>5. Calm
  BY <1>3, <1>4 DEF Calm, Onward
<1>6. Below = {}
  BY <1>1, HeadView DEF Points
<1>7. req[r].kind # "UNOPENED"
  BY <1>1, <1>2, HeadView DEF Points, Owing, Owes
<1>8. CASE Then(<<>>) \/ Then(<<Do("conn_fatal")>>)
  BY <1>1, <1>5, <1>8, QuickFew, QuickReturn DEF Relied, Turns, Quick
<1>9. CASE req[r].kind # "FREE" /\ parked.es # r /\ UNCHANGED parked /\ Then(Fin(r))
  BY <1>1, <1>3, <1>5, <1>6, <1>7, <1>9, FinReturn
<1> QED BY <1>4, <1>8, <1>9

LEMMA PointsDeferredFin ==
    ASSUME Inv, Points, DeferredFin PROVE Points'
<1>1. agenda # <<>> /\ This.op = "deferred_fin"
  BY DEF DeferredFin, At, This
<1>2. PICK r \in Requests : r = This.r
  BY <1>1, AtStream DEF Inv, TypeOK, At, This, StreamOps
<1>3. UNCHANGED <<closed, settings, everEst, sess, sessionEs, closeRx, req, answered, parked>>
  BY DEF DeferredFin, connVars, sessVars
<1>4. Then(<<>>) \/ (req[r].kind # "FREE" /\ Then(Fin(r)))
  BY <1>2 DEF DeferredFin, Then
<1>5. Calm
  BY <1>3 DEF Calm, Onward
<1>6. req[r].kind # "UNOPENED" /\ parked.es # r
  BY <1>1, <1>2, HeadView DEF Points, Owing, Owes
<1>7. \A b \in Below : b.op = "control_bytes"
  BY <1>1, HeadView DEF Points, Under
<1>8. CASE Then(<<>>)
  BY <1>1, <1>5, <1>8, QuickFew, QuickReturn DEF Relied, Turns
<1>9. CASE req[r].kind # "FREE" /\ Then(Fin(r))
  BY <1>1, <1>3, <1>5, <1>6, <1>7, <1>9, FinReturn
<1> QED BY <1>4, <1>8, <1>9

LEMMA PointsOnStreamFin ==
    ASSUME Inv, Points, NEW r \in Requests, OnStreamFin(r) PROVE Points'
<1>1. AppMay /\ Idle
  BY DEF OnStreamFin, AppMay
<1>2. UNCHANGED <<closed, settings, everEst, sess, sessionEs, closeRx, req, answered>>
  BY DEF OnStreamFin, connVars, sessVars
<1>3. /\ parked'.es = parked.es
      /\ \/ UNCHANGED agenda \/ Enter(<<Do("conn_fatal")>>)
         \/ /\ req[r].kind \notin {"UNOPENED", "FREE"} /\ parked.es # r /\ UNCHANGED parked
            /\ Enter(Fin(r))
  BY DEF OnStreamFin, Receives, Inv, TypeOK
<1>4. Calm
  BY <1>2, <1>3 DEF Calm, Onward
<1>5. CASE UNCHANGED agenda
  BY <1>1, <1>4, <1>5, CalmStay
<1>6. CASE Enter(<<Do("conn_fatal")>>)
  BY <1>1, <1>4, <1>6, QuickFew, QuickEnter DEF Quick
<1>7. CASE req[r].kind \notin {"UNOPENED", "FREE"} /\ parked.es # r /\ UNCHANGED parked
           /\ Enter(Fin(r))
  <2>1. /\ Fin(r) \in Seq(Calls) /\ Chain(Fin(r)) /\ Fin(r) # <<>>
        /\ Items(Fin(r)) = {On("request_stream_fin", r), On("fin_release", r)}
        /\ Fin(r)[1] = On("request_stream_fin", r)
    BY FinChain
  <2>2. Stacked = {}
    BY <1>1, MayView
  <2>3. agenda' # <<>> /\ This' = Fin(r)[1]
    BY <1>7, <2>1, <2>2, ShapeEnter DEF Points
  <2>4. HeadOwes' /\ \A a \in Items(Fin(r)) : Owes(a)'
    BY <1>2, <1>7, <2>1, <2>2, <2>3, FinOwes
  <2>5. \A a \in Items(Fin(r)) : a.op # "settings_latched"
    BY <2>1, CallFacts
  <2> QED BY <1>1, <1>4, <1>7, <2>1, <2>2, <2>4, <2>5, CalmEnter
<1> QED BY <1>3, <1>5, <1>6, <1>7

-----------------------------------------------------------------------------
(* Refusals and deliveries.                                                *)

\* Refuse(r) followed by what refuses it for good.
LEMMA RefuseChain ==
    ASSUME NEW r \in Requests, NEW c \in Calls,
           c.op \in {"request_stream_failed", "parked_request_cancel", "fin_release"}
    PROVE  /\ Refuse(r) \o <<c>> \in Seq(Calls) /\ Chain(Refuse(r) \o <<c>>)
           /\ Items(Refuse(r) \o <<c>>) = {On("shutdown_raw", r), On("mark_dead", r), c}
           /\ Refuse(r) \o <<c>> # <<>> /\ (Refuse(r) \o <<c>>)[1] = On("shutdown_raw", r)
<1> DEFINE a == On("shutdown_raw", r)  b == On("mark_dead", r)
<1>1. a \in Calls /\ a.op = "shutdown_raw" /\ b \in Calls /\ b.op = "mark_dead"
  BY CallFacts DEF StreamOps
<1> HIDE DEF a, b
<1>2. Under(a, b) /\ Under(a, c) /\ Under(b, c)
  BY <1>1 DEF Under, Releases, Guarded, Light
<1>3. /\ Items(<<a, b, c>>) = {a, b, c} /\ Chain(<<a, b, c>>)
      /\ <<a, b>> \o <<c>> = <<a, b, c>>
  <2>1. Items(<<a, b, c>>) = {a, b, c} /\ Chain(<<a, b, c>>)
    BY <1>2, Three
  <2>2. a \in Calls /\ b \in Calls
    BY <1>1
  <2>3. <<a, b>> \o <<c>> = <<a, b, c>>
    BY <2>2, Joined
  <2> QED BY <2>1, <2>3
<1>4. <<a, b, c>> \in Seq(Calls) /\ <<a, b, c>> # <<>> /\ <<a, b, c>>[1] = a
  BY <1>1
<1>5. Refuse(r) = <<a, b>>
  BY DEF a, b, Refuse
<1> QED BY <1>3, <1>4, <1>5 DEF a, b

\* Refuse(r) alone.
LEMMA RefuseAlone ==
    ASSUME NEW r \in Requests
    PROVE  /\ Refuse(r) \in Seq(Calls) /\ Chain(Refuse(r))
           /\ Items(Refuse(r)) = {On("shutdown_raw", r), On("mark_dead", r)}
           /\ Refuse(r) # <<>> /\ Refuse(r)[1] = On("shutdown_raw", r)
<1> DEFINE a == On("shutdown_raw", r)  b == On("mark_dead", r)
<1>1. a \in Calls /\ a.op = "shutdown_raw" /\ b \in Calls /\ b.op = "mark_dead"
  BY CallFacts DEF StreamOps
<1> HIDE DEF a, b
<1>2. Under(a, b)
  BY <1>1 DEF Under, Releases, Guarded, Light
<1>3. Items(<<a, b>>) = {a, b} /\ Chain(<<a, b>>)
  BY <1>2, Few
<1>4. <<a, b>> \in Seq(Calls) /\ <<a, b>> # <<>> /\ <<a, b>>[1] = a
  BY <1>1
<1> QED BY <1>3, <1>4 DEF a, b, Refuse

\* What the two calls of Refuse(r) owe when r is a stream in use.
LEMMA RefuseOwes ==
    ASSUME NEW r \in Requests,
           req'[r].kind \notin {"UNOPENED", "BTYPE"},
           req'[r].kind = "CONNECT" => sess' # "SENT",
           On("mark_dead", r) \in Stacked',
           (parked.es = r)' => Refusing(r)', (req[r].isSession)' => Going(r)'
    PROVE  Owes(On("shutdown_raw", r))' /\ Owes(On("mark_dead", r))'
<1>1. /\ On("shutdown_raw", r).op = "shutdown_raw" /\ On("shutdown_raw", r).r = r
      /\ On("mark_dead", r).op = "mark_dead" /\ On("mark_dead", r).r = r
  BY CallFacts
<1>2. Owes(On("shutdown_raw", r))'
  BY <1>1 DEF Owes, Releases
<1>3. Owes(On("mark_dead", r))'
  BY <1>1 DEF Owes, Releases
<1> QED BY <1>2, <1>3

\* An input enters `calls' on an empty stack.
LEMMA InputEnter ==
    ASSUME Inv, Points, Idle, Calm, NEW calls \in Seq(Calls), Enter(calls), Chain(calls),
           calls # <<>>, calls[1].op \notin HeadOps,
           \A a \in Items(calls) : a.op # "settings_latched",
           Stacked' = Items(calls) => \A a \in Items(calls) : Owes(a)'
    PROVE  Points'
<1>1. AppMay /\ Stacked = {}
  BY MayView DEF AppMay
<1> QED BY <1>1, CalmEnter

LEMMA PointsOnControlBytes ==
    ASSUME Inv, Points, OnControlBytes PROVE Points'
<1> DEFINE a == Do("control_bytes")
<1>1. a \in Calls /\ a.op = "control_bytes"
  BY CallFacts DEF ConnOps
<1>2. Idle /\ Calm /\ Enter(<<a>>)
  BY DEF OnControlBytes, Calm, Onward, connVars, sessVars
<1> HIDE DEF a
<1>3. <<a>> \in Seq(Calls) /\ <<a>> # <<>> /\ <<a>>[1] = a
  BY <1>1
<1>4. Items(<<a>>) = {a} /\ Chain(<<a>>)
  BY Few
<1>5. Owes(a)' /\ a.op \notin HeadOps
  BY <1>1 DEF Owes, Releases, HeadOps
<1> QED BY <1>1, <1>2, <1>3, <1>4, <1>5, InputEnter

LEMMA PointsOnStopSending ==
    ASSUME Inv, Points, NEW r \in Requests, OnStopSending(r) PROVE Points'
<1> DEFINE c == Do("parked_request_cancel")  d == On("reset_release", r)
           s == Refuse(r) \o <<c>>
<1>1. /\ c \in Calls /\ c.op = "parked_request_cancel"
      /\ d \in Calls /\ d.op = "reset_release" /\ d.r = r
  BY CallFacts DEF ConnOps, StreamOps
<1>2. Idle /\ Calm /\ UNCHANGED <<parked, req>> /\ parked.es = r
  BY DEF OnStopSending, Calm, Onward, connVars, sessVars
<1>3. /\ s \in Seq(Calls) /\ Chain(s) /\ s # <<>> /\ s[1] = On("shutdown_raw", r)
      /\ Items(s) = {On("shutdown_raw", r), On("mark_dead", r), c}
  BY <1>1, RefuseChain
<1>4. Enter(s \o <<>>) \/ Enter(s \o <<d>>)
  BY DEF OnStopSending
<1>5. req[r].kind = "REQUEST" /\ req[r].headers /\ ~req[r].isSession
  BY <1>2, NoStreamIsNone DEF Points, Held, ParkedHeld
<1> HIDE DEF c, d, s
<1>6. ASSUME NEW t \in {<<>>, <<d>>}, Enter(s \o t) PROVE Points'
  <2>1. t \in Seq(Calls) /\ Chain(t) /\ (Items(t) = {} \/ Items(t) = {d})
    <3>1. <<>> \in Seq(Calls) /\ <<d>> \in Seq(Calls)
      BY <1>1
    <3> QED BY <1>6, <3>1, Few
  <2>2. \A a \in Items(s) : Under(a, d)
    BY <1>1, <1>3, CallFacts DEF Under, Releases, Guarded, Light
  <2>3. /\ s \o t \in Seq(Calls) /\ Items(s \o t) = Items(s) \cup Items(t) /\ Chain(s \o t)
        /\ s \o t # <<>> /\ Head(s \o t) = s[1]
    BY <1>3, <2>1, <2>2, Joint
  <2> DEFINE calls == s \o t
  <2>4. calls[1] = On("shutdown_raw", r)
    BY <1>3, <2>3
  <2> HIDE DEF calls
  <2>5. ASSUME Stacked' = Items(calls) PROVE \A a \in Items(calls) : Owes(a)'
    <3>1. c \in Stacked' /\ On("mark_dead", r) \in Stacked'
      BY <1>3, <2>3, <2>5 DEF calls
    <3>2. Refusing(r)'
      BY <3>1 DEF Refusing, c
    <3>3. Owes(On("shutdown_raw", r))' /\ Owes(On("mark_dead", r))'
      BY <1>2, <1>5, <3>1, <3>2, RefuseOwes
    <3>4. Owes(c)'
      BY <1>1 DEF Owes, Releases
    <3>5. Owes(d)'
      <4>1. Do("parked_request_cancel") \in Stacked'
        BY <3>1 DEF c
      <4> QED BY <1>1, <1>2, <1>5, <4>1 DEF Owes, Releases
    <3> QED BY <1>3, <2>1, <2>3, <3>3, <3>4, <3>5 DEF calls
  <2>6. \A a \in Items(calls) : a.op # "settings_latched"
    BY <1>1, <1>3, <2>1, <2>3, CallFacts DEF calls
  <2>7. calls[1].op \notin HeadOps
    BY <2>4, CallFacts DEF HeadOps
  <2>8. Enter(calls) /\ calls \in Seq(Calls) /\ Chain(calls) /\ calls # <<>>
    BY <1>6, <2>3 DEF calls
  <2> QED BY <1>2, <2>5, <2>6, <2>7, <2>8, InputEnter
<1> QED BY <1>4, <1>6

-----------------------------------------------------------------------------
(* Inputs that change a stream.                                            *)

\* The fields of a stream that is released.
LEMMA ReleaseView ==
    ASSUME req \in [Requests -> Streams], NEW r \in Requests, Release(r)
    PROVE  /\ req'[r].kind = "FREE" /\ ~req'[r].idPending
           /\ req'[r].isSession = req[r].isSession /\ req'[r].headers = req[r].headers
           /\ req'[r].dead = req[r].dead /\ req'[r].frame = req[r].frame
           /\ \A q \in Requests : q # r => req'[q] = req[q]
  BY DEF Release, Streams

\* The fields of a stream when one of them is set.
LEMMA SetView ==
    ASSUME req \in [Requests -> Streams], NEW r \in Requests, NEW f, NEW v, Set(r, f, v),
           f \in {"kind", "dead", "headers", "trailers", "isSession", "idPending", "frame"}
    PROVE  /\ \A q \in Requests : q # r => req'[q] = req[q]
           /\ req'[r].kind = IF f = "kind" THEN v ELSE req[r].kind
           /\ req'[r].dead = IF f = "dead" THEN v ELSE req[r].dead
           /\ req'[r].headers = IF f = "headers" THEN v ELSE req[r].headers
           /\ req'[r].isSession = IF f = "isSession" THEN v ELSE req[r].isSession
           /\ req'[r].idPending = IF f = "idPending" THEN v ELSE req[r].idPending
           /\ req'[r].frame = IF f = "frame" THEN v ELSE req[r].frame
<1>1. CASE f = "kind"
  BY <1>1 DEF Set, Streams
<1>2. CASE f = "dead"
  BY <1>2 DEF Set, Streams
<1>3. CASE f = "headers"
  BY <1>3 DEF Set, Streams
<1>4. CASE f = "trailers"
  BY <1>4 DEF Set, Streams
<1>5. CASE f = "isSession"
  BY <1>5 DEF Set, Streams
<1>6. CASE f = "idPending"
  BY <1>6 DEF Set, Streams
<1>7. CASE f = "frame"
  BY <1>7 DEF Set, Streams
<1> QED BY <1>1, <1>2, <1>3, <1>4, <1>5, <1>6, <1>7

\* Nothing waits when the engine is at rest.
LEMMA AtRest ==
    ASSUME Inv, Points, Idle
    PROVE  /\ Stacked = {} /\ (\A op : ~At(op)) /\ req \in [Requests -> Streams]
           /\ (\A r : ~Going(r)) /\ (\A r : ~Refusing(r))
           /\ NoStream \notin Requests
<1>1. Stacked = {} /\ \A op : ~At(op)
  BY MayView DEF AppMay, Idle, At
<1>2. req \in [Requests -> Streams]
  BY DEF Inv, TypeOK
<1> QED BY <1>1, <1>2, NoStreamIsNone DEF Going, Refusing

LEMMA PointsOnPeerBidiOpened ==
    ASSUME Inv, Points, NEW r \in Requests, OnPeerBidiOpened(r) PROVE Points'
<1>1. /\ Idle /\ req[r].kind = "UNOPENED" /\ Set(r, "kind", "BTYPE") /\ UNCHANGED agenda
      /\ UNCHANGED <<closed, settings, everEst, sess, sessionEs, closeRx, parked, answered>>
  BY DEF OnPeerBidiOpened, connVars, sessVars
<1>2. /\ Stacked = {} /\ (\A op : ~At(op)) /\ (\A x : ~Going(x)) /\ (\A x : ~Refusing(x))
      /\ NoStream \notin Requests /\ req \in [Requests -> Streams]
  BY <1>1, AtRest
<1>3. /\ \A q \in Requests : q # r => req'[q] = req[q]
      /\ req'[r].kind = "BTYPE" /\ req'[r].dead = req[r].dead
      /\ req'[r].headers = req[r].headers /\ req'[r].isSession = req[r].isSession
      /\ req'[r].idPending = req[r].idPending /\ req'[r].frame = req[r].frame
  BY <1>1, <1>2, SetView
<1>4. Stacked' = {} /\ (\A op : ~At(op)')
  BY <1>1, <1>2 DEF Stacked, At
<1>5. Order' /\ Owing' /\ HeadOwes'
  BY <1>1, <1>4 DEF Points, Order, Owing, HeadOwes
<1>6. SessionHeld'
  BY <1>1, <1>2, <1>3 DEF Points, Held, SessionHeld, Inv, TypeOK
<1>7. StreamsHeld'
  BY <1>1, <1>2, <1>3, <1>4 DEF Points, Held, StreamsHeld
<1>8. ParkedHeld'
  BY <1>1, <1>2, <1>3, Typed DEF Points, Held, ParkedHeld
<1>9. AnswersHeld'
  BY <1>1, <1>2, <1>3, <1>4 DEF Points, Held, AnswersHeld, Undecided, NoneAccepted
<1> QED BY <1>5, <1>6, <1>7, <1>8, <1>9 DEF Points, Held

\* Poison(r): bytes behind a CLOSE.
LEMMA PoisonChain ==
    ASSUME NEW r \in Requests
    PROVE  /\ Poison(r) \in Seq(Calls) /\ Chain(Poison(r)) /\ Poison(r) # <<>>
           /\ Items(Poison(r)) = {On("shutdown_raw", r), On("session_stream_poisoned", r)}
           /\ Poison(r)[1] = On("shutdown_raw", r)
<1> DEFINE a == On("shutdown_raw", r)  b == On("session_stream_poisoned", r)
<1>1. a \in Calls /\ b \in Calls /\ a.op = "shutdown_raw" /\ b.op = "session_stream_poisoned"
  BY CallFacts DEF StreamOps
<1> HIDE DEF a, b
<1>2. Under(a, b)
  BY <1>1 DEF Under, Releases, Guarded, Light
<1>3. Items(<<a, b>>) = {a, b} /\ Chain(<<a, b>>)
  BY <1>2, Few
<1>4. <<a, b>> \in Seq(Calls) /\ <<a, b>> # <<>> /\ <<a, b>>[1] = a
  BY <1>1
<1> QED BY <1>3, <1>4 DEF a, b, Poison

LEMMA PoisonOwes ==
    ASSUME Points, NEW r \in Requests, UNCHANGED <<req, parked>>, closeRx',
           req[r].isSession, req[r].kind \in {"CONNECT", "REQUEST"}, NoStream \notin Requests
    PROVE  \A a \in Items(Poison(r)) : Owes(a)'
<1>1. /\ On("shutdown_raw", r).op = "shutdown_raw" /\ On("shutdown_raw", r).r = r
      /\ On("session_stream_poisoned", r).op = "session_stream_poisoned"
      /\ On("session_stream_poisoned", r).r = r
  BY CallFacts
<1>2. req[r].headers /\ parked.es # r
  BY DEF Points, Held, StreamsHeld, ParkedHeld
<1>3. Owes(On("shutdown_raw", r))'
  BY <1>1, <1>2 DEF Owes, Releases
<1>4. Owes(On("session_stream_poisoned", r))'
  BY <1>1 DEF Owes, Releases
<1> QED BY <1>3, <1>4, PoisonChain

LEMMA PointsOnStreamBytes ==
    ASSUME Inv, Points, NEW r \in Requests, OnStreamBytes(r) PROVE Points'
<1>1. /\ Idle /\ Receives(r) /\ ~req[r].idPending
      /\ UNCHANGED <<closed, settings, everEst, sess, sessionEs, closeRx, parked, answered>>
  BY DEF OnStreamBytes, connVars, sessVars
<1>2. /\ Stacked = {} /\ (\A op : ~At(op)) /\ (\A x : ~Going(x)) /\ (\A x : ~Refusing(x))
      /\ NoStream \notin Requests /\ req \in [Requests -> Streams]
  BY <1>1, AtRest
<1>3. CASE req[r].isSession /\ closeRx /\ Enter(Poison(r)) /\ UNCHANGED req
  <2>1. req[r].kind \in {"CONNECT", "REQUEST", "BTYPE"}
    BY <1>1 DEF Receives
  <2>2. Calm
    BY <1>1, <1>3 DEF Calm, Onward
  <2>3. req[r].kind # "BTYPE"
    BY <1>3 DEF Points, Held, StreamsHeld
  <2>4. \A a \in Items(Poison(r)) : Owes(a)'
    BY <1>1, <1>2, <1>3, <2>1, <2>3, PoisonOwes
  <2>5. \A a \in Items(Poison(r)) : a.op # "settings_latched"
    BY PoisonChain, CallFacts
  <2>6. Poison(r)[1] = On("shutdown_raw", r)
    BY PoisonChain
  <2>7. Poison(r)[1].op \notin HeadOps
    BY <2>6, CallFacts DEF HeadOps
  <2> QED BY <1>1, <1>3, <2>2, <2>4, <2>5, <2>7, PoisonChain, InputEnter
<1>4. CASE /\ Enter(<<Walk(r), On("stream_bytes_end", r)>>)
           /\ req' = IF req[r].kind = "BTYPE" THEN [req EXCEPT ![r].kind = "REQUEST"] ELSE req
  <2> DEFINE a == Walk(r)  b == On("stream_bytes_end", r)
  <2>1. /\ a \in Calls /\ a.op = "request_stream_bytes" /\ a.r = r
        /\ b \in Calls /\ b.op = "stream_bytes_end" /\ b.r = r
    BY CallFacts DEF Walk, StreamOps
  <2>2. Enter(<<a, b>>)
    BY <1>4
  <2> HIDE DEF a, b
  <2>3. /\ \A q \in Requests : q # r => req'[q] = req[q]
        /\ req'[r].kind = IF req[r].kind = "BTYPE" THEN "REQUEST" ELSE req[r].kind
        /\ req'[r].dead = req[r].dead /\ req'[r].headers = req[r].headers
        /\ req'[r].isSession = req[r].isSession
        /\ req'[r].idPending = req[r].idPending /\ req'[r].frame = req[r].frame
    BY <1>2, <1>4 DEF Streams
  <2>4. <<a, b>> \in Seq(Calls) /\ <<a, b>> # <<>> /\ <<a, b>>[1] = a
    BY <2>1
  <2>5. Under(a, b)
    BY <2>1 DEF Under, Releases, Guarded
  <2>6. Items(<<a, b>>) = {a, b} /\ Chain(<<a, b>>)
    BY <2>5, Few
  <2>7. Order' /\ Stacked' = {a, b} /\ agenda' # <<>> /\ This' = a
    BY <1>2, <2>2, <2>4, <2>6, ShapeEnter DEF Points
  <2>8. \A op : At(op)' <=> op = "request_stream_bytes"
    BY <2>1, <2>7 DEF At, This
  <2>9. req[r].kind \in {"CONNECT", "REQUEST", "BTYPE"}
    BY <1>1 DEF Receives
  <2>10. Owes(a)' /\ Owes(b)'
    BY <1>1, <2>1, <2>3, <2>9 DEF Owes, Releases
  <2>11. Owing'
    BY <2>7, <2>10 DEF Owing
  <2>12. HeadOwes'
    BY <2>7, <2>1, NoHead DEF HeadOps
  <2>13. SessionHeld'
    BY <1>1, <1>2, <2>3, NoStreamIsNone DEF Points, Held, SessionHeld, Inv, TypeOK
  <2>14. StreamsHeld'
    BY <1>1, <1>2, <2>3, <2>9 DEF Points, Held, StreamsHeld
  <2>15. ParkedHeld'
    BY <1>1, <1>2, <2>3, Typed DEF Points, Held, ParkedHeld
  <2>16. AnswersHeld'
    <3>1. \A q \in Requests : Undecided(q)' => Undecided(q) /\ req'[q].dead = req[q].dead
      BY <2>3, <2>9 DEF Undecided
    <3>2. Do("settings_latched") \notin Stacked'
      BY <2>1, <2>7, CallFacts
    <3> QED BY <1>1, <1>2, <3>1, <3>2 DEF Points, Held, AnswersHeld
  <2> QED BY <2>7, <2>11, <2>12, <2>13, <2>14, <2>15, <2>16 DEF Points, Held
<1> QED BY <1>3, <1>4 DEF OnStreamBytes

\* A step from rest.
LEMMA FromRest ==
    ASSUME Inv, Points, Idle, NEW calls \in Seq(Calls), Enter(calls), Chain(calls)
    PROVE  /\ Order' /\ Stacked' = Items(calls)
           /\ calls # <<>> => agenda' # <<>> /\ This' = calls[1]
           /\ calls = <<>> => agenda' = <<>> /\ \A op : ~At(op)'
<1>1. Stacked = {}
  BY AtRest
<1>2. /\ Order' /\ Stacked' = Items(calls)
      /\ calls # <<>> => agenda' # <<>> /\ This' = calls[1]
      /\ calls = <<>> => agenda' = agenda
  BY <1>1, ShapeEnter DEF Points
<1> QED BY <1>2 DEF Idle, At

\* The release of r when no other stream is being refused or released.
LEMMA StreamReleased ==
    ASSUME Inv, Points, NEW r \in Requests, Release(r), NoTurn,
           UNCHANGED <<closed, settings, everEst, sess, answered>>,
           parked' = parked \/ parked' = NotParked, parked'.es # r,
           \A x \in Stacked : /\ x.op \notin {"mark_dead", "establish_unless_closed",
                                              "settings_latched", "parked_request_cancel"}
                              /\ x.op \in {"request_stream_failed", "fin_release"} => x.r = r,
           Do("settings_latched") \notin Stacked'
    PROVE  StreamsHeld' /\ ParkedHeld' /\ AnswersHeld'
<1>1. /\ req'[r].kind = "FREE" /\ ~req'[r].idPending
      /\ req'[r].isSession = req[r].isSession /\ req'[r].headers = req[r].headers
      /\ req'[r].dead = req[r].dead /\ req'[r].frame = req[r].frame
      /\ \A q \in Requests : q # r => req'[q] = req[q]
  BY ReleaseView, Typed
<1>2. /\ ~At("client_response_done") /\ ~At("client_maybe_establish") /\ ~At("session_established")
  BY DEF NoTurn, Turns
<1>3. \A q \in Requests : q # r => ~Going(q) /\ ~Refusing(q)
  BY CallFacts DEF Going, Refusing
<1>4. /\ Do("settings_latched") \notin Stacked
      /\ \A q : On("mark_dead", q) \notin Stacked /\ On("establish_unless_closed", q) \notin Stacked
  BY CallFacts
<1>5. StreamsHeld'
  BY <1>1, <1>2, <1>3 DEF Points, Held, StreamsHeld
<1>6. ParkedHeld'
  <2> SUFFICES ASSUME parked'.es # NoStream
               PROVE  /\ req'[parked'.es].kind = "REQUEST" /\ req'[parked'.es].headers
                      /\ ~req'[parked'.es].isSession
                      /\ ~req'[parked'.es].dead /\ answered'[parked'.es] = "nothing"
                      /\ settings' = "none"
    BY DEF ParkedHeld
  <2>1. parked'.es = parked.es /\ parked.es \in Requests /\ parked.es # r
    BY Typed DEF NotParked
  <2> QED BY <1>1, <1>3, <1>4, <2>1 DEF Points, Held, ParkedHeld
<1>7. AnswersHeld'
  <2>1. \A q \in Requests : Undecided(q)' => Undecided(q) /\ req'[q].dead = req[q].dead
    BY <1>1 DEF Undecided
  <2> QED BY <1>2, <1>4, <2>1 DEF Points, Held, AnswersHeld
<1> QED BY <1>5, <1>6, <1>7

LEMMA PointsOnStreamReset ==
    ASSUME Inv, Points, NEW r \in Requests, OnStreamReset(r) PROVE Points'
<1>1. /\ Idle /\ Receives(r)
      /\ UNCHANGED <<closed, settings, everEst, closeRx, answered>>
  BY DEF OnStreamReset
<1>2. /\ Stacked = {} /\ (\A op : ~At(op)) /\ (\A x : ~Going(x)) /\ (\A x : ~Refusing(x))
      /\ NoStream \notin Requests /\ req \in [Requests -> Streams]
  BY <1>1, AtRest
<1>3. req[r].kind \in {"CONNECT", "REQUEST", "BTYPE"}
  BY <1>1 DEF Receives
<1>4. NoTurn
  BY <1>2 DEF NoTurn
<1>5. CASE req[r].isSession /\ SessionReset(r) /\ Enter(<<Do("session_closed")>>)
           /\ UNCHANGED <<sess, parked>>
  <2> DEFINE a == Do("session_closed")
  <2>1. a \in Calls /\ a.op = "session_closed"
    BY CallFacts DEF ConnOps
  <2> HIDE DEF a
  <2>2. <<a>> \in Seq(Calls) /\ <<a>> # <<>> /\ <<a>>[1] = a
    BY <2>1
  <2>3. Items(<<a>>) = {a} /\ Chain(<<a>>)
    BY Few
  <2>4. Order' /\ Stacked' = {a} /\ agenda' # <<>> /\ This' = a
    BY <1>1, <1>5, <2>2, <2>3, FromRest DEF a
  <2>5. Owing' /\ HeadOwes'
    <3>1. Owes(a)'
      BY <2>1 DEF Owes, Releases
    <3> QED BY <2>1, <2>4, <3>1, NoHead DEF Owing, HeadOps
  <2>6. Release(r) /\ sessionEs' = IF sessionEs = r THEN NoStream ELSE sessionEs
    BY <1>5 DEF SessionReset, ForgetSessionEs
  <2>7. At("session_closed")'
    BY <2>1, <2>4 DEF At, This
  <2>8. SessionHeld'
    BY <1>1, <1>2, <1>5, <2>6, <2>7, ReleaseView, Typed DEF Points, Held, SessionHeld
  <2>9. parked'.es # r
    BY <1>2, <1>5 DEF Points, Held, ParkedHeld
  <2>10. StreamsHeld' /\ ParkedHeld' /\ AnswersHeld'
    <3>1. Do("settings_latched") \notin Stacked'
      BY <2>1, <2>4, CallFacts
    <3>2. UNCHANGED <<closed, settings, everEst, sess, answered>> /\ parked' = parked
      BY <1>1, <1>5
    <3> QED BY <1>2, <1>4, <2>6, <2>9, <3>1, <3>2, StreamReleased
  <2> QED BY <2>4, <2>5, <2>8, <2>10 DEF Points, Held
<1>6. CASE /\ sess = "SENT" /\ ~everEst /\ sess' = "FAILED" /\ UNCHANGED <<req, parked, sessionEs>>
           /\ req[r].kind = "CONNECT" /\ ~req[r].isSession
           /\ Enter(<<App, On("reset_release", r)>>)
  <2> DEFINE b == On("reset_release", r)
  <2>1. App \in Calls /\ App.op = "app" /\ b \in Calls /\ b.op = "reset_release" /\ b.r = r
    BY CallFacts DEF StreamOps
  <2> HIDE DEF b
  <2>2. <<App, b>> \in Seq(Calls) /\ <<App, b>> # <<>> /\ <<App, b>>[1] = App
    BY <2>1
  <2>3. Under(App, b)
    BY <2>1 DEF Under, Releases, Guarded, Light
  <2>4. Items(<<App, b>>) = {App, b} /\ Chain(<<App, b>>)
    BY <2>3, Few
  <2>5. Calm
    BY <1>1, <1>6 DEF Calm, Onward, Active
  <2>6. parked.es # r
    BY <1>2, <1>6 DEF Points, Held, ParkedHeld
  <2>7. Owes(App)' /\ Owes(b)'
    BY <1>6, <2>1, <2>6 DEF Owes, Releases
  <2>8. Enter(<<App, b>>)
    BY <1>6 DEF b
  <2> QED BY <1>1, <2>1, <2>2, <2>4, <2>5, <2>7, <2>8, InputEnter DEF HeadOps
<1>7. CASE /\ ~req[r].isSession /\ Release(r) /\ UNCHANGED <<sess, sessionEs, agenda>>
           /\ parked' = IF parked.es = r THEN NotParked ELSE parked
  <2>1. Stacked' = {} /\ Order' /\ Owing' /\ HeadOwes' /\ \A op : ~At(op)'
    BY <1>2, <1>7 DEF Stacked, Points, Order, Owing, HeadOwes, At
  <2>2. SessionHeld'
    BY <1>1, <1>2, <1>7, ReleaseView, Typed DEF Points, Held, SessionHeld
  <2>3. parked'.es # r /\ (parked' = parked \/ parked' = NotParked)
    BY <1>2, <1>7 DEF NotParked
  <2>4. StreamsHeld' /\ ParkedHeld' /\ AnswersHeld'
    BY <1>1, <1>2, <1>4, <1>7, <2>1, <2>3, StreamReleased
  <2> QED BY <2>1, <2>2, <2>4 DEF Points, Held
<1> QED BY <1>5, <1>6, <1>7 DEF OnStreamReset

LEMMA PointsOnStreamTerminal ==
    ASSUME Inv, Points, NEW r \in Requests, OnStreamTerminal(r) PROVE Points'
<1>1. /\ Idle /\ req[r].kind = "REQUEST" /\ req[r].dead /\ Release(r)
      /\ UNCHANGED <<closed, settings, everEst, sess, sessionEs, closeRx, agenda, answered>>
      /\ parked' = IF parked.es = r THEN NotParked ELSE parked
  BY DEF OnStreamTerminal, connVars, sessVars
<1>2. /\ Stacked = {} /\ (\A op : ~At(op)) /\ (\A x : ~Going(x)) /\ (\A x : ~Refusing(x))
      /\ NoStream \notin Requests /\ req \in [Requests -> Streams]
  BY <1>1, AtRest
<1>3. NoTurn
  BY <1>2 DEF NoTurn
<1>4. ~req[r].isSession
  BY <1>1, <1>2 DEF Points, Held, StreamsHeld
<1>5. Stacked' = {} /\ Order' /\ Owing' /\ HeadOwes' /\ \A op : ~At(op)'
  BY <1>1, <1>2 DEF Stacked, Points, Order, Owing, HeadOwes, At
<1>6. SessionHeld'
  BY <1>1, <1>2, <1>4, ReleaseView, Typed DEF Points, Held, SessionHeld
<1>7. parked'.es # r /\ (parked' = parked \/ parked' = NotParked)
  BY <1>1, <1>2 DEF NotParked
<1>8. StreamsHeld' /\ ParkedHeld' /\ AnswersHeld'
  BY <1>1, <1>2, <1>3, <1>5, <1>7, StreamReleased
<1> QED BY <1>5, <1>6, <1>8 DEF Points, Held

LEMMA PointsOnStreamNativeId ==
    ASSUME Inv, Points, NEW r \in Requests, OnStreamNativeId(r) PROVE Points'
<1> DEFINE a == On("client_maybe_establish", r)
<1>1. /\ Idle /\ req[r].kind = "CONNECT" /\ req[r].idPending /\ Set(r, "idPending", FALSE)
      /\ UNCHANGED <<closed, settings, everEst, sess, sessionEs, closeRx, parked, answered>>
      /\ Enter(<<a>>) /\ UNCHANGED respOk
  BY DEF OnStreamNativeId, connVars, sessVars
<1>2. /\ Stacked = {} /\ (\A op : ~At(op)) /\ (\A x : ~Going(x)) /\ (\A x : ~Refusing(x))
      /\ NoStream \notin Requests /\ req \in [Requests -> Streams]
  BY <1>1, AtRest
<1>3. /\ a \in Calls /\ a.op = "client_maybe_establish" /\ a.r = r
  BY CallFacts DEF StreamOps
<1> HIDE DEF a
<1>4. <<a>> \in Seq(Calls) /\ <<a>> # <<>> /\ <<a>>[1] = a
  BY <1>3
<1>5. Items(<<a>>) = {a} /\ Chain(<<a>>)
  BY Few
<1>6. Order' /\ Stacked' = {a} /\ agenda' # <<>> /\ This' = a
  BY <1>1, <1>4, <1>5, FromRest
<1>7. /\ \A q \in Requests : q # r => req'[q] = req[q]
      /\ req'[r].kind = req[r].kind /\ req'[r].dead = req[r].dead
      /\ req'[r].headers = req[r].headers /\ req'[r].isSession = req[r].isSession
      /\ ~req'[r].idPending /\ req'[r].frame = req[r].frame
  BY <1>1, <1>2, SetView
<1>8. \A op : At(op)' <=> op = "client_maybe_establish"
  BY <1>3, <1>6 DEF At, This
<1>9. ~req[r].headers
  BY <1>1 DEF Points, Held, StreamsHeld
<1>10. Owing'
  <2>1. Owes(a)'
    BY <1>3 DEF Owes, Releases
  <2> QED BY <1>6, <2>1 DEF Owing
<1>11. HeadOwes'
  BY <1>1, <1>3, <1>6, <1>7, <1>8, <1>9 DEF HeadOwes
<1>12. SessionHeld'
  BY <1>1, <1>2, <1>7, Typed DEF Points, Held, SessionHeld
<1>13. StreamsHeld'
  BY <1>1, <1>2, <1>7, <1>8 DEF Points, Held, StreamsHeld
<1>14. ParkedHeld'
  BY <1>1, <1>2, <1>7, Typed DEF Points, Held, ParkedHeld
<1>15. AnswersHeld'
  <2>1. \A q \in Requests : Undecided(q)' => Undecided(q) /\ req'[q].dead = req[q].dead
    BY <1>7 DEF Undecided
  <2>2. Do("settings_latched") \notin Stacked'
    BY <1>3, <1>6, CallFacts
  <2> QED BY <1>1, <1>2, <2>1, <2>2 DEF Points, Held, AnswersHeld
<1> QED BY <1>6, <1>10, <1>11, <1>12, <1>13, <1>14, <1>15 DEF Points, Held

-----------------------------------------------------------------------------
(* Releases.                                                               *)

\* What is below a release: a delivery under way, and no other release.
LEMMA ReleaseBelow ==
    ASSUME Inv, Points, agenda # <<>>, This.op \in Releases
    PROVE  /\ \A b \in Below : b.op \in {"request_stream_bytes", "stream_bytes_end", "control_bytes"}
           /\ \A x \in Stacked : x = This \/ x \in Below
           /\ This \in Stacked /\ Below \subseteq Stacked /\ \A op : At(op) <=> This.op = op
           /\ Owes(This) /\ \A b \in Below : Owes(b)
<1>1. /\ \A b \in Below : Under(This, b)
      /\ \A x \in Stacked : x = This \/ x \in Below
      /\ This \in Stacked /\ Below \subseteq Stacked
  BY HeadView DEF Points
<1>2. \A op : At(op) <=> This.op = op
  BY HeadFacts
<1> QED BY <1>1, <1>2 DEF Under, Points, Owing

\* A delivery under way owes nothing to a stream that is gone.
LEMMA DeliveryOwes ==
    ASSUME NEW r \in Requests, NEW b \in Calls, Owes(b),
           b.op \in {"request_stream_bytes", "stream_bytes_end", "control_bytes"},
           \A q \in Requests : q # r => req'[q] = req[q],
           req'[r].kind = req[r].kind \/ req'[r].kind = "FREE",
           req'[r].idPending => req[r].idPending
    PROVE  Owes(b)'
<1>1. b.op \in StreamOps => b.r \in Requests
  BY CallFacts
<1> QED BY <1>1 DEF Owes, Releases, StreamOps

\* The release at the head returns, having released its stream.
LEMMA ReleaseReturns ==
    ASSUME Inv, Points, agenda # <<>>, This.op \in Releases, NEW r \in Requests, r = This.r,
           Release(r), NEW calls \in Seq(Calls), Then(calls),
           calls = <<>> \/ calls = <<Do("session_closed")>>,
           UNCHANGED <<closed, settings, everEst, sess, answered>>,
           parked' = parked \/ parked' = NotParked, parked'.es # r
    PROVE  /\ PointsLeft' /\ (calls # <<>> => At("session_closed")')
<1>1. /\ \A b \in Below : b.op \in {"request_stream_bytes", "stream_bytes_end", "control_bytes"}
      /\ \A x \in Stacked : x = This \/ x \in Below
      /\ This \in Stacked /\ Below \subseteq Stacked /\ \A op : At(op) <=> This.op = op
      /\ \A b \in Below : Owes(b)
  BY ReleaseBelow
<1>2. Below \subseteq Calls
  BY HeadView DEF Points
<1>3. /\ Chain(calls) /\ Items(calls) \subseteq {Do("session_closed")}
      /\ calls # <<>> => calls[1] = Do("session_closed")
  <2>1. CASE calls = <<>>
    BY <2>1, Few
  <2>2. CASE calls = <<Do("session_closed")>>
    BY <2>2, Few
  <2> QED BY <2>1, <2>2
<1>4. Do("session_closed") \in Calls /\ Do("session_closed").op = "session_closed"
  BY CallFacts DEF ConnOps
<1>5. \A a \in Items(calls) : Owes(a)' /\ \A b \in Below : Under(a, b)
  <2>1. \A b \in Below : Under(Do("session_closed"), b)
    BY <1>4, <1>1 DEF Under, Releases, Guarded
  <2>2. Owes(Do("session_closed"))'
    BY <1>4 DEF Owes, Releases
  <2> QED BY <1>3, <2>1, <2>2
<1>6. /\ Order' /\ Stacked' = Items(calls) \cup Below
      /\ calls # <<>> => agenda' # <<>> /\ This' = calls[1]
      /\ calls = <<>> => (agenda' # <<>> => This' \in Below)
  BY <1>3, <1>5, Shape DEF Points
<1>7. /\ req'[r].kind = "FREE" /\ ~req'[r].idPending
      /\ \A q \in Requests : q # r => req'[q] = req[q]
  BY ReleaseView, Typed
<1>8. Owing'
  <2>1. \A b \in Below : Owes(b)'
    BY <1>1, <1>2, <1>7, DeliveryOwes
  <2> QED BY <1>5, <1>6, <2>1 DEF Owing
<1>9. HeadOwes'
  BY <1>1, <1>3, <1>4, <1>6, NoHead DEF HeadOps
<1>10. NoTurn
  BY <1>1 DEF NoTurn, Turns, Releases
<1>11. \A x \in Stacked : /\ x.op \notin {"mark_dead", "establish_unless_closed",
                                          "settings_latched", "parked_request_cancel"}
                          /\ x.op \in {"request_stream_failed", "fin_release"} => x.r = r
  BY <1>1 DEF Releases
<1>12. Do("settings_latched") \notin Stacked'
  BY <1>1, <1>3, <1>4, <1>6, CallFacts
<1>13. StreamsHeld' /\ ParkedHeld' /\ AnswersHeld'
  BY <1>10, <1>11, <1>12, StreamReleased
<1>14. calls # <<>> => At("session_closed")'
  BY <1>3, <1>4, <1>6 DEF At, This
<1> QED BY <1>6, <1>8, <1>9, <1>13, <1>14 DEF PointsLeft

\* The stream of a release at the head.
LEMMA HeadStream ==
    ASSUME Inv, agenda # <<>>, This.op \in StreamOps
    PROVE  This.r \in Requests
  BY AtStream DEF Inv, TypeOK, At, This

LEMMA PointsFinRelease ==
    ASSUME Inv, Points, FinRelease PROVE Points'
<1>1. agenda # <<>> /\ This.op = "fin_release"
  BY DEF FinRelease, At, This
<1>2. PICK r \in Requests : r = This.r
  BY <1>1, HeadStream DEF StreamOps
<1>3. /\ Release(r) /\ Then(<<>>) /\ sessionEs' = IF sessionEs = r THEN NoStream ELSE sessionEs
      /\ UNCHANGED <<closed, settings, everEst, sess, closeRx, parked, answered>>
  BY <1>2 DEF FinRelease, ForgetSessionEs, connVars, Release, Then
<1>4. /\ Owes(This) /\ \A op : At(op) <=> This.op = op
  BY <1>1, ReleaseBelow DEF Releases
<1>5. parked.es # r /\ sessionEs # r
  BY <1>1, <1>2, <1>4 DEF Owes
<1>6. PointsLeft'
  BY <1>1, <1>2, <1>3, <1>5, ReleaseReturns, QuickFew DEF Releases
<1>7. SessionHeld'
  BY <1>1, <1>3, <1>4, <1>5, ReleaseView, Typed DEF Points, Held, SessionHeld
<1> QED BY <1>6, <1>7 DEF PointsLeft, Points, Held

LEMMA PointsResetRelease ==
    ASSUME Inv, Points, ResetRelease PROVE Points'
<1>1. agenda # <<>> /\ This.op = "reset_release"
  BY DEF ResetRelease, At, This
<1>2. PICK r \in Requests : r = This.r
  BY <1>1, HeadStream DEF StreamOps
<1>3. /\ Release(r) /\ Then(<<>>)
      /\ UNCHANGED <<closed, settings, everEst, sess, sessionEs, closeRx, parked, answered>>
  BY <1>2 DEF ResetRelease, connVars, sessVars, Release, Then
<1>4. /\ Owes(This) /\ \A op : At(op) <=> This.op = op
      /\ Do("parked_request_cancel") \notin Stacked
  BY <1>1, ReleaseBelow, CallFacts DEF Releases
<1>5. parked.es # r /\ sessionEs # r
  BY <1>1, <1>2, <1>4, NoStreamIsNone DEF Owes, Points, Held, SessionHeld
<1>6. PointsLeft'
  BY <1>1, <1>2, <1>3, <1>5, ReleaseReturns, QuickFew DEF Releases
<1>7. SessionHeld'
  BY <1>1, <1>3, <1>4, <1>5, ReleaseView, Typed DEF Points, Held, SessionHeld
<1> QED BY <1>6, <1>7 DEF PointsLeft, Points, Held

LEMMA PointsSessionStreamPoisoned ==
    ASSUME Inv, Points, SessionStreamPoisoned PROVE Points'
<1>1. agenda # <<>> /\ This.op = "session_stream_poisoned"
  BY DEF SessionStreamPoisoned, At, This
<1>2. PICK r \in Requests : r = This.r
  BY <1>1, HeadStream DEF StreamOps
<1>3. /\ Release(r) /\ Then(<<>>) /\ sessionEs' = IF sessionEs = r THEN NoStream ELSE sessionEs
      /\ UNCHANGED <<closed, settings, everEst, sess, closeRx, parked, answered>>
  BY <1>2 DEF SessionStreamPoisoned, ForgetSessionEs, connVars, Release, Then
<1>4. /\ Owes(This) /\ \A op : At(op) <=> This.op = op
  BY <1>1, ReleaseBelow DEF Releases
<1>5. req[r].isSession /\ closeRx
  BY <1>1, <1>2, <1>4 DEF Owes
<1>6. parked.es # r
  BY <1>5, NoStreamIsNone DEF Points, Held, ParkedHeld
<1>7. PointsLeft'
  BY <1>1, <1>2, <1>3, <1>6, ReleaseReturns, QuickFew DEF Releases
<1>8. sess = "CLOSED" /\ everEst
  BY <1>1, <1>4, <1>5 DEF Points, Held, SessionHeld
<1>9. SessionHeld'
  BY <1>1, <1>3, <1>4, <1>8, CalmFacts, ReleaseView, Typed DEF Points, Held, SessionHeld
<1> QED BY <1>7, <1>9 DEF PointsLeft, Points, Held

LEMMA PointsRequestStreamFailed ==
    ASSUME Inv, Points, RequestStreamFailed PROVE Points'
<1>1. agenda # <<>> /\ This.op = "request_stream_failed"
  BY DEF RequestStreamFailed, At, This
<1>2. PICK r \in Requests : r = This.r
  BY <1>1, HeadStream DEF StreamOps
<1>3. /\ UNCHANGED <<closed, settings, everEst, sess, closeRx, answered>>
      /\ parked' = IF parked.es = r THEN NotParked ELSE parked
      /\ \/ /\ req[r].isSession /\ Release(r) /\ Then(<<Do("session_closed")>>)
            /\ sessionEs' = IF sessionEs = r THEN NoStream ELSE sessionEs
         \/ /\ ~req[r].isSession /\ Then(<<>>) /\ UNCHANGED <<sessionEs, req>>
  BY <1>2 DEF RequestStreamFailed, ForgetSessionEs, connVars, Release, Then
<1>4. /\ Owes(This) /\ (\A op : At(op) <=> This.op = op)
      /\ \A b \in Below : b.op \in {"request_stream_bytes", "stream_bytes_end", "control_bytes"}
      /\ \A x \in Stacked : x = This \/ x \in Below
      /\ \A b \in Below : Owes(b)
  BY <1>1, ReleaseBelow DEF Releases
<1>5. parked'.es # r /\ (parked' = parked \/ parked' = NotParked)
  BY <1>3, NoStreamIsNone DEF NotParked
<1>6. CASE req[r].isSession /\ Release(r) /\ Then(<<Do("session_closed")>>)
           /\ sessionEs' = IF sessionEs = r THEN NoStream ELSE sessionEs
  <2>1. <<Do("session_closed")>> \in Seq(Calls) /\ <<Do("session_closed")>> # <<>>
    BY QuickFew DEF Quick
  <2>2. PointsLeft' /\ At("session_closed")'
    BY <1>1, <1>2, <1>3, <1>5, <1>6, <2>1, ReleaseReturns DEF Releases
  <2>3. SessionHeld'
    BY <1>1, <1>3, <1>4, <1>6, <2>2, ReleaseView, Typed DEF Points, Held, SessionHeld
  <2> QED BY <2>2, <2>3 DEF PointsLeft, Points, Held
<1>7. CASE ~req[r].isSession /\ Then(<<>>) /\ UNCHANGED <<sessionEs, req>>
  <2>1. /\ Order' /\ Stacked' = Below /\ (agenda' # <<>> => This' \in Below)
    BY <1>1, <1>7, Few, QuickFew, Shape DEF Points
  <2>2. Below \subseteq Calls
    BY HeadView, <1>1 DEF Points
  <2>3. Owing'
    <3>1. \A b \in Below : Owes(b)'
      BY <1>4, <1>7 DEF Owes, Releases
    <3> QED BY <2>1, <3>1 DEF Owing
  <2>4. HeadOwes'
    BY <1>4, <2>1, NoHead DEF HeadOps
  <2>5. SessionHeld'
    BY <1>1, <1>3, <1>4, <1>7 DEF Points, Held, SessionHeld
  <2>6. \A q \in Requests : q # r => ~Going(q) /\ ~Refusing(q)
    BY <1>1, <1>2, <1>4, CallFacts DEF Going, Refusing
  <2>7. StreamsHeld'
    BY <1>1, <1>3, <1>4, <1>7, <2>6 DEF Points, Held, StreamsHeld
  <2>8. /\ Do("settings_latched") \notin Stacked
        /\ \A q : On("mark_dead", q) \notin Stacked /\ On("establish_unless_closed", q) \notin Stacked
    BY <1>1, <1>4, CallFacts
  <2>9. ParkedHeld'
    BY <1>3, <1>5, <1>7, <2>6, <2>8, Typed DEF Points, Held, ParkedHeld, NotParked
  <2>10. AnswersHeld'
    <3>1. Do("settings_latched") \notin Stacked'
      BY <1>4, <2>1, CallFacts
    <3> QED BY <1>1, <1>3, <1>4, <1>7, <2>8, <3>1 DEF Points, Held, AnswersHeld, Undecided
  <2> QED BY <2>1, <2>3, <2>4, <2>5, <2>7, <2>9, <2>10 DEF Points, Held
<1> QED BY <1>3, <1>6, <1>7

LEMMA PointsParkedRequestCancel ==
    ASSUME Inv, Points, ParkedRequestCancel PROVE Points'
<1>1. agenda # <<>> /\ This.op = "parked_request_cancel"
  BY DEF ParkedRequestCancel, At, This
<1>2. /\ UNCHANGED <<closed, settings, everEst, sess, sessionEs, closeRx, req, answered>>
      /\ parked' = NotParked /\ Then(<<>>)
  BY DEF ParkedRequestCancel, connVars, sessVars
<1>3. /\ \A b \in Below : b.op \in {"reset_release", "stream_bytes_end"} /\ Owes(b)
      /\ \A x \in Stacked : x = This \/ x \in Below
      /\ Below \subseteq Calls
  BY <1>1, HeadView DEF Points, Under, Owing
<1>4. \A op : At(op) <=> This.op = op
  BY <1>1, HeadFacts
<1>5. /\ Order' /\ Stacked' = Below /\ (agenda' # <<>> => This' \in Below)
  BY <1>1, <1>2, Few, QuickFew, Shape DEF Points
<1>6. parked'.es = NoStream
  BY <1>2 DEF NotParked
<1>7. Owing'
  <2>1. ASSUME NEW b \in Below PROVE Owes(b)'
    <3>1. b.op \in StreamOps => b.r \in Requests
      BY <1>3, CallFacts
    <3> QED BY <1>2, <1>3, <1>6, <3>1, NoStreamIsNone DEF Owes, Releases, StreamOps
  <2> QED BY <1>5, <2>1 DEF Owing
<1>8. HeadOwes'
  BY <1>3, <1>5, NoHead DEF HeadOps
<1>9. SessionHeld'
  BY <1>1, <1>2, <1>4 DEF Points, Held, SessionHeld
<1>10. \A q : ~Going(q) /\ On("mark_dead", q) \notin Stacked /\ On("establish_unless_closed", q) \notin Stacked
  BY <1>1, <1>3, CallFacts DEF Going
<1>11. StreamsHeld'
  BY <1>1, <1>2, <1>4, <1>10 DEF Points, Held, StreamsHeld
<1>12. ParkedHeld'
  BY <1>6 DEF ParkedHeld
<1>13. AnswersHeld'
  <2>1. Do("settings_latched") \notin Stacked'
    BY <1>3, <1>5, CallFacts
  <2> QED BY <1>1, <1>2, <1>4, <1>10, <2>1 DEF Points, Held, AnswersHeld, Undecided
<1> QED BY <1>5, <1>7, <1>8, <1>9, <1>11, <1>12, <1>13 DEF Points, Held

-----------------------------------------------------------------------------
(* Answers.                                                                *)

\* A return into quick calls, whatever else the step changes.
LEMMA QuickShape ==
    ASSUME Inv, Points, agenda # <<>>, NEW calls \in Seq(Calls), Then(calls),
           \A a \in Items(calls) : a.op \in Quick
    PROVE  /\ Order' /\ HeadOwes' /\ Stacked' = Items(calls) \cup Below
           /\ \A a \in Items(calls) : Owes(a)' /\ a.op \notin Relied /\ a.op # "settings_latched"
           /\ Below \subseteq Stacked /\ Below \subseteq Calls
           /\ \A x \in Stacked : x = This \/ x \in Below
           /\ \A op : At(op) <=> This.op = op
           /\ This.op \notin Relied => Leaves(Items(calls), Below)
           /\ \A op : At(op)' => op \notin HeadOps
<1>1. /\ Below \subseteq Stacked /\ Stacked \subseteq Calls
      /\ \A x \in Stacked : x = This \/ x \in Below
      /\ \A b \in Below : b.op \notin HeadOps
  BY HeadView DEF Points, HeadOps, HeadOnly
<1>2. /\ Chain(calls) /\ Items(calls) \subseteq Calls
      /\ calls # <<>> => calls[1].op \in Quick
  BY QuickChain
<1>3. \A a \in Items(calls) : /\ \A b \in Below : Under(a, b)
                              /\ Owes(a)' /\ a.op \notin Relied /\ a.op # "settings_latched"
  BY <1>1, <1>2, QuickFits
<1>4. /\ Order' /\ Stacked' = Items(calls) \cup Below
      /\ calls # <<>> => agenda' # <<>> /\ This' = calls[1]
      /\ calls = <<>> => (agenda' # <<>> => This' \in Below)
  BY <1>2, <1>3, Shape DEF Points
<1>5. agenda' # <<>> => This'.op \notin HeadOps
  BY <1>1, <1>2, <1>4 DEF Quick, HeadOps
<1>6. \A op : At(op)' => op \notin HeadOps
  BY <1>5 DEF At, This
<1> QED BY <1>1, <1>3, <1>4, <1>5, <1>6, NoHead, HeadFacts DEF Leaves

LEMMA PointsShutdownRaw ==
    ASSUME Inv, Points, ShutdownRaw PROVE Points'
<1>1. agenda # <<>> /\ This.op = "shutdown_raw" /\ At("shutdown_raw")
  BY DEF ShutdownRaw, At, This
<1>2. PICK r \in Requests : r = This.r
  BY <1>1, HeadStream DEF StreamOps
<1>3. /\ UNCHANGED <<closed, settings, everEst, sess, sessionEs, closeRx, parked, req>>
      /\ Then(<<>>) \/ Then(<<Do("conn_fatal")>>)
      /\ answered' = [answered EXCEPT ![r] = IF @ = "nothing" THEN "reset" ELSE @]
  BY <1>2 DEF ShutdownRaw, connVars, sessVars
<1>4. /\ \A q \in Requests : q # r => answered'[q] = answered[q]
      /\ answered'[r] = "200" => answered[r] = "200"
  BY <1>3, Typed
<1>5. PICK calls \in Seq(Calls) : Then(calls) /\ \A a \in Items(calls) : a.op \in Quick
  BY <1>3, QuickFew DEF Quick
<1>6. /\ Order' /\ HeadOwes' /\ Stacked' = Items(calls) \cup Below
      /\ \A a \in Items(calls) : Owes(a)' /\ a.op \notin Relied /\ a.op # "settings_latched"
      /\ Below \subseteq Stacked /\ Below \subseteq Calls
      /\ \A x \in Stacked : x = This \/ x \in Below
      /\ \A op : At(op) <=> This.op = op
      /\ Leaves(Items(calls), Below)
  BY <1>1, <1>5, QuickShape DEF Relied
<1>7. Onward /\ NoTurn /\ Same
  BY <1>1, <1>3, <1>6 DEF Onward, NoTurn, Turns, Same, Points, Held, StreamsHeld
<1>8. Owing'
  <2>1. \A b \in Below : Owes(b)'
    BY <1>3, <1>6, <1>7, StillOwes DEF Points, NoTurn, Turns
  <2> QED BY <1>6, <2>1 DEF Owing
<1>9. Owes(This)
  BY <1>1, HeadView DEF Points, Owing
<1>10. SessionHeld'
  BY <1>1, <1>3, <1>6, <1>7, SessionStays DEF Points, Held
<1>11. StreamsHeld'
  BY <1>6, <1>7, StreamsStay DEF Points, Held
<1>12. ParkedHeld'
  <2>1. parked.es # NoStream => answered'[parked.es] = answered[parked.es] \/ Refusing(parked.es)
    BY <1>1, <1>2, <1>4, <1>9, Typed DEF Owes
  <2> QED BY <1>3, <1>6, <2>1, ParkedStays DEF Points, Held
<1>13. AnswersHeld'
  <2>1. /\ \A q : On("mark_dead", q) \in Stacked => On("mark_dead", q) \in Stacked'
        /\ \A q : On("establish_unless_closed", q) \in Stacked
                    => On("establish_unless_closed", q) \in Stacked'
    BY <1>1, <1>6, CallFacts
  <2>2. Do("settings_latched") \in Stacked' => Do("settings_latched") \in Stacked
    BY <1>6, CallFacts
  <2>3. Undecided(r) => req[r].dead \/ On("mark_dead", r) \in Stacked
    BY <1>1, <1>2, <1>9 DEF Owes, Undecided
  <2>4. ~At("session_established")
    BY <1>1, <1>6
  <2>5. \A q \in Requests : Undecided(q)' => Undecided(q)
    BY <1>3 DEF Undecided
  <2> QED BY <1>3, <1>4, <2>1, <2>2, <2>3, <2>4, <2>5 DEF Points, Held, AnswersHeld, NoneAccepted
<1> QED BY <1>6, <1>8, <1>10, <1>11, <1>12, <1>13 DEF Points, Held

LEMMA PointsServerSendResponse ==
    ASSUME Inv, Points, ServerSendResponse PROVE Points'
<1>1. agenda # <<>> /\ This.op \in {"send_error", "send_200"}
  BY DEF ServerSendResponse, At, This
<1>2. PICK r \in Requests : r = This.r
  BY <1>1, HeadStream DEF StreamOps
<1>3. /\ UNCHANGED <<closed, settings, everEst, sess, sessionEs, closeRx, parked, req>>
      /\ Then(<<>>) \/ Then(<<Do("conn_fatal")>>)
      /\ answered' = [answered EXCEPT ![r] = IF At("send_200") THEN "200" ELSE "error"]
  BY <1>2 DEF ServerSendResponse, connVars, sessVars
<1>4. /\ \A q \in Requests : q # r => answered'[q] = answered[q]
      /\ answered'[r] = "200" => At("send_200")
  BY <1>3, Typed
<1>5. PICK calls \in Seq(Calls) : Then(calls) /\ \A a \in Items(calls) : a.op \in Quick
  BY <1>3, QuickFew DEF Quick
<1>6. /\ Order' /\ HeadOwes' /\ Stacked' = Items(calls) \cup Below
      /\ \A a \in Items(calls) : Owes(a)' /\ a.op \notin Relied /\ a.op # "settings_latched"
      /\ Below \subseteq Stacked /\ Below \subseteq Calls
      /\ \A x \in Stacked : x = This \/ x \in Below
      /\ \A op : At(op) <=> This.op = op
      /\ Leaves(Items(calls), Below)
  BY <1>1, <1>5, QuickShape DEF Relied
<1>7. Onward /\ NoTurn /\ Same
  BY <1>1, <1>3, <1>6 DEF Onward, NoTurn, Turns, Same, Points, Held, StreamsHeld
<1>8. Owing'
  <2>1. \A b \in Below : Owes(b)'
    BY <1>3, <1>6, <1>7, StillOwes DEF Points, NoTurn, Turns
  <2> QED BY <1>6, <2>1 DEF Owing
<1>9. /\ settings # "none" /\ req[r].kind = "REQUEST" /\ req[r].headers /\ parked.es # r
      /\ At("send_200") => /\ settings = "wt" /\ NoneAccepted
                           /\ On("establish_unless_closed", r) \in Stacked
  BY <1>1, <1>2, <1>6 DEF Points, HeadOwes
<1>10. SessionHeld'
  BY <1>1, <1>3, <1>6, <1>7, SessionStays DEF Points, Held
<1>11. StreamsHeld'
  BY <1>6, <1>7, StreamsStay DEF Points, Held
<1>12. ParkedHeld'
  <2>1. parked.es # NoStream => answered'[parked.es] = answered[parked.es]
    BY <1>4, <1>9, Typed
  <2> QED BY <1>3, <1>6, <2>1, ParkedStays DEF Points, Held
<1>13. AnswersHeld'
  <2>1. /\ \A q : On("mark_dead", q) \in Stacked => On("mark_dead", q) \in Stacked'
        /\ \A q : On("establish_unless_closed", q) \in Stacked
                    => On("establish_unless_closed", q) \in Stacked'
    BY <1>1, <1>6, CallFacts
  <2>2. Do("settings_latched") \in Stacked' => Do("settings_latched") \in Stacked /\ At("send_error")
    <3>1. \A b \in Below : b.op = "settings_latched" => This.op # "send_200"
      BY <1>1, HeadView DEF Points, Under, Guarded, Light
    <3> QED BY <1>1, <1>6, <3>1, CallFacts
  <2>3. ~Undecided(r) /\ \A q \in Requests : Undecided(q)' => Undecided(q)
    BY <1>3, <1>9 DEF Undecided
  <2>4. ~At("session_established") /\ (At("send_error") => ~At("send_200"))
    BY <1>1, <1>6
  <2>5. \A q \in Requests : Undecided(q)' => answered'[q] = "nothing" \/ req'[q].dead
                                              \/ On("mark_dead", q) \in Stacked'
    BY <1>3, <1>4, <2>1, <2>3 DEF Points, Held, AnswersHeld
  <2>6. \A q \in Requests : answered'[q] = "200" =>
          /\ settings' = "wt"
          /\ everEst' \/ closed' \/ On("establish_unless_closed", q) \in Stacked'
    BY <1>3, <1>4, <1>9, <2>1, <2>4 DEF Points, Held, AnswersHeld
  <2>7. Do("settings_latched") \in Stacked' => NoneAccepted'
    BY <1>4, <2>2, <2>4 DEF Points, Held, AnswersHeld, NoneAccepted
  <2> QED BY <2>5, <2>6, <2>7 DEF AnswersHeld
<1> QED BY <1>6, <1>8, <1>10, <1>11, <1>12, <1>13 DEF Points, Held

LEMMA PointsMarkDead ==
    ASSUME Inv, Points, MarkDead PROVE Points'
<1>1. agenda # <<>> /\ This.op = "mark_dead"
  BY DEF MarkDead, At, This
<1>2. PICK r \in Requests : r = This.r
  BY <1>1, HeadStream DEF StreamOps
<1>3. /\ UNCHANGED <<closed, settings, everEst, sess, sessionEs, closeRx, parked, answered>>
      /\ Then(<<>>) /\ Set(r, "dead", TRUE)
  BY <1>2 DEF MarkDead, connVars, sessVars, Set, Then
<1>4. /\ \A q \in Requests : q # r => req'[q] = req[q]
      /\ req'[r].kind = req[r].kind /\ req'[r].headers = req[r].headers
      /\ req'[r].isSession = req[r].isSession /\ req'[r].idPending = req[r].idPending
      /\ req'[r].frame = req[r].frame /\ req'[r].dead
  BY <1>3, Typed, SetView
<1>5. /\ Order' /\ HeadOwes' /\ Stacked' = Below
      /\ Below \subseteq Stacked /\ Below \subseteq Calls
      /\ \A x \in Stacked : x = This \/ x \in Below
      /\ \A op : At(op) <=> This.op = op
  BY <1>1, <1>3, QuickFew, QuickShape
<1>6. /\ \A q : Going(q) => Going(q)'
      /\ \A q : Refusing(q) => Refusing(q)'
      /\ \A q : q # r /\ On("mark_dead", q) \in Stacked => On("mark_dead", q) \in Stacked'
      /\ Do("parked_request_cancel") \in Stacked => Do("parked_request_cancel") \in Stacked'
      /\ Do("settings_latched") \in Stacked <=> Do("settings_latched") \in Stacked'
      /\ \A q : On("establish_unless_closed", q) \in Stacked => On("establish_unless_closed", q) \in Stacked'
  BY <1>1, <1>2, <1>5, CallFacts DEF Going, Refusing
<1>7. Owes(This)
  BY <1>1, HeadView DEF Points, Owing
<1>8. \A b \in Below : b.op = "establish_unless_closed" => closed
  <2>1. \A k \in 2..Len(agenda) : Apart(closed, This, agenda[k])
    BY <1>1, HeadFacts DEF Over
  <2> QED BY <1>1, <2>1 DEF Below, Apart
<1>9. Owing'
  <2> SUFFICES ASSUME NEW b \in Below PROVE Owes(b)'
    BY <1>5 DEF Owing
  <2>1. Owes(b)
    BY <1>5 DEF Points, Owing
  <2>2. b.op = "fin_release" => sessionEs # b.r
    BY <1>1, <1>5, <2>1 DEF Owes
  <2>3. CASE b.op \in StreamOps
    <3>1. b.r \in Requests
      BY <1>5, <2>3, CallFacts
    <3>2. /\ req'[b.r].kind = req[b.r].kind /\ req'[b.r].headers = req[b.r].headers
          /\ req'[b.r].isSession = req[b.r].isSession /\ req'[b.r].idPending = req[b.r].idPending
          /\ req[b.r].dead => req'[b.r].dead
          /\ b.r # r => req'[b.r].dead = req[b.r].dead
          /\ On("mark_dead", b.r) \in Stacked => req'[b.r].dead \/ On("mark_dead", b.r) \in Stacked'
      BY <1>4, <1>6, <3>1
    <3> HIDE DEF Going, Refusing
    <3> QED BY <1>3, <1>6, <1>8, <2>1, <2>2, <3>2 DEF Owes
  <2>4. CASE b.op \notin StreamOps
    BY <1>3, <2>1, <2>4 DEF Owes, StreamOps, Releases
  <2> QED BY <2>3, <2>4
<1>10. SessionHeld'
  BY <1>1, <1>3, <1>4, <1>5, Typed DEF Points, Held, SessionHeld
<1>11. StreamsHeld'
  <2>1. /\ req[r].kind # "UNOPENED" /\ (req[r].kind = "CONNECT" => sess # "SENT")
        /\ req[r].isSession => Going(r)
    BY <1>1, <1>2, <1>7 DEF Owes
  <2>2. ~At("client_response_done") /\ ~At("client_maybe_establish") /\ ~At("session_established")
    BY <1>1, <1>5
  <2> QED BY <1>3, <1>4, <1>6, <2>1, <2>2 DEF Points, Held, StreamsHeld
<1>12. ParkedHeld'
  <2>1. parked.es = r => Refusing(r)
    BY <1>1, <1>2, <1>7 DEF Owes
  <2> QED BY <1>3, <1>4, <1>6, <2>1, Typed DEF Points, Held, ParkedHeld
<1>13. AnswersHeld'
  <2>1. \A q \in Requests : Undecided(q)' => Undecided(q) /\ (q # r => req'[q].dead = req[q].dead)
    BY <1>4 DEF Undecided
  <2>2. ~At("session_established")
    BY <1>1, <1>5
  <2> QED BY <1>3, <1>4, <1>6, <2>1, <2>2 DEF Points, Held, AnswersHeld, NoneAccepted
<1> QED BY <1>5, <1>9, <1>10, <1>11, <1>12, <1>13 DEF Points, Held

\* A calm return into one or two calls.
LEMMA OneReturn ==
    ASSUME Inv, Points, agenda # <<>>, Calm, NEW a \in Calls, Then(<<a>>),
           This.op \notin Relied \cup Turns \cup {"conn_fatal", "session_closed"},
           This.op = "establish_unless_closed" => closed' \/ a.op = "session_established",
           \A x \in Below : Under(a, x), a.op # "settings_latched",
           Stacked' = {a} \cup Below /\ This' = a /\ (\A op : At(op)' <=> a.op = op)
             => Owes(a)' /\ (a.op \notin HeadOps \/ HeadOwes')
    PROVE  Points'
<1>1. <<a>> \in Seq(Calls) /\ <<a>> # <<>> /\ <<a>>[1] = a
  OBVIOUS
<1>2. Items(<<a>>) = {a} /\ Chain(<<a>>)
  BY Few
<1>3. Stacked' = {a} \cup Below /\ agenda' # <<>> /\ This' = a
  BY <1>1, <1>2, Shape DEF Points
<1>4. \A op : At(op)' <=> a.op = op
  BY <1>3 DEF At, This
<1>5. Owes(a)' /\ (a.op \notin HeadOps \/ HeadOwes')
  BY <1>3, <1>4
<1> QED BY <1>1, <1>2, <1>4, <1>5, CalmReturn

LEMMA PairReturn ==
    ASSUME Inv, Points, agenda # <<>>, Calm, NEW a \in Calls, NEW b \in Calls, Then(<<a, b>>),
           This.op \notin Relied \cup Turns \cup {"conn_fatal", "session_closed",
                                                  "establish_unless_closed"},
           Under(a, b), \A x \in Below : Under(a, x) /\ Under(b, x),
           a.op # "settings_latched", b.op # "settings_latched",
           Stacked' = {a, b} \cup Below /\ This' = a /\ (\A op : At(op)' <=> a.op = op)
             => Owes(a)' /\ Owes(b)' /\ (a.op \notin HeadOps \/ HeadOwes')
    PROVE  Points'
<1>1. <<a, b>> \in Seq(Calls) /\ <<a, b>> # <<>> /\ <<a, b>>[1] = a
  OBVIOUS
<1>2. Items(<<a, b>>) = {a, b} /\ Chain(<<a, b>>)
  BY Few
<1>3. Stacked' = {a, b} \cup Below /\ agenda' # <<>> /\ This' = a
  BY <1>1, <1>2, Shape DEF Points
<1>4. \A op : At(op)' <=> a.op = op
  BY <1>3 DEF At, This
<1>5. Owes(a)' /\ Owes(b)' /\ (a.op \notin HeadOps \/ HeadOwes')
  BY <1>3, <1>4
<1> QED BY <1>1, <1>2, <1>5, CalmReturn

\* Calls that start new work have nothing waiting below that is Guarded.
LEMMA NotGuarded ==
    ASSUME Inv, Points, agenda # <<>>, This.op \notin Light
    PROVE  \A b \in Below : b \in Calls /\ b \in Stacked /\ b.op \notin Guarded
  BY HeadView DEF Points, Under

LEMMA PointsServerRequestDone ==
    ASSUME Inv, Points, ServerRequestDone PROVE Points'
<1>1. agenda # <<>> /\ This.op = "server_request_done" /\ At("server_request_done")
  BY DEF ServerRequestDone, At, This
<1>2. PICK r \in Requests : r = This.r
  BY <1>1, HeadStream DEF StreamOps
<1>3. /\ req[r].kind = "REQUEST" /\ req[r].headers /\ ~req[r].dead
      /\ ~req[r].isSession /\ parked.es # r
      /\ answered[r] = "nothing" /\ (everEst \/ NoneAccepted)
  BY <1>1, <1>2 DEF Points, HeadOwes
<1>4. \A b \in Below : b \in Calls /\ b \in Stacked /\ b.op \notin Guarded
  BY <1>1, NotGuarded DEF Light
<1>5. UNCHANGED <<closed, settings, everEst, sess, sessionEs, closeRx, req, answered>>
  BY DEF ServerRequestDone, connVars, sessVars
<1>6. ASSUME UNCHANGED parked, Then(Refuse(r)) PROVE Points'
  <2> DEFINE a == On("shutdown_raw", r)  b == On("mark_dead", r)
  <2>1. a \in Calls /\ a.op = "shutdown_raw" /\ b \in Calls /\ b.op = "mark_dead"
    BY CallFacts DEF StreamOps
  <2>2. Then(<<a, b>>)
    BY <1>6 DEF Refuse
  <2>3. ASSUME Stacked' = {a, b} \cup Below PROVE Owes(a)' /\ Owes(b)'
    BY <1>3, <1>5, <1>6, <2>3, RefuseOwes
  <2> HIDE DEF a, b
  <2>4. Under(a, b) /\ \A x \in Below : Under(a, x) /\ Under(b, x)
    BY <2>1 DEF Under, Releases, Guarded, Light
  <2>5. Calm
    BY <1>5, <1>6 DEF Calm, Onward
  <2> QED BY <1>1, <2>1, <2>2, <2>3, <2>4, <2>5, PairReturn DEF Relied, Turns, HeadOps
<1>7. ASSUME UNCHANGED parked, Then(Respond(r)), settings # "none" PROVE Points'
  <2> DEFINE a == On("send_error", r)  b == On("mark_dead", r)
  <2>1. /\ a \in Calls /\ a.op = "send_error" /\ a.r = r
        /\ b \in Calls /\ b.op = "mark_dead" /\ b.r = r
    BY CallFacts DEF StreamOps
  <2>2. Then(<<a, b>>)
    BY <1>7 DEF Respond
  <2> HIDE DEF a, b
  <2>3. ASSUME This' = a, \A op : At(op)' <=> a.op = op PROVE Owes(a)' /\ Owes(b)' /\ HeadOwes'
    <3>1. HeadOwes'
      BY <1>3, <1>5, <1>7, <2>1, <2>3 DEF HeadOwes
    <3>2. Owes(a)'
      BY <2>1 DEF Owes, Releases
    <3>3. Owes(b)'
      BY <1>3, <1>5, <1>7, <2>1 DEF Owes, Releases
    <3> QED BY <3>1, <3>2, <3>3
  <2>4. Under(a, b) /\ \A x \in Below : Under(a, x) /\ Under(b, x)
    BY <2>1 DEF Under, Releases, Guarded, Light
  <2>5. Calm
    BY <1>5, <1>7 DEF Calm, Onward
  <2> QED BY <1>1, <2>1, <2>2, <2>3, <2>4, <2>5, PairReturn DEF Relied, Turns
<1>8. ASSUME UNCHANGED parked, Then(Accept(r)), settings = "wt", ~everEst PROVE Points'
  <2> DEFINE a == On("send_200", r)  b == On("establish_unless_closed", r)
  <2>1. /\ a \in Calls /\ a.op = "send_200" /\ a.r = r
        /\ b \in Calls /\ b.op = "establish_unless_closed" /\ b.r = r
    BY CallFacts DEF StreamOps
  <2>2. Then(<<a, b>>)
    BY <1>8 DEF Accept
  <2>3. ASSUME Stacked' = {a, b} \cup Below, This' = a, \A op : At(op)' <=> a.op = op
        PROVE  Owes(a)' /\ Owes(b)' /\ HeadOwes'
    <3>1. On("establish_unless_closed", r) \in Stacked'
      BY <2>3
    <3> HIDE DEF a, b
    <3>2. HeadOwes'
      BY <1>3, <1>5, <1>8, <2>1, <2>3, <3>1 DEF HeadOwes, NoneAccepted
    <3>3. Owes(a)'
      BY <2>1 DEF Owes, Releases
    <3>4. Owes(b)'
      BY <1>3, <1>5, <1>8, <2>1 DEF Owes, Releases
    <3> QED BY <3>2, <3>3, <3>4
  <2> HIDE DEF a, b
  <2>4. Under(a, b) /\ \A x \in Below : Under(a, x) /\ Under(b, x)
    BY <1>4, <2>1 DEF Under, Releases, Guarded
  <2>5. Calm
    BY <1>5, <1>8 DEF Calm, Onward
  <2> QED BY <1>1, <2>1, <2>2, <2>3, <2>4, <2>5, PairReturn DEF Relied, Turns
<1>9. ASSUME UNCHANGED parked, Then(<<Do("conn_fatal")>>) PROVE Points'
  <2>1. Calm
    BY <1>5, <1>9 DEF Calm, Onward
  <2> QED BY <1>1, <1>9, <2>1, QuickFew, QuickReturn DEF Relied, Turns, Quick
<1>10. ASSUME settings = "none", parked.es = NoStream, parked' = [es |-> r, fin |-> FALSE],
              Then(<<>>)
       PROVE  Points'
  <2>1. /\ Order' /\ HeadOwes' /\ Stacked' = Below
        /\ \A x \in Stacked : x = This \/ x \in Below
        /\ \A op : At(op) <=> This.op = op
        /\ Leaves({}, Below)
    BY <1>1, <1>10, QuickFew, QuickShape DEF Relied
  <2>2. parked'.es = r
    BY <1>10
  <2>3. Owing'
    <3> SUFFICES ASSUME NEW b \in Below PROVE Owes(b)'
      BY <2>1 DEF Owing
    <3>1. Owes(b) /\ b.op \notin Guarded
      BY <1>4 DEF Points, Owing
    <3>2. b.op = "deferred_fin" => FALSE
      BY <1>10, <3>1 DEF Owes
    <3>3. b.op = "establish_unless_closed" => closed
      <4>1. \A k \in 2..Len(agenda) : Apart(closed, This, agenda[k])
        BY <1>1, HeadFacts DEF Over
      <4> QED BY <1>1, <4>1 DEF Below, Apart
    <3> QED BY <1>5, <3>1, <3>2, <3>3 DEF Owes, Guarded, Releases
  <2>4. SessionHeld'
    BY <1>1, <1>5, <2>1 DEF Points, Held, SessionHeld
  <2>5. NoTurn /\ Onward /\ Same
    BY <1>1, <1>5, <2>1 DEF NoTurn, Turns, Onward, Same, Points, Held, StreamsHeld
  <2>6. StreamsHeld'
    BY <2>1, <2>5, StreamsStay DEF Points, Held
  <2>7. ParkedHeld'
    BY <1>3, <1>5, <1>10, <2>2 DEF ParkedHeld
  <2>8. AnswersHeld'
    <3>1. \A x : On("mark_dead", x) \in Stacked => On("mark_dead", x) \in Stacked'
      BY <1>1, <2>1, CallFacts
    <3>2. \A x : On("establish_unless_closed", x) \in Stacked => On("establish_unless_closed", x) \in Stacked'
      BY <1>1, <2>1, CallFacts
    <3>3. Do("settings_latched") \in Stacked' => Do("settings_latched") \in Stacked
      BY <1>4, <2>1
    <3>4. ~At("session_established")
      BY <1>1, <2>1
    <3> QED BY <1>5, <3>1, <3>2, <3>3, <3>4 DEF Points, Held, AnswersHeld, Undecided, NoneAccepted
  <2> QED BY <2>1, <2>3, <2>4, <2>6, <2>7, <2>8 DEF Points, Held
<1>11. \/ UNCHANGED parked /\ Then(Refuse(r))
       \/ UNCHANGED parked /\ Then(Respond(r)) /\ settings # "none"
       \/ UNCHANGED parked /\ Then(Accept(r)) /\ settings = "wt" /\ ~everEst
       \/ UNCHANGED parked /\ Then(<<Do("conn_fatal")>>)
       \/ settings = "none" /\ parked.es = NoStream /\ parked' = [es |-> r, fin |-> FALSE] /\ Then(<<>>)
  <2>1. ASSUME NEW b \in RequestBodies
        PROVE  \/ Decide(r, b) = Refuse(r) \/ Decide(r, b) = Respond(r)
               \/ Decide(r, b) = Accept(r) /\ ~everEst
               \/ Decide(r, b) = <<Do("conn_fatal")>>
    BY DEF Decide, RequestBodies
  <2>2. \/ settings = "none" /\ parked.es # NoStream /\ Then(Refuse(This.r)) /\ UNCHANGED parked
        \/ /\ settings = "none" /\ parked.es = NoStream
           /\ parked' = [es |-> This.r, fin |-> FALSE] /\ Then(<<>>)
        \/ settings = "no_wt" /\ Then(Respond(This.r)) /\ UNCHANGED parked
        \/ \E b \in RequestBodies : settings = "wt" /\ Then(Decide(This.r, b)) /\ UNCHANGED parked
    BY DEF ServerRequestDone
  <2> QED BY <1>2, <2>1, <2>2 DEF Then
<1> QED BY <1>6, <1>7, <1>8, <1>9, <1>10, <1>11

LEMMA PointsEstablishUnlessClosed ==
    ASSUME Inv, Points, EstablishUnlessClosed PROVE Points'
<1>1. agenda # <<>> /\ This.op = "establish_unless_closed"
  BY DEF EstablishUnlessClosed, At, This
<1>2. PICK r \in Requests : r = This.r
  BY <1>1, HeadStream DEF StreamOps
<1>3. UNCHANGED <<closed, settings, everEst, sess, sessionEs, closeRx, parked, req, answered>>
  BY DEF EstablishUnlessClosed, connVars, sessVars
<1>4. Calm
  BY <1>3 DEF Calm, Onward
<1>5. CASE closed /\ Then(<<>>)
  BY <1>1, <1>3, <1>4, <1>5, QuickFew, QuickReturn DEF Relied, Turns
<1>6. CASE ~closed /\ Then(<<On("session_established", r)>>)
  <2> DEFINE a == On("session_established", r)
  <2>1. a \in Calls /\ a.op = "session_established" /\ a.r = r
    BY CallFacts DEF StreamOps
  <2>2. Then(<<a>>)
    BY <1>6
  <2> HIDE DEF a
  <2>3. \A b \in Below : b \in Calls /\ b \in Stacked /\ b.op \notin Guarded
    BY <1>1, NotGuarded DEF Light
  <2>4. \A b \in Below : Under(a, b)
    BY <2>1, <2>3 DEF Under, Releases
  <2>5. Owes(This)
    BY <1>1, HeadView DEF Points, Owing
  <2>6. /\ req[r].kind = "REQUEST" /\ req[r].headers /\ ~req[r].dead /\ parked.es # r
    BY <1>1, <1>2, <1>6, <2>5 DEF Owes
  <2>7. ASSUME This' = a, \A op : At(op)' <=> a.op = op PROVE Owes(a)' /\ HeadOwes'
    <3>1. HeadOwes'
      BY <1>3, <2>1, <2>6, <2>7 DEF HeadOwes
    <3>2. Owes(a)'
      BY <2>1 DEF Owes, Releases
    <3> QED BY <3>1, <3>2
  <2> QED BY <1>1, <1>4, <2>1, <2>2, <2>4, <2>7, OneReturn DEF Relied, Turns
<1>7. (closed /\ Then(<<>>)) \/ (~closed /\ Then(<<On("session_established", r)>>))
  BY <1>2 DEF EstablishUnlessClosed, Then
<1> QED BY <1>5, <1>6, <1>7

LEMMA PointsSessionEstablished ==
    ASSUME Inv, Points, SessionEstablished PROVE Points'
<1>1. agenda # <<>> /\ This.op = "session_established" /\ At("session_established")
  BY DEF SessionEstablished, At, This
<1>2. PICK r \in Requests : r = This.r
  BY <1>1, HeadStream DEF StreamOps
<1>3. /\ UNCHANGED <<closed, settings, closeRx, parked, answered>>
      /\ sess' = "ESTABLISHED" /\ everEst' /\ sessionEs' = r /\ Set(r, "isSession", TRUE)
  BY <1>2 DEF SessionEstablished, connVars, Set
<1>4. /\ \A q \in Requests : q # r => req'[q] = req[q]
      /\ req'[r].kind = req[r].kind /\ req'[r].headers = req[r].headers
      /\ req'[r].dead = req[r].dead /\ req'[r].idPending = req[r].idPending
      /\ req'[r].frame = req[r].frame /\ req'[r].isSession
  BY <1>3, Typed, SetView
<1>5. /\ req[r].kind \in {"CONNECT", "REQUEST"} /\ req[r].headers
      /\ ~req[r].dead /\ parked.es # r
  BY <1>1, <1>2 DEF Points, HeadOwes
<1>6. ~closed /\ sess \in {"IDLE", "SENT"} /\ ~everEst
  <2>1. Perspective \in {"client", "server"}
    BY RoleAssumption DEF Inv, TypeOK, Perspective
  <2>2. ~closed /\ sess \in {"IDLE", "SENT"}
    BY <1>1, <2>1 DEF Inv, Stack, HeadDue
  <2> QED BY <2>2, CalmFacts DEF Active
<1>7. \A b \in Below : b \in Calls /\ b \in Stacked /\ b.op \notin Guarded
  BY <1>1, NotGuarded DEF Light
<1> DEFINE d == Do("session_draining")
<1>8. /\ App \in Calls /\ App.op = "app" /\ d \in Calls /\ d.op = "session_draining"
      /\ d.r = NoStream
  BY CallFacts DEF ConnOps, Do, On
<1>9. Then(<<App>>) \/ Then(<<App, d>>)
  <2>1. <<App>> \o <<>> = <<App>> /\ <<App>> \o <<d>> = <<App, d>>
    BY <1>8, Joined
  <2> QED BY <2>1 DEF SessionEstablished
<1> HIDE DEF d
<1>10. /\ Under(App, d) /\ \A b \in Below : Under(App, b) /\ Under(d, b)
       /\ Owes(App)' /\ Owes(d)'
  <2>1. Owes(App)' /\ Owes(d)'
    BY <1>8 DEF Owes, Releases
  <2> QED BY <1>7, <1>8, <2>1 DEF Under, Releases, Guarded
<1>11. ASSUME NEW s \in Seq(Calls), Then(s), Chain(s), s # <<>>, s[1] = App, Items(s) \subseteq {App, d}
       PROVE  Points'
  <2>1. Order' /\ Stacked' = Items(s) \cup Below /\ agenda' # <<>> /\ This' = App
    BY <1>1, <1>10, <1>11, Shape DEF Points
  <2>2. /\ \A x \in Stacked : x = This \/ x \in Below
        /\ \A op : At(op) <=> This.op = op
    BY <1>1, HeadView, HeadFacts DEF Points
  <2>3. HeadOwes'
    BY <1>8, <2>1, NoHead DEF HeadOps
  <2>4. Leaves(Items(s), Below)
    BY <1>1, <1>7, <2>1, <2>2 DEF Leaves, Relied
  <2>5. /\ \A q : Going(q) => Going(q)'
        /\ \A q : Refusing(q) => Refusing(q)'
        /\ Do("settings_latched") \in Stacked => Do("settings_latched") \in Stacked'
        /\ \A q : On("mark_dead", q) \in Stacked => On("mark_dead", q) \in Stacked'
        /\ Do("settings_latched") \notin Stacked'
    <3>1. Do("settings_latched") \notin Stacked'
      BY <1>7, <1>8, <1>11, <2>1, CallFacts DEF Guarded
    <3> QED BY <2>4, <3>1, CallFacts DEF Leaves, Relied, Going, Refusing
  <2>6. Owing'
    <3>1. ASSUME NEW b \in Below PROVE Owes(b)'
      <4>1. Owes(b) /\ b.op \notin Guarded /\ (b.op \in StreamOps => b.r \in Requests)
        BY <1>7, CallFacts DEF Points, Owing
      <4>2. b.op # "establish_unless_closed"
        <5>1. \A k \in 2..Len(agenda) : Apart(closed, This, agenda[k])
          BY <1>1, HeadFacts DEF Over
        <5> QED BY <1>1, <1>6, <5>1 DEF Below, Apart
      <4>3. CASE b.op \in StreamOps
        <5>1. /\ req'[b.r].kind = req[b.r].kind /\ req'[b.r].idPending = req[b.r].idPending
          BY <1>4, <4>1, <4>3
        <5> QED BY <1>3, <4>1, <4>2, <5>1 DEF Owes, Guarded, Releases
      <4>4. CASE b.op \notin StreamOps
        BY <4>1, <4>2, <4>4 DEF Owes, Guarded, Releases, StreamOps
      <4> QED BY <4>3, <4>4
    <3> QED BY <1>10, <1>11, <2>1, <3>1 DEF Owing
  <2>7. SessionHeld'
    BY <1>3, <1>4, <1>5, <1>6, Typed DEF Points, Held, SessionHeld
  <2>8. StreamsHeld'
    BY <1>3, <1>4, <1>5, <1>6, <2>5 DEF Points, Held, StreamsHeld
  <2>9. ParkedHeld'
    BY <1>3, <1>4, <1>5, <2>5, Typed DEF Points, Held, ParkedHeld
  <2>10. AnswersHeld'
    <3>1. \A q \in Requests : Undecided(q)' => Undecided(q) /\ req'[q].dead = req[q].dead
      BY <1>4 DEF Undecided
    <3> QED BY <1>3, <2>5, <3>1 DEF Points, Held, AnswersHeld
  <2> QED BY <2>1, <2>3, <2>6, <2>7, <2>8, <2>9, <2>10 DEF Points, Held
<1>12. /\ <<App>> \in Seq(Calls) /\ <<App>> # <<>> /\ <<App>>[1] = App
       /\ Items(<<App>>) = {App} /\ Chain(<<App>>)
  <2>1. <<App>> \in Seq(Calls) /\ <<App>> # <<>> /\ <<App>>[1] = App
    BY <1>8
  <2> QED BY <2>1, Few
<1>13. /\ <<App, d>> \in Seq(Calls) /\ <<App, d>> # <<>> /\ <<App, d>>[1] = App
       /\ Items(<<App, d>>) = {App, d} /\ Chain(<<App, d>>)
  <2>1. <<App, d>> \in Seq(Calls) /\ <<App, d>> # <<>> /\ <<App, d>>[1] = App
    BY <1>8
  <2> QED BY <1>10, <2>1, Few
<1>14. CASE Then(<<App>>)
  BY <1>11, <1>12, <1>14
<1>15. CASE Then(<<App, d>>)
  BY <1>11, <1>13, <1>15
<1> QED BY <1>9, <1>14, <1>15

-----------------------------------------------------------------------------
(* The client's CONNECT.                                                   *)

\* The client looks at its response: the CONNECT stream r may be given up, or
\* its headers be those of an interim response.
LEMMA ClientTurn ==
    ASSUME Inv, Points, agenda # <<>>, NEW r \in Requests, r = This.r,
           This.op \in {"client_maybe_establish", "client_response_done"},
           req[r].kind = "CONNECT",
           UNCHANGED <<closed, settings, everEst, sessionEs, closeRx, parked, answered>>,
           sess' = sess \/ sess' \in {"FAILED", "REJECTED"}, sess = "CLOSED" => sess' = sess,
           req' = req \/ Set(r, "dead", TRUE) \/ Set(r, "headers", FALSE),
           req'[r].dead => req[r].dead \/ (sess' # "SENT" /\ ~everEst),
           everEst => req'[r].headers = req[r].headers,
           NEW calls \in Seq(Calls), Then(calls), Chain(calls),
           \A a \in Items(calls) : /\ \A b \in Below : Under(a, b)
                                   /\ a.op # "settings_latched" /\ Owes(a)',
           calls # <<>> => calls[1].op \notin HeadOps \/ HeadOwes',
           sess' = "SENT" /\ req'[r].headers =>
             calls # <<>> /\ calls[1].op \in {"client_maybe_establish", "session_established"}
    PROVE  Points'
<1>1. /\ Order' /\ Stacked' = Items(calls) \cup Below
      /\ calls # <<>> => agenda' # <<>> /\ This' = calls[1]
      /\ calls = <<>> => (agenda' # <<>> => This' \in Below)
  BY Shape DEF Points
<1>2. /\ Below \subseteq Stacked /\ Stacked \subseteq Calls
      /\ \A x \in Stacked : x = This \/ x \in Below
      /\ \A b \in Below : b.op \notin HeadOps
      /\ \A op : At(op) <=> This.op = op
  BY HeadView, HeadFacts DEF Points, HeadOps, HeadOnly
<1>3. HeadOwes'
  BY <1>1, <1>2, NoHead
<1>4. Leaves(Items(calls), Below) /\ Onward
  BY <1>1, <1>2 DEF Leaves, Relied, Onward
<1>5. /\ \A q \in Requests : q # r => req'[q] = req[q]
      /\ req'[r].kind = req[r].kind /\ req'[r].isSession = req[r].isSession
      /\ req'[r].idPending = req[r].idPending /\ req'[r].frame = req[r].frame
      /\ req[r].dead => req'[r].dead
      /\ req'[r].headers => req[r].headers
  <2>1. CASE req' = req
    BY <2>1
  <2>2. CASE Set(r, "dead", TRUE)
    BY <2>2, Typed, SetView
  <2>3. CASE Set(r, "headers", FALSE)
    BY <2>3, Typed, SetView
  <2> QED BY <2>1, <2>2, <2>3
<1>6. Owing'
  <2>1. ASSUME NEW b \in Below PROVE Owes(b)'
    <3>1. b.op \in StreamOps => b.r \in Requests
      BY <1>2, CallFacts
    <3>2. ~At("request_stream_fin")
      BY <1>2
    <3>3. b.op \in StreamOps =>
             /\ req'[b.r].kind = req[b.r].kind
             /\ req'[b.r].isSession = req[b.r].isSession
             /\ req'[b.r].idPending = req[b.r].idPending
             /\ req[b.r].kind # "CONNECT" =>
                  /\ req'[b.r].headers = req[b.r].headers
                  /\ b.op = "establish_unless_closed" => closed' \/ req'[b.r].dead = req[b.r].dead
             /\ req[b.r].dead => req'[b.r].dead
      BY <1>5, <3>1
    <3> QED BY <1>4, <3>2, <3>3, StillOwes DEF Points
  <2> QED BY <1>1, <2>1 DEF Owing
<1>7. SessionHeld'
  BY <1>2, <1>4, <1>5, Typed, SessionStays DEF Points, Held, Active
<1>8. StreamsHeld'
  <2>1. \A q : Going(q) => Going(q)'
    BY <1>4, CallFacts DEF Leaves, Relied, Going
  <2>2. sess' = "SENT" /\ req'[r].headers =>
          At("client_response_done")' \/ At("client_maybe_establish")' \/ At("session_established")'
    BY <1>1 DEF At, This
  <2>3. \A q \in Requests : req[q].kind = "CONNECT" => q = r
    BY DEF Inv, Connects
  <2>4. ASSUME NEW q \in Requests, q # r
        PROVE  /\ req'[q].isSession => everEst' /\ req'[q].headers
               /\ req'[q].frame = "capsules" => req'[q].isSession
               /\ req'[q].kind \in {"UNOPENED", "BTYPE"} => ~req'[q].headers
               /\ req'[q].kind = "UNOPENED" => ~req'[q].dead
               /\ req'[q].idPending => ~req'[q].headers
               /\ req'[q].isSession /\ req'[q].dead /\ req'[q].kind # "FREE" => Going(q)'
               /\ req'[q].kind # "CONNECT"
    BY <1>5, <2>1, <2>3, <2>4 DEF Points, Held, StreamsHeld
  <2>5. /\ req'[r].isSession => everEst' /\ req'[r].headers
        /\ req'[r].frame = "capsules" => req'[r].isSession
        /\ req'[r].idPending => ~req'[r].headers
        /\ req'[r].isSession /\ req'[r].dead /\ req'[r].kind # "FREE" => Going(r)'
        /\ sess' = "SENT" => ~req'[r].dead
    BY <1>5, <2>1 DEF Points, Held, StreamsHeld
  <2> QED BY <1>5, <2>2, <2>4, <2>5 DEF StreamsHeld
<1>9. ParkedHeld'
  <2>1. parked.es # r
    BY NoStreamIsNone DEF Points, Held, ParkedHeld
  <2> QED BY <1>4, <1>5, <2>1, Typed, ParkedStays DEF Points, Held
<1>10. AnswersHeld'
  <2>1. \A q \in Requests : Undecided(q)' => Undecided(q) /\ (req[q].dead => req'[q].dead)
    BY <1>5 DEF Undecided
  <2>2. \A q : On("establish_unless_closed", q) \in Stacked
               => On("establish_unless_closed", q) \in Below \/ closed' \/ At("session_established")'
    BY <1>2, CallFacts
  <2>3. ~At("session_established")
    BY <1>2
  <2> QED BY <1>4, <2>1, <2>2, <2>3, AnswersStay DEF Points, Held
<1> QED BY <1>1, <1>3, <1>6, <1>7, <1>8, <1>9, <1>10 DEF Points, Held

LEMMA PointsClientMaybeEstablish ==
    ASSUME Inv, Points, ClientMaybeEstablish PROVE Points'
<1>1. agenda # <<>> /\ This.op = "client_maybe_establish" /\ At("client_maybe_establish")
  BY DEF ClientMaybeEstablish, At, This
<1>2. PICK r \in Requests : r = This.r
  BY <1>1, HeadStream DEF StreamOps
<1>3. UNCHANGED <<closed, settings, everEst, sessionEs, closeRx, parked, answered>>
  BY DEF ClientMaybeEstablish
<1>4. /\ req[r].kind = "CONNECT" /\ (req[r].headers => respOk)
      /\ respOk => req[r].headers
      /\ sess = "SENT" => ~everEst /\ ~req[r].dead
      /\ req[r].idPending => ~req[r].headers
      /\ parked.es # r
  <2>1. req[r].kind = "CONNECT" /\ (req[r].headers => respOk)
    BY <1>1, <1>2 DEF Points, HeadOwes
  <2>2. respOk => req[r].headers
    BY <2>1 DEF Inv, Connects
  <2>3. sess = "SENT" => ~everEst /\ ~req[r].dead
    BY <2>1, CalmFacts DEF Active, Points, Held, StreamsHeld
  <2>4. req[r].idPending => ~req[r].headers
    BY DEF Points, Held, StreamsHeld
  <2>5. parked.es # r
    BY <2>1, NoStreamIsNone DEF Points, Held, ParkedHeld
  <2> QED BY <2>1, <2>2, <2>3, <2>4, <2>5
<1>5. \A b \in Below : b \in Calls /\ b \in Stacked /\ b.op \notin Guarded
  BY <1>1, NotGuarded DEF Light
<1>6. CASE (sess # "SENT" \/ ~respOk \/ req[r].idPending) /\ Then(<<>>) /\ UNCHANGED <<sess, req>>
  <2>1. Chain(<<>>) /\ Items(<<>>) = {} /\ <<>> \in Seq(Calls)
    BY Few, QuickFew
  <2> QED BY <1>1, <1>2, <1>3, <1>4, <1>6, <2>1, ClientTurn
<1>7. CASE /\ sess = "SENT" /\ Set(r, "dead", TRUE) /\ sess' = "FAILED"
           /\ Then(<<App>> \o <<On("shutdown_unless_closed", r)>>)
  <2> DEFINE b == On("shutdown_unless_closed", r)
  <2>1. App \in Calls /\ App.op = "app" /\ b \in Calls /\ b.op = "shutdown_unless_closed" /\ b.r = r
    BY CallFacts DEF StreamOps
  <2>2. Then(<<App, b>>)
    BY <1>7, <2>1, Joined
  <2> HIDE DEF b
  <2>3. <<App, b>> \in Seq(Calls) /\ <<App, b>> # <<>> /\ <<App, b>>[1] = App
    BY <2>1
  <2>4. Under(App, b)
    BY <2>1 DEF Under, Releases, Guarded
  <2>5. Items(<<App, b>>) = {App, b} /\ Chain(<<App, b>>)
    BY <2>4, Few
  <2>6. req'[r].kind = req[r].kind /\ req'[r].headers = req[r].headers
    BY <1>7, SetView, Typed
  <2>7. Owes(App)' /\ Owes(b)'
    BY <1>4, <2>1, <2>6 DEF Owes, Releases
  <2>8. \A x \in Below : Under(App, x) /\ Under(b, x)
    BY <1>5, <2>1 DEF Under, Releases
  <2>9. App.op \notin HeadOps
    BY <2>1 DEF HeadOps
  <2> QED BY <1>1, <1>2, <1>3, <1>4, <1>7, <2>1, <2>2, <2>3, <2>5, <2>6, <2>7, <2>8, <2>9, ClientTurn
<1>8. CASE /\ sess = "SENT" /\ respOk /\ ~req[r].idPending /\ UNCHANGED <<sess, req>>
           /\ Then(<<On("session_established", r)>>)
  <2> DEFINE a == On("session_established", r)
  <2>1. a \in Calls /\ a.op = "session_established" /\ a.r = r
    BY CallFacts DEF StreamOps
  <2>2. Then(<<a>>)
    BY <1>8
  <2> HIDE DEF a
  <2>3. <<a>> \in Seq(Calls) /\ <<a>> # <<>> /\ <<a>>[1] = a
    BY <2>1
  <2>4. Items(<<a>>) = {a} /\ Chain(<<a>>)
    BY Few
  <2>5. \A x \in Below : Under(a, x)
    BY <1>5, <2>1 DEF Under, Releases
  <2>6. agenda' # <<>> /\ This' = a
    BY <1>1, <2>2, <2>3, <2>4, <2>5, Shape DEF Points
  <2>7. \A op : At(op)' <=> op = "session_established"
    BY <2>1, <2>6 DEF At, This
  <2>8. HeadOwes'
    BY <1>3, <1>4, <1>8, <2>1, <2>6, <2>7 DEF HeadOwes
  <2>9. Owes(a)'
    BY <2>1 DEF Owes, Releases
  <2> QED BY <1>1, <1>2, <1>3, <1>4, <1>8, <2>1, <2>2, <2>3, <2>4, <2>5, <2>8, <2>9, ClientTurn
<1>9. \/ (sess # "SENT" \/ ~respOk \/ req[r].idPending) /\ Then(<<>>) /\ UNCHANGED <<sess, req>>
      \/ /\ sess = "SENT" /\ Set(r, "dead", TRUE) /\ sess' = "FAILED"
         /\ Then(<<App>> \o <<On("shutdown_unless_closed", r)>>)
      \/ /\ sess = "SENT" /\ respOk /\ ~req[r].idPending /\ UNCHANGED <<sess, req>>
         /\ Then(<<On("session_established", r)>>)
  BY <1>2 DEF ClientMaybeEstablish, SessionFailed, Then, Set
<1> QED BY <1>6, <1>7, <1>8, <1>9

LEMMA PointsClientResponseDone ==
    ASSUME Inv, Points, ClientResponseDone PROVE Points'
<1>1. agenda # <<>> /\ This.op = "client_response_done" /\ At("client_response_done")
  BY DEF ClientResponseDone, At, This
<1>2. PICK r \in Requests : r = This.r
  BY <1>1, HeadStream DEF StreamOps
<1>3. UNCHANGED <<closed, settings, everEst, sessionEs, closeRx, parked, answered>>
  BY DEF ClientResponseDone
<1>4. /\ req[r].kind = "CONNECT" /\ sess = "SENT" /\ ~everEst /\ ~req[r].idPending
  <2>1. req[r].kind = "CONNECT" /\ sess = "SENT"
    BY <1>1, <1>2 DEF Inv, Stack, HeadDue
  <2>2. ~everEst
    BY <2>1, CalmFacts DEF Active
  <2> QED BY <1>1, <1>2, <2>1, <2>2 DEF Points, HeadOwes
<1>5. \A b \in Below : b \in Calls /\ b \in Stacked /\ b.op \notin Guarded
  BY <1>1, NotGuarded DEF Light
<1>6. CASE /\ sess' \in {"FAILED", "REJECTED"} /\ UNCHANGED req
           /\ Then(<<Do("app")>>) \/ Then(<<Do("app"), Do("conn_fatal")>>)
  <2>0. FewQuick
    BY <1>6 DEF FewQuick, Quick
  <2>1. PICK s \in Seq(Calls) : Then(s) /\ \A x \in Items(s) : x.op \in Quick
    BY <2>0, QuickPick
  <2>2. Chain(s) /\ Items(s) \subseteq Calls /\ (s # <<>> => s[1].op \in Quick)
    BY <2>1, QuickChain
  <2>3. \A a \in Items(s) : /\ \A b \in Below : Under(a, b)
                            /\ a.op # "settings_latched" /\ Owes(a)'
    BY <1>5, <2>1, <2>2, QuickFits
  <2>4. s # <<>> => s[1].op \notin HeadOps
    BY <2>2 DEF Quick, HeadOps
  <2>5. sess' # "SENT" /\ sess # "CLOSED"
    BY <1>4, <1>6
  <2> HIDE <1>6
  <2>6. UNCHANGED req /\ sess' \in {"FAILED", "REJECTED"}
    BY <1>6
  <2> QED BY <1>1, <1>2, <1>3, <1>4, <2>1, <2>2, <2>3, <2>4, <2>5, <2>6, ClientTurn
<1>7. CASE UNCHANGED sess /\ Set(r, "headers", FALSE) /\ Then(<<>>)
  <2>1. Chain(<<>>) /\ Items(<<>>) = {} /\ <<>> \in Seq(Calls)
    BY Few, QuickFew
  <2>2. ~req'[r].headers /\ req'[r].dead = req[r].dead
    BY <1>7, SetView, Typed
  <2> QED BY <1>1, <1>2, <1>3, <1>4, <1>7, <2>1, <2>2, ClientTurn
<1>8. CASE /\ UNCHANGED <<sess, req>> /\ respOk'
           /\ Then(<<On("client_maybe_establish", r)>>)
  <2> DEFINE a == On("client_maybe_establish", r)
  <2>1. a \in Calls /\ a.op = "client_maybe_establish" /\ a.r = r
    BY CallFacts DEF StreamOps
  <2>2. Then(<<a>>)
    BY <1>8
  <2> HIDE DEF a
  <2>3. <<a>> \in Seq(Calls) /\ <<a>> # <<>> /\ <<a>>[1] = a
    BY <2>1
  <2>4. Items(<<a>>) = {a} /\ Chain(<<a>>)
    BY Few
  <2>5. \A x \in Below : Under(a, x)
    BY <1>5, <2>1 DEF Under, Releases
  <2>6. agenda' # <<>> /\ This' = a
    BY <1>1, <2>2, <2>3, <2>4, <2>5, Shape DEF Points
  <2>7. \A op : At(op)' <=> op = "client_maybe_establish"
    BY <2>1, <2>6 DEF At, This
  <2>8. HeadOwes'
    BY <1>4, <1>8, <2>1, <2>6, <2>7 DEF HeadOwes
  <2>9. Owes(a)'
    BY <2>1 DEF Owes, Releases
  <2> QED BY <1>1, <1>2, <1>3, <1>4, <1>8, <2>1, <2>2, <2>3, <2>4, <2>5, <2>8, <2>9, ClientTurn
<1>9. \/ /\ sess' \in {"FAILED", "REJECTED"} /\ UNCHANGED req
         /\ Then(<<Do("app")>>) \/ Then(<<Do("app"), Do("conn_fatal")>>)
      \/ UNCHANGED sess /\ Set(r, "headers", FALSE) /\ Then(<<>>)
      \/ UNCHANGED <<sess, req>> /\ respOk' /\ Then(<<On("client_maybe_establish", r)>>)
  <2>1. /\ <<App>> \o <<Do("conn_fatal")>> = <<Do("app"), Do("conn_fatal")>>
        /\ <<App>> \o <<>> = <<Do("app")>>
    <3>1. App \in Calls /\ Do("conn_fatal") \in Calls /\ App = Do("app")
      BY CallFacts DEF ConnOps, App
    <3> QED BY <3>1, Joined
  <2>2. PICK b \in ResponseBodies :
          \/ SessionFailed(<<Do("conn_fatal")>>) /\ UNCHANGED req
          \/ Set(This.r, "headers", FALSE) /\ Then(<<>>) /\ UNCHANGED sess
          \/ sess' = "REJECTED" /\ Then(<<App>>) /\ UNCHANGED req
          \/ SessionFailed(<<>>) /\ UNCHANGED req
          \/ respOk' = TRUE /\ Then(<<On("client_maybe_establish", This.r)>>) /\ UNCHANGED <<sess, req>>
    BY DEF ClientResponseDone
  <2> QED BY <1>2, <2>1, <2>2 DEF SessionFailed, Then, Set, App
<1> QED BY <1>6, <1>7, <1>8, <1>9

LEMMA PointsClientSendConnect ==
    ASSUME Inv, Points, ClientSendConnect PROVE Points'
<1>1. agenda # <<>> /\ This.op = "client_send_connect" /\ At("client_send_connect")
  BY DEF ClientSendConnect, At, This
<1>2. UNCHANGED <<closed, settings, everEst, sessionEs, closeRx, parked, answered>>
  BY DEF ClientSendConnect
<1>3. sess = "PENDING" /\ ~everEst /\ \A q \in Requests : req[q].kind # "CONNECT"
  <2>1. sess = "PENDING"
    BY <1>1 DEF Inv, Stack, HeadDue
  <2>2. \A op : At(op) <=> op = "client_send_connect"
    BY <1>1, HeadFacts
  <2> QED BY <2>1, <2>2, CalmFacts DEF Active, Inv, Connects
<1>4. CASE SessionFailed(<<>>) /\ UNCHANGED req
  <2>1. Calm
    BY <1>2, <1>3, <1>4 DEF Calm, Onward, SessionFailed, Active
  <2>2. Then(<<Do("app")>>)
    <3>1. <<App>> \o <<>> = <<Do("app")>>
      BY CallFacts, Joined DEF App
    <3> QED BY <1>4, <3>1 DEF SessionFailed
  <2> QED BY <1>1, <2>1, <2>2, QuickFew, QuickReturn DEF Relied, Turns, Quick
<1>5. ASSUME NEW r \in Requests, req[r].kind = "UNOPENED",
             \A q \in Requests : q # r => req'[q] = req[q],
             req'[r].kind \in {"FREE", "CONNECT"}, req'[r].dead = req[r].dead,
             req'[r].headers = req[r].headers, req'[r].isSession = req[r].isSession,
             req'[r].frame = req[r].frame, req'[r].kind = "FREE" => req'[r].idPending = req[r].idPending,
             sess' = sess \/ sess' = "SENT",
             Then(<<>>) \/ Then(<<Do("conn_fatal")>>)
      PROVE  Points'
  <2>0. Then(<<>>) \/ Then(<<Do("conn_fatal")>>)
    BY <1>5
  <2>few. FewQuick
    BY <2>0 DEF FewQuick, Quick
  <2>1. PICK calls \in Seq(Calls) : Then(calls) /\ \A a \in Items(calls) : a.op \in Quick
    BY <2>few, QuickPick
  <2>2. /\ Order' /\ HeadOwes' /\ Stacked' = Items(calls) \cup Below
        /\ \A a \in Items(calls) : Owes(a)' /\ a.op \notin Relied /\ a.op # "settings_latched"
        /\ Below \subseteq Stacked /\ Below \subseteq Calls
        /\ \A x \in Stacked : x = This \/ x \in Below
        /\ \A op : At(op) <=> This.op = op
        /\ Leaves(Items(calls), Below)
    BY <1>1, <2>1, QuickShape DEF Relied
  <2>3. ~req[r].headers /\ ~req[r].dead /\ ~req[r].isSession /\ req[r].frame # "capsules"
    BY <1>5 DEF Points, Held, StreamsHeld
  <2>4. parked.es # r /\ sessionEs # r
    BY <1>5, NoStreamIsNone DEF Points, Held, ParkedHeld, SessionHeld
  <2>5. /\ \A q : Going(q) => Going(q)'
        /\ \A q : Refusing(q) => Refusing(q)'
        /\ \A q : On("mark_dead", q) \in Stacked => On("mark_dead", q) \in Stacked'
        /\ Do("parked_request_cancel") \in Stacked => Do("parked_request_cancel") \in Stacked'
    BY <2>2, CallFacts DEF Leaves, Relied, Going, Refusing
  <2>6. Owing'
    <3>1. ASSUME NEW b \in Below PROVE Owes(b)'
      <4>1. Owes(b) /\ (b.op \in StreamOps => b.r \in Requests)
        BY <2>2, CallFacts DEF Points, Owing
      <4>2. b.op = "request_stream_bytes" => req[b.r].kind # "UNOPENED"
        BY HeadFacts, <1>1 DEF Rest, Below, Due
      <4>3. b.op = "fin_release" => sessionEs # b.r
        BY <1>1, <2>2, <4>1 DEF Owes
      <4>4. CASE b.op \in StreamOps /\ b.r # r
        <5>1. req'[b.r] = req[b.r] /\ req[b.r].kind # "CONNECT"
          BY <1>3, <1>5, <4>1, <4>4
        <5> HIDE DEF Going, Refusing
        <5> QED BY <1>2, <2>5, <4>1, <4>3, <5>1 DEF Owes
      <4>5. CASE b.op \in StreamOps /\ b.r = r
        <5> HIDE DEF Going, Refusing
        <5> QED BY <1>2, <1>5, <4>1, <4>2, <4>5 DEF Owes, Releases
      <4>6. CASE b.op \notin StreamOps
        BY <1>2, <4>1, <4>6 DEF Owes, StreamOps, Releases
      <4> QED BY <4>4, <4>5, <4>6
    <3> QED BY <2>2, <3>1 DEF Owing
  <2>7. SessionHeld'
    BY <1>1, <1>2, <1>3, <1>5, <2>2, <2>4, Typed DEF Points, Held, SessionHeld, Active
  <2>8. StreamsHeld'
    BY <1>2, <1>3, <1>5, <2>3, <2>5 DEF Points, Held, StreamsHeld
  <2>9. ParkedHeld'
    BY <1>2, <1>5, <2>2, <2>4, Typed, ParkedStays DEF Points, Held
  <2>10. AnswersHeld'
    <3>1. \A q \in Requests : Undecided(q)' => Undecided(q) /\ (req[q].dead => req'[q].dead)
      BY <1>5 DEF Undecided
    <3>2. ~At("session_established")
      BY <1>1, <2>2
    <3>3. /\ \A q : On("establish_unless_closed", q) \in Stacked
                  => On("establish_unless_closed", q) \in Stacked'
          /\ Do("settings_latched") \in Stacked' => Do("settings_latched") \in Stacked
      BY <1>1, <2>2, CallFacts
    <3> QED BY <1>2, <2>5, <3>1, <3>2, <3>3 DEF Points, Held, AnswersHeld, NoneAccepted
  <2> QED BY <2>2, <2>6, <2>7, <2>8, <2>9, <2>10 DEF Points, Held
<1>6. ASSUME NEW r \in Requests, req[r].kind = "UNOPENED", Set(r, "kind", "FREE"),
             Then(<<Do("conn_fatal")>>), UNCHANGED sess
      PROVE  Points'
  BY <1>5, <1>6, SetView, Typed
<1>7. ASSUME NEW r \in Requests, req[r].kind = "UNOPENED", NEW pending \in BOOLEAN,
             req' = [req EXCEPT ![r].kind = "CONNECT", ![r].idPending = pending],
             \/ Then(<<Do("conn_fatal")>>) /\ UNCHANGED sess
             \/ Then(<<>>) /\ sess' = "SENT"
      PROVE  Points'
  <2>1. /\ \A q \in Requests : q # r => req'[q] = req[q]
        /\ req'[r].kind = "CONNECT" /\ req'[r].dead = req[r].dead
        /\ req'[r].headers = req[r].headers /\ req'[r].isSession = req[r].isSession
        /\ req'[r].frame = req[r].frame
    BY <1>7, Typed DEF Streams
  <2> QED BY <1>5, <1>7, <2>1
<1>8. role.requests \subseteq Requests
  BY RoleRequests DEF Inv, TypeOK
<1> QED BY <1>4, <1>6, <1>7, <1>8 DEF ClientSendConnect

-----------------------------------------------------------------------------
(* Capsules on the session stream.                                         *)

\* RequestStreamFail(r) owes nothing when r is a stream in use.
LEMMA FailOwes ==
    ASSUME NEW r \in Requests, req'[r].kind \notin {"UNOPENED", "BTYPE", "FREE"},
           req'[r].kind = "CONNECT" => sess' # "SENT",
           {On("shutdown_raw", r), On("mark_dead", r), On("request_stream_failed", r)}
             \subseteq Stacked'
    PROVE  /\ Owes(On("shutdown_raw", r))' /\ Owes(On("mark_dead", r))'
           /\ Owes(On("request_stream_failed", r))'
<1>1. Refusing(r)' /\ Going(r)' /\ On("mark_dead", r) \in Stacked'
  BY DEF Refusing, Going
<1>2. Owes(On("shutdown_raw", r))' /\ Owes(On("mark_dead", r))'
  BY <1>1, RefuseOwes
<1>3. On("request_stream_failed", r).op = "request_stream_failed" /\ On("request_stream_failed", r).r = r
  BY CallFacts
<1>4. Owes(On("request_stream_failed", r))'
  BY <1>3 DEF Owes, Releases
<1> QED BY <1>2, <1>4

\* RequestStreamFail(r) on a stack of deliveries.
LEMMA FailFits ==
    ASSUME NEW r \in Requests
    PROVE  /\ RequestStreamFail(r) \in Seq(Calls) /\ Chain(RequestStreamFail(r))
           /\ Items(RequestStreamFail(r)) =
                {On("shutdown_raw", r), On("mark_dead", r), On("request_stream_failed", r)}
           /\ RequestStreamFail(r) # <<>>
           /\ RequestStreamFail(r)[1].op \notin HeadOps
           /\ \A a \in Items(RequestStreamFail(r)) :
                /\ a.op # "settings_latched"
                /\ \A b : b.op \in {"request_stream_bytes", "stream_bytes_end"} => Under(a, b)
<1> DEFINE c == On("request_stream_failed", r)
<1>1. c \in Calls /\ c.op = "request_stream_failed"
  BY CallFacts DEF StreamOps
<1>2. /\ On("shutdown_raw", r).op = "shutdown_raw" /\ On("mark_dead", r).op = "mark_dead"
  BY CallFacts
<1>3. RequestStreamFail(r) = Refuse(r) \o <<c>>
  BY DEF RequestStreamFail
<1> HIDE DEF c
<1>4. /\ RequestStreamFail(r) \in Seq(Calls) /\ Chain(RequestStreamFail(r))
      /\ Items(RequestStreamFail(r)) = {On("shutdown_raw", r), On("mark_dead", r), c}
      /\ RequestStreamFail(r) # <<>> /\ RequestStreamFail(r)[1] = On("shutdown_raw", r)
  BY <1>1, <1>3, RefuseChain
<1>5. RequestStreamFail(r)[1].op \notin HeadOps
  BY <1>2, <1>4 DEF HeadOps
<1>6. \A a \in Items(RequestStreamFail(r)) :
        /\ a.op # "settings_latched"
        /\ \A b : b.op \in {"request_stream_bytes", "stream_bytes_end"} => Under(a, b)
  BY <1>1, <1>2, <1>4 DEF Under, Releases, Guarded
<1> QED BY <1>4, <1>5, <1>6 DEF c

\* The return of a capsule.
LEMMA CapsuleReturn ==
    ASSUME Inv, Points, agenda # <<>>, This.op = "session_capsule",
           UNCHANGED <<closed, settings, everEst, sess, sessionEs, parked, req, answered>>,
           closeRx => closeRx',
           NEW calls \in Seq(Calls), Then(calls), Chain(calls),
           \A a \in Items(calls) : a.op # "settings_latched" /\ \A b \in Below : Under(a, b),
           Stacked' = Items(calls) \cup Below => \A a \in Items(calls) : Owes(a)',
           calls # <<>> => calls[1].op \notin HeadOps,
           closeRx' => \/ sess = "CLOSED"
                       \/ everEst /\ calls # <<>> /\ calls[1].op = "session_closed"
    PROVE  Points'
<1>1. /\ Order' /\ Stacked' = Items(calls) \cup Below
      /\ calls # <<>> => agenda' # <<>> /\ This' = calls[1]
      /\ calls = <<>> => (agenda' # <<>> => This' \in Below)
  BY Shape DEF Points
<1>2. /\ Below \subseteq Stacked /\ Below \subseteq Calls
      /\ \A x \in Stacked : x = This \/ x \in Below
      /\ \A b \in Below : b.op \notin HeadOps
  BY HeadView DEF Points, HeadOps, HeadOnly
<1>3. \A op : At(op) <=> This.op = op
  BY HeadFacts
<1>4. Leaves(Items(calls), Below) /\ NoTurn /\ Onward /\ Same
  BY <1>1, <1>2, <1>3 DEF Leaves, Relied, NoTurn, Turns, Onward, Same, Points, Held, StreamsHeld
<1>5. HeadOwes'
  BY <1>1, <1>2, NoHead
<1>6. Owing'
  <2>1. \A b \in Below : Owes(b)'
    BY <1>3, <1>4, StillOwes DEF Points
  <2> QED BY <1>1, <2>1 DEF Owing
<1>7. SessionHeld'
  <2>1. closeRx' => everEst /\ (sess = "CLOSED" \/ At("session_closed")')
    BY <1>1, CalmFacts DEF At, This
  <2>2. ~At("conn_fatal") /\ ~At("session_closed")
    BY <1>3
  <2> QED BY <2>1, <2>2 DEF Points, Held, SessionHeld
<1>8. StreamsHeld'
  BY <1>4, StreamsStay DEF Points, Held
<1>9. ParkedHeld'
  BY <1>4, ParkedStays DEF Points, Held
<1>10. AnswersHeld'
  <2>1. \A x \in Stacked : x.op = "establish_unless_closed" => x \in Below
    BY <1>2
  <2>2. \A r : On("establish_unless_closed", r) \in Stacked
              => On("establish_unless_closed", r) \in Below \/ closed' \/ At("session_established")'
    BY <2>1, CallFacts
  <2>3. ~At("session_established")
    BY <1>3
  <2> QED BY <1>4, <2>2, <2>3, AnswersStay DEF Undecided, Points, Held
<1> QED BY <1>1, <1>5, <1>6, <1>7, <1>8, <1>9, <1>10 DEF Points, Held

LEMMA PointsSessionCapsule ==
    ASSUME Inv, Points, SessionCapsule PROVE Points'
<1>1. agenda # <<>> /\ This.op = "session_capsule" /\ At("session_capsule")
  BY DEF SessionCapsule, At, This
<1>2. PICK r \in Requests : r = This.r
  BY <1>1, HeadStream DEF StreamOps
<1>3. UNCHANGED <<closed, settings, everEst, sess, sessionEs, parked, req, answered>>
  BY DEF SessionCapsule, connVars
<1>4. /\ req[r].isSession /\ everEst /\ req[r].kind \in {"CONNECT", "REQUEST"}
      /\ closeRx => sess = "CLOSED"
  <2>1. req[r].isSession /\ req[r].kind # "FREE"
    BY <1>1, <1>2 DEF Points, HeadOwes
  <2>2. everEst /\ req[r].kind \notin {"UNOPENED", "BTYPE"}
    BY <2>1 DEF Points, Held, StreamsHeld
  <2>3. req[r] \in Streams
    BY Typed
  <2>4. closeRx => sess = "CLOSED"
    <3>1. ~At("session_closed")
      BY <1>1, HeadFacts
    <3> QED BY <3>1 DEF Points, Held, SessionHeld
  <2> QED BY <2>1, <2>2, <2>3, <2>4 DEF Streams
<1>5. \A b \in Below : b \in Calls /\ b.op \in {"request_stream_bytes", "stream_bytes_end"}
  BY <1>1, HeadView, NotGuarded DEF Points, Under, Light
<1> DEFINE w == Do("session_closed")  d == Do("session_draining")  e == Do("conn_fatal")
<1>6. /\ w \in Calls /\ w.op = "session_closed" /\ d \in Calls /\ d.op = "session_draining"
      /\ e \in Calls /\ e.op = "conn_fatal"
  BY CallFacts DEF ConnOps
<1>7. /\ Poison(r) \in Seq(Calls) /\ Chain(Poison(r)) /\ Poison(r) # <<>>
      /\ Poison(r)[1].op \notin HeadOps
      /\ \A a \in Items(Poison(r)) :
           a.op \in {"shutdown_raw", "session_stream_poisoned"} /\ \A b \in Below : Under(a, b)
      /\ closeRx' => \A a \in Items(Poison(r)) : Owes(a)'
  <2>1. /\ On("shutdown_raw", r).op = "shutdown_raw"
        /\ On("session_stream_poisoned", r).op = "session_stream_poisoned"
    BY CallFacts
  <2>2. \A a \in Items(Poison(r)) : a.op \in {"shutdown_raw", "session_stream_poisoned"}
    BY <2>1, PoisonChain
  <2>3. \A a \in Items(Poison(r)) : \A b \in Below : Under(a, b)
    BY <1>5, <2>2 DEF Under, Releases, Guarded
  <2>4. Poison(r)[1].op \notin HeadOps
    BY <2>1, PoisonChain DEF HeadOps
  <2>5. closeRx' => \A a \in Items(Poison(r)) : Owes(a)'
    BY <1>3, <1>4, NoStreamIsNone, PoisonOwes
  <2> QED BY <2>2, <2>3, <2>4, <2>5, PoisonChain
<1>8. CASE closeRx /\ UNCHANGED closeRx /\ Then(Poison(r))
  BY <1>1, <1>3, <1>4, <1>7, <1>8, CapsuleReturn
<1> HIDE DEF w, d, e
<1>9. ASSUME NEW s \in {<<>>, <<w>>, <<d>>, <<e>>}
      PROVE  /\ s \in Seq(Calls) /\ Chain(s) /\ Items(s) \subseteq {w, d, e}
             /\ s # <<>> => s[1].op \notin HeadOps
             /\ \A a \in Items(s) : /\ a.op # "settings_latched" /\ Owes(a)'
                                    /\ a.op = "session_closed" \/ s # <<w>>
                                    /\ \A b \in Below : Under(a, b)
  <2>1. /\ <<>> \in Seq(Calls) /\ <<w>> \in Seq(Calls) /\ <<d>> \in Seq(Calls) /\ <<e>> \in Seq(Calls)
        /\ <<w>>[1] = w /\ <<d>>[1] = d /\ <<e>>[1] = e
        /\ Items(<<>>) = {} /\ Items(<<w>>) = {w} /\ Items(<<d>>) = {d} /\ Items(<<e>>) = {e}
        /\ Chain(<<>>) /\ Chain(<<w>>) /\ Chain(<<d>>) /\ Chain(<<e>>)
    <3>1. /\ <<>> \in Seq(Calls) /\ <<w>> \in Seq(Calls) /\ <<d>> \in Seq(Calls) /\ <<e>> \in Seq(Calls)
          /\ <<w>>[1] = w /\ <<d>>[1] = d /\ <<e>>[1] = e
      BY <1>6
    <3> QED BY <3>1, Few
  <2>2. /\ s \in Seq(Calls) /\ (s # <<>> => s[1] \in {w, d, e})
        /\ Chain(s) /\ Items(s) \subseteq {w, d, e} /\ (s = <<w>> => Items(s) \subseteq {w})
    <3>1. CASE s = <<>>
      <4>1. <<>> # <<w>>
        OBVIOUS
      <4> QED BY <2>1, <3>1, <4>1
    <3>2. CASE s = <<w>>
      BY <2>1, <3>2
    <3>3. CASE s = <<d>>
      <4>1. s = <<w>> => d = w
        BY <3>3
      <4> QED BY <2>1, <3>3, <4>1
    <3>4. CASE s = <<e>>
      <4>1. s = <<w>> => e = w
        BY <3>4
      <4> QED BY <2>1, <3>4, <4>1
    <3> QED BY <1>9, <3>1, <3>2, <3>3, <3>4
  <2>3. Owes(w)' /\ Owes(d)' /\ Owes(e)'
    BY <1>6 DEF Owes, Releases
  <2>4. \A a \in {w, d, e} : \A b \in Below : Under(a, b)
    BY <1>5, <1>6 DEF Under, Releases, Guarded
  <2> QED BY <1>6, <2>1, <2>2, <2>3, <2>4 DEF HeadOps
<1>10. ASSUME closeRx => closeRx', closeRx' => sess = "CLOSED",
              NEW s \in {<<>>, <<w>>, <<d>>, <<e>>}, Then(s)
       PROVE  Points'
  BY <1>1, <1>3, <1>4, <1>9, <1>10, CapsuleReturn
<1>11. CASE ~closeRx /\ UNCHANGED closeRx /\ sess = "CLOSED" /\ Then(RequestStreamFail(r))
  <2>1. ASSUME Stacked' = Items(RequestStreamFail(r)) \cup Below
        PROVE  \A a \in Items(RequestStreamFail(r)) : Owes(a)'
    <3>1. {On("shutdown_raw", r), On("mark_dead", r), On("request_stream_failed", r)}
             \subseteq Stacked'
      BY <2>1, FailFits
    <3> QED BY <1>3, <1>4, <1>11, <3>1, FailFits, FailOwes
  <2> QED BY <1>1, <1>3, <1>5, <1>11, <2>1, FailFits, CapsuleReturn
<1>12. ASSUME ~closeRx, closeRx', NEW s \in {<<>>, <<w>>}, NEW t \in {<<>>, Poison(r)},
              s = <<>> => sess = "CLOSED", Then(s \o t)
       PROVE  Points'
  <2>1. /\ t \in Seq(Calls) /\ Chain(t) /\ (t # <<>> => t[1].op \notin HeadOps)
        /\ \A a \in Items(t) : /\ a.op \in {"shutdown_raw", "session_stream_poisoned"}
                               /\ Owes(a)' /\ \A b \in Below : Under(a, b)
    BY <1>7, <1>12, Few, QuickFew
  <2>2. /\ s \in Seq(Calls) /\ Chain(s) /\ (s # <<>> => s[1] = w)
        /\ \A a \in Items(s) : /\ a = w /\ Owes(a)' /\ \A b \in Below : Under(a, b)
    <3>1. s # <<>> => s[1] = w
      BY <1>12
    <3>2. Items(s) \subseteq {w}
      BY <1>12, Few
    <3> QED BY <1>9, <1>12, <3>1, <3>2
  <2>3. \A a \in Items(s) : \A b \in Items(t) : Under(a, b)
    BY <1>6, <2>1, <2>2 DEF Under, Releases, Guarded, Light
  <2> DEFINE u == s \o t
  <2>4. /\ u \in Seq(Calls) /\ Items(u) = Items(s) \cup Items(t) /\ Chain(u)
        /\ s # <<>> => u # <<>> /\ Head(u) = w
    BY <2>1, <2>2, <2>3, Joint
  <2>5. s = <<>> => u = t
    BY <2>1
  <2>6. u # <<>> => Head(u) = u[1]
    BY <2>4
  <2>7. Then(u)
    BY <1>12
  <2> HIDE DEF u
  <2>8. /\ u # <<>> => u[1].op \notin HeadOps
        /\ s # <<>> => u # <<>> /\ u[1].op = "session_closed"
    BY <1>6, <2>1, <2>4, <2>5, <2>6 DEF HeadOps
  <2>9. \A a \in Items(u) : a.op # "settings_latched" /\ Owes(a)' /\ \A b \in Below : Under(a, b)
    BY <1>6, <2>1, <2>2, <2>4
  <2> QED BY <1>1, <1>3, <1>4, <1>12, <2>4, <2>7, <2>8, <2>9, CapsuleReturn
<1>13. \/ closeRx /\ UNCHANGED closeRx /\ Then(Poison(r))
       \/ ~closeRx /\ UNCHANGED closeRx /\ \E s \in {<<>>, <<e>>} : Then(s)
       \/ ~closeRx /\ UNCHANGED closeRx /\ sess = "CLOSED" /\ Then(RequestStreamFail(r))
       \/ ~closeRx /\ ~closeRx' /\ \E s \in {<<>>, <<d>>} : Then(s)
       \/ ~closeRx /\ closeRx' /\ \E s \in {<<>>, <<w>>} : \E t \in {<<>>, Poison(r)} :
            (s = <<>> => sess = "CLOSED") /\ Then(s \o t)
  <2>1. PICK c \in Capsules :
          IF closeRx \/ c = "cut" \/ c = "bad"
          THEN /\ Then(CASE closeRx -> Poison(This.r)
                         [] ~closeRx /\ c = "cut" -> <<>>
                         [] ~closeRx /\ c = "bad" ->
                              IF sess = "CLOSED" THEN RequestStreamFail(This.r) ELSE <<e>>)
               /\ UNCHANGED closeRx
          ELSE /\ closeRx' = (c \in {"CLOSE", "CLOSE+"})
               /\ Then((CASE c \in {"CLOSE", "CLOSE+"} /\ sess # "CLOSED" -> <<w>>
                          [] c = "DRAIN" /\ sess # "CLOSED" -> <<d>>
                          [] OTHER -> <<>>)
                       \o IF c = "CLOSE+" THEN Poison(This.r) ELSE <<>>)
    BY DEF SessionCapsule, w, d, e
  <2>2. CASE closeRx
    <3>1. UNCHANGED closeRx /\ Then(Poison(This.r))
      BY <2>1, <2>2
    <3> QED BY <1>2, <2>2, <3>1 DEF Then
  <2>3. CASE ~closeRx /\ c = "cut"
    BY <2>1, <2>3
  <2>4. CASE ~closeRx /\ c = "bad"
    <3>1. UNCHANGED closeRx
      BY <2>1, <2>4
    <3>2. Then(IF sess = "CLOSED" THEN RequestStreamFail(This.r) ELSE <<e>>)
      BY <2>1, <2>4
    <3>3. CASE sess = "CLOSED"
      BY <1>2, <2>4, <3>1, <3>2, <3>3 DEF Then
    <3>4. CASE sess # "CLOSED"
      BY <2>4, <3>1, <3>2, <3>4
    <3> QED BY <3>3, <3>4
  <2>5. CASE ~closeRx /\ c \notin {"cut", "bad", "CLOSE", "CLOSE+"}
    <3> DEFINE s == CASE c \in {"CLOSE", "CLOSE+"} /\ sess # "CLOSED" -> <<w>>
                      [] c = "DRAIN" /\ sess # "CLOSED" -> <<d>>
                      [] OTHER -> <<>>
    <3>1. s \in {<<>>, <<d>>}
      BY <2>5
    <3>2. Then(s \o <<>>) /\ ~closeRx'
      BY <2>1, <2>5
    <3> HIDE DEF s
    <3>3. s \o <<>> = s
      <4>1. s \in Seq(Calls)
        BY <1>9, <3>1
      <4> QED BY <4>1
    <3> QED BY <2>5, <3>1, <3>2, <3>3
  <2>6. CASE ~closeRx /\ c \in {"CLOSE", "CLOSE+"}
    <3> DEFINE s == CASE c \in {"CLOSE", "CLOSE+"} /\ sess # "CLOSED" -> <<w>>
                      [] c = "DRAIN" /\ sess # "CLOSED" -> <<d>>
                      [] OTHER -> <<>>
               t == IF c = "CLOSE+" THEN Poison(This.r) ELSE <<>>
    <3>1. s = IF sess = "CLOSED" THEN <<>> ELSE <<w>>
      BY <2>6
    <3>2. Then(s \o t) /\ closeRx'
      BY <2>1, <2>6
    <3>3. t \in {<<>>, Poison(r)}
      BY <1>2
    <3> HIDE DEF s, t
    <3> QED BY <2>6, <3>1, <3>2, <3>3
  <2> QED BY <2>2, <2>3, <2>4, <2>5, <2>6
<1>14. CASE ~closeRx /\ UNCHANGED closeRx /\ \E s \in {<<>>, <<e>>} : Then(s)
  BY <1>10, <1>14
<1>15. CASE ~closeRx /\ ~closeRx' /\ \E s \in {<<>>, <<d>>} : Then(s)
  BY <1>10, <1>15
<1>16. CASE ~closeRx /\ closeRx' /\ \E s \in {<<>>, <<w>>} : \E t \in {<<>>, Poison(r)} :
            (s = <<>> => sess = "CLOSED") /\ Then(s \o t)
  BY <1>12, <1>16
<1> QED BY <1>8, <1>11, <1>13, <1>14, <1>15, <1>16

-----------------------------------------------------------------------------
(* Bytes of a request or CONNECT stream.                                   *)

\* A frame walk at the head: its stream, and the delivery's end below it.
LEMMA WalkFacts ==
    ASSUME Inv, Points, agenda # <<>>, This.op = "request_stream_bytes",
           NEW r \in Requests, r = This.r
    PROVE  /\ ~req[r].idPending /\ req[r].kind \notin {"BTYPE", "UNOPENED"}
           /\ req[r].kind = "CONNECT" /\ req[r].headers => sess # "SENT"
           /\ \A b \in Below : b \in Calls /\ b \in Stacked /\ b.op = "stream_bytes_end"
           /\ \A x \in Stacked : x = This \/ x \in Below
           /\ \A op : At(op) <=> This.op = op
<1>1. Owes(This) /\ Due(This, closed, sess, told, req) /\ \A op : At(op) <=> This.op = op
  BY HeadView, HeadFacts DEF Points, Owing
<1>2. /\ \A b \in Below : b \in Calls /\ b \in Stacked /\ b.op = "stream_bytes_end"
      /\ \A x \in Stacked : x = This \/ x \in Below
  BY HeadView DEF Points, Under
<1>3. ~req[r].idPending /\ req[r].kind \notin {"BTYPE", "UNOPENED"}
  BY <1>1 DEF Owes, Due
<1>4. req[r].kind = "CONNECT" /\ req[r].headers => sess # "SENT"
  BY <1>1 DEF Points, Held, StreamsHeld
<1> QED BY <1>1, <1>2, <1>3, <1>4

\* A turn of the walk that completes no field section.
LEMMA WalkCalm ==
    ASSUME Inv, Points, agenda # <<>>, This.op = "request_stream_bytes",
           NEW r \in Requests, r = This.r,
           UNCHANGED <<closed, settings, everEst, sess, sessionEs, closeRx, parked, answered>>,
           req' = req \/ Same,
           \/ Then(<<>>) \/ Then(<<Do("conn_fatal")>>) \/ Then(<<Walk(r)>>)
           \/ /\ req[r].kind # "FREE" /\ (req[r].kind = "CONNECT" => req[r].headers)
              /\ Then(RequestStreamFail(r))
           \/ parked.es = r /\ Then(Refuse(r) \o <<Do("parked_request_cancel")>>)
           \/ /\ req[r].isSession /\ req[r].kind # "FREE"
              /\ Then(<<On("session_capsule", r), Walk(r)>>)
    PROVE  Points'
<1>1. /\ ~req[r].idPending /\ req[r].kind \notin {"BTYPE", "UNOPENED"}
      /\ req[r].kind = "CONNECT" /\ req[r].headers => sess # "SENT"
      /\ \A b \in Below : b \in Calls /\ b \in Stacked /\ b.op = "stream_bytes_end"
  BY WalkFacts
<1>2. Calm
  BY DEF Calm, Onward
<1>3. /\ req'[r].kind = req[r].kind /\ req'[r].idPending = req[r].idPending
      /\ req'[r].headers = req[r].headers /\ req'[r].isSession = req[r].isSession
  BY DEF Same
<1> DEFINE w == Walk(r)  a == On("session_capsule", r)  c == Do("parked_request_cancel")
<1>4. /\ w \in Calls /\ w.op = "request_stream_bytes" /\ w.r = r
      /\ a \in Calls /\ a.op = "session_capsule" /\ a.r = r
      /\ c \in Calls /\ c.op = "parked_request_cancel"
  BY CallFacts DEF Walk, StreamOps, ConnOps
<1>5. CASE Then(<<>>) \/ Then(<<Do("conn_fatal")>>)
  <2>1. FewQuick
    BY <1>5 DEF FewQuick, Quick
  <2> QED BY <1>2, <2>1, QuickReturns DEF Relied, Turns
<1>6. CASE Then(<<w>>)
  <2> HIDE DEF w, a, c
  <2>1. Owes(w)'
    BY <1>1, <1>3, <1>4 DEF Owes, Releases
  <2>2. \A x \in Below : Under(w, x)
    BY <1>1, <1>4 DEF Under, Releases, Guarded
  <2> QED BY <1>2, <1>4, <1>6, <2>1, <2>2, OneReturn DEF Relied, Turns, HeadOps
<1>7. CASE /\ req[r].kind # "FREE" /\ (req[r].kind = "CONNECT" => req[r].headers)
           /\ Then(RequestStreamFail(r))
  <2>1. ASSUME Stacked' = Items(RequestStreamFail(r)) \cup Below
        PROVE  \A x \in Items(RequestStreamFail(r)) : Owes(x)'
    <3>1. {On("shutdown_raw", r), On("mark_dead", r), On("request_stream_failed", r)}
             \subseteq Stacked'
      BY <2>1, FailFits
    <3> QED BY <1>1, <1>3, <1>7, <3>1, FailFits, FailOwes
  <2>2. \A x \in Items(RequestStreamFail(r)) : x.op # "settings_latched" /\ \A b \in Below : Under(x, b)
    BY <1>1, FailFits
  <2> QED BY <1>2, <1>7, <2>1, <2>2, FailFits, CalmReturn DEF Relied, Turns
<1>8. CASE parked.es = r /\ Then(Refuse(r) \o <<c>>)
  <2> DEFINE s == Refuse(r) \o <<c>>
  <2>1. /\ s \in Seq(Calls) /\ Chain(s) /\ s # <<>> /\ s[1] = On("shutdown_raw", r)
        /\ Items(s) = {On("shutdown_raw", r), On("mark_dead", r), c}
    BY <1>4, RefuseChain
  <2>2. Then(s)
    BY <1>8
  <2> HIDE DEF s
  <2>3. ~req[r].isSession /\ req[r].kind = "REQUEST"
    BY <1>8, NoStreamIsNone DEF Points, Held, ParkedHeld
  <2>4. ASSUME Stacked' = Items(s) \cup Below PROVE \A x \in Items(s) : Owes(x)'
    <3>1. Refusing(r)' /\ On("mark_dead", r) \in Stacked'
      BY <2>1, <2>4 DEF Refusing
    <3>2. Owes(On("shutdown_raw", r))' /\ Owes(On("mark_dead", r))'
      BY <1>3, <2>3, <3>1, RefuseOwes
    <3> HIDE DEF c
    <3>3. Owes(c)'
      BY <1>4 DEF Owes, Releases
    <3> QED BY <2>1, <3>2, <3>3
  <2> HIDE DEF c
  <2>5. \A x \in Items(s) : x.op # "settings_latched" /\ \A b \in Below : Under(x, b)
    BY <1>1, <1>4, <2>1, CallFacts DEF Under, Releases, Guarded
  <2>6. s[1].op \notin HeadOps
    BY <2>1, CallFacts DEF HeadOps
  <2> QED BY <1>2, <2>1, <2>2, <2>4, <2>5, <2>6, CalmReturn DEF Relied, Turns
<1>9. CASE req[r].isSession /\ req[r].kind # "FREE" /\ Then(<<a, w>>)
  <2> HIDE DEF w, a, c
  <2>1. Owes(w)' /\ Owes(a)'
    BY <1>1, <1>3, <1>4 DEF Owes, Releases
  <2>2. Under(a, w) /\ \A x \in Below : Under(a, x) /\ Under(w, x)
    BY <1>1, <1>4 DEF Under, Releases, Guarded
  <2>3. ASSUME This' = a, \A op : At(op)' <=> a.op = op PROVE HeadOwes'
    BY <1>3, <1>4, <1>9, <2>3 DEF HeadOwes
  <2> QED BY <1>2, <1>4, <1>9, <2>1, <2>2, <2>3, PairReturn DEF Relied, Turns
<1> QED BY <1>5, <1>6, <1>7, <1>8, <1>9

\* The walk completes the first field section of its stream.
LEMMA WalkHeaders ==
    ASSUME Inv, Points, agenda # <<>>, This.op = "request_stream_bytes",
           NEW r \in Requests, r = This.r, ~closed, req[r].kind # "FREE",
           ~req[r].dead, ~req[r].headers,
           UNCHANGED <<closed, settings, everEst, sess, sessionEs, closeRx, parked, answered>>,
           req' = [req EXCEPT ![r].frame = "none", ![r].headers = TRUE],
           NEW a \in Calls, a.r = r,
           a.op = IF req[r].kind = "CONNECT" THEN "client_response_done" ELSE "server_request_done",
           Then(<<a, Walk(r)>>)
    PROVE  Points'
<1>1. /\ ~req[r].idPending /\ req[r].kind \notin {"BTYPE", "UNOPENED"}
      /\ \A b \in Below : b \in Calls /\ b \in Stacked /\ b.op = "stream_bytes_end"
      /\ \A x \in Stacked : x = This \/ x \in Below
      /\ \A op : At(op) <=> This.op = op
  BY WalkFacts
<1>2. req[r].kind \in {"REQUEST", "CONNECT"} /\ ~req[r].isSession /\ parked.es # r
  <2>1. req[r] \in Streams
    BY Typed
  <2> QED BY <1>1, <2>1, NoStreamIsNone DEF Streams, Points, Held, StreamsHeld, ParkedHeld
<1>3. /\ \A q \in Requests : q # r => req'[q] = req[q]
      /\ req'[r].kind = req[r].kind /\ req'[r].dead = req[r].dead
      /\ req'[r].headers /\ req'[r].isSession = req[r].isSession
      /\ req'[r].idPending = req[r].idPending /\ req'[r].frame = "none"
  BY Typed DEF Streams
<1> DEFINE w == Walk(r)
<1>4. w \in Calls /\ w.op = "request_stream_bytes" /\ w.r = r
  BY CallFacts DEF Walk, StreamOps
<1> HIDE DEF w
<1>5. Under(a, w) /\ \A x \in Below : Under(a, x) /\ Under(w, x)
  BY <1>1, <1>4 DEF Under, Releases, Guarded
<1>6. Order' /\ Stacked' = {a, w} \cup Below /\ agenda' # <<>> /\ This' = a
  <2>1. <<a, w>> \in Seq(Calls) /\ <<a, w>> # <<>> /\ <<a, w>>[1] = a
    BY <1>4
  <2>2. Items(<<a, w>>) = {a, w} /\ Chain(<<a, w>>)
    BY <1>5, Few
  <2>3. Then(<<a, w>>)
    BY DEF w
  <2> QED BY <1>5, <2>1, <2>2, <2>3, Shape DEF Points
<1>7. \A op : At(op)' <=> a.op = op
  BY <1>6 DEF At, This
<1>8. Owing'
  <2>1. Owes(a)' /\ Owes(w)'
    BY <1>1, <1>3, <1>4 DEF Owes, Releases
  <2>2. ASSUME NEW b \in Below PROVE Owes(b)'
    <3>1. Owes(b) /\ b.op = "stream_bytes_end" /\ b.r \in Requests
      BY <1>1, CallFacts DEF Points, Owing, StreamOps
    <3>2. req'[b.r].kind = req[b.r].kind
      BY <1>3, <3>1
    <3> QED BY <3>1, <3>2 DEF Owes, Releases
  <2> QED BY <1>6, <2>1, <2>2 DEF Owing
<1>9. /\ \A q : ~Going(q) /\ ~Refusing(q)
      /\ \A q : On("mark_dead", q) \notin Stacked /\ On("establish_unless_closed", q) \notin Stacked
      /\ Do("settings_latched") \notin Stacked
  BY <1>1, CallFacts DEF Going, Refusing
<1>10. Do("settings_latched") \notin Stacked'
  BY <1>1, <1>4, <1>6, CallFacts
<1>11. HeadOwes'
  <2>1. CASE req[r].kind = "CONNECT"
    <3>1. a.op = "client_response_done"
      BY <2>1
    <3> QED BY <1>1, <1>3, <1>6, <1>7, <3>1 DEF HeadOwes
  <2>2. CASE req[r].kind = "REQUEST"
    <3>1. a.op = "server_request_done"
      BY <2>2
    <3>2. answered[r] = "nothing"
      BY <1>9, <2>2 DEF Points, Held, AnswersHeld, Undecided
    <3>3. everEst \/ NoneAccepted
      BY <1>1, <1>9 DEF Points, Held, AnswersHeld, NoneAccepted
    <3> QED BY <1>2, <1>3, <1>6, <1>7, <2>2, <3>1, <3>2, <3>3 DEF HeadOwes, NoneAccepted
  <2> QED BY <1>2, <2>1, <2>2
<1>12. SessionHeld'
  BY <1>1, <1>3, Typed DEF Points, Held, SessionHeld
<1>13. StreamsHeld'
  <2>1. ~At("client_response_done") /\ ~At("client_maybe_establish") /\ ~At("session_established")
    BY <1>1
  <2>2. req[r].kind = "CONNECT" => At("client_response_done")'
    BY <1>7
  <2> HIDE DEF Going, At
  <2>3. ASSUME NEW q \in Requests, q # r
        PROVE  /\ req'[q] = req[q] /\ ~Going(q)
               /\ req[q].kind = "CONNECT" /\ sess = "SENT" => ~req[q].dead /\ ~req[q].headers
    BY <1>3, <1>9, <2>1, <2>3 DEF Points, Held, StreamsHeld
  <2>4. /\ req[r].kind = "CONNECT" /\ sess = "SENT" => ~req[r].dead
        /\ ~req'[r].isSession /\ ~req'[r].idPending /\ req'[r].frame # "capsules"
        /\ req'[r].kind \in {"REQUEST", "CONNECT"}
    BY <1>1, <1>2, <1>3
  <2>5. \A q \in Requests : q # r =>
          /\ req[q].isSession => everEst /\ req[q].headers
          /\ req[q].frame = "capsules" => req[q].isSession
          /\ req[q].kind \in {"UNOPENED", "BTYPE"} => ~req[q].headers
          /\ req[q].kind = "UNOPENED" => ~req[q].dead
          /\ req[q].idPending => ~req[q].headers
          /\ ~(req[q].isSession /\ req[q].dead /\ req[q].kind # "FREE")
    BY <2>3 DEF Points, Held, StreamsHeld
  <2> QED BY <1>3, <2>2, <2>3, <2>4, <2>5, ZenonT(60) DEF StreamsHeld
<1>14. ParkedHeld'
  BY <1>2, <1>3, <1>9, Typed DEF Points, Held, ParkedHeld
<1>15. AnswersHeld'
  <2>1. \A q \in Requests : Undecided(q)' => Undecided(q) /\ req'[q].dead = req[q].dead
    BY <1>3 DEF Undecided
  <2>2. ~At("session_established")
    BY <1>1
  <2>3. \A q \in Requests : Undecided(q) => answered[q] = "nothing" \/ req[q].dead
    BY <1>9 DEF Points, Held, AnswersHeld
  <2>4. \A q \in Requests : answered[q] = "200" => settings = "wt" /\ (everEst \/ closed)
    BY <1>9, <2>2 DEF Points, Held, AnswersHeld
  <2> QED BY <1>10, <2>1, <2>3, <2>4 DEF AnswersHeld
<1> QED BY <1>6, <1>8, <1>11, <1>12, <1>13, <1>14, <1>15 DEF Points, Held

\* Frame bookkeeping leaves the streams the same.
LEMMA FrameSame ==
    ASSUME Inv, Points, NEW r \in Requests,
           \/ \E v \in {"none", "header", "HEADERS", "skip"} : Set(r, "frame", v)
           \/ req[r].isSession /\ Set(r, "frame", "capsules")
           \/ req' = [req EXCEPT ![r].frame = "none", ![r].trailers = TRUE]
    PROVE  Same
<1>1. \A q \in Requests : req[q].frame = "capsules" => req[q].isSession
  BY DEF Points, Held, StreamsHeld
<1>2. CASE \E v \in {"none", "header", "HEADERS", "skip"} : Set(r, "frame", v)
  <2>1. PICK v \in {"none", "header", "HEADERS", "skip"} : Set(r, "frame", v)
    BY <1>2
  <2> QED BY <1>1, <2>1, SetView, Typed DEF Same
<1>3. CASE req[r].isSession /\ Set(r, "frame", "capsules")
  BY <1>1, <1>3, SetView, Typed DEF Same
<1>4. CASE req' = [req EXCEPT ![r].frame = "none", ![r].trailers = TRUE]
  <2>1. /\ \A q \in Requests : q # r => req'[q] = req[q]
        /\ req'[r].kind = req[r].kind /\ req'[r].dead = req[r].dead
        /\ req'[r].headers = req[r].headers /\ req'[r].isSession = req[r].isSession
        /\ req'[r].idPending = req[r].idPending /\ req'[r].frame = "none"
    BY <1>4, Typed DEF Streams
  <2> QED BY <1>1, <2>1 DEF Same
<1> QED BY <1>2, <1>3, <1>4

LEMMA PointsFrameDone ==
    ASSUME Inv, Points, agenda # <<>>, This.op = "request_stream_bytes",
           NEW r \in Requests, r = This.r, ~closed, req[r].kind # "FREE", ~req[r].dead,
           UNCHANGED <<closed, settings, everEst, sess, sessionEs, closeRx, parked, answered>>,
           NEW f, f = "capsules" => req[r].isSession, FrameDone(r, f)
    PROVE  Points'
<1>1. CASE f = "skip" /\ Set(r, "frame", "none") /\ Then(<<Walk(r)>>)
  <2>1. Same
    BY <1>1, FrameSame
  <2> QED BY <1>1, <2>1, WalkCalm
<1>2. CASE /\ f = "capsules"
           /\ Set(r, "frame", "none") \/ Set(r, "frame", "capsules")
           /\ Then(<<On("session_capsule", r), Walk(r)>>)
  <2>1. Same
    BY <1>2, FrameSame
  <2> QED BY <1>2, <2>1, WalkCalm
<1>3. CASE /\ ~req[r].headers
           /\ req' = [req EXCEPT ![r].frame = "none", ![r].headers = TRUE]
           /\ Then(<<On(IF req[r].kind = "CONNECT" THEN "client_response_done"
                                                   ELSE "server_request_done", r), Walk(r)>>)
  <2> DEFINE op == IF req[r].kind = "CONNECT" THEN "client_response_done" ELSE "server_request_done"
             a == On(op, r)
  <2>1. op \in StreamOps
    BY DEF StreamOps
  <2>2. a \in Calls /\ a.op = op /\ a.r = r
    BY <2>1, CallFacts
  <2>3. Then(<<a, Walk(r)>>)
    BY <1>3
  <2> HIDE DEF a
  <2> QED BY <1>3, <2>2, <2>3, WalkHeaders
<1>4. CASE /\ req[r].headers
           /\ req' = [req EXCEPT ![r].frame = "none", ![r].trailers = TRUE]
           /\ \/ Then(<<Walk(r)>>) \/ Then(<<Do("conn_fatal")>>) \/ Then(RequestStreamFail(r))
  <2>1. Same
    BY <1>4, FrameSame
  <2> QED BY <1>4, <2>1, WalkCalm
<1>5. ASSUME NEW b \in TrailerBodies,
             Then(CASE b = "ok" -> <<Walk(r)>>
                    [] b = "qpack" -> <<Do("conn_fatal")>>
                    [] b \in {"buffer", "malformed"} -> RequestStreamFail(r))
      PROVE  Then(<<Walk(r)>>) \/ Then(<<Do("conn_fatal")>>) \/ Then(RequestStreamFail(r))
  BY <1>5 DEF TrailerBodies
<1> QED BY <1>1, <1>2, <1>3, <1>4, <1>5 DEF FrameDone

LEMMA PointsRequestStreamBytes ==
    ASSUME Inv, Points, RequestStreamBytes PROVE Points'
<1>1. agenda # <<>> /\ This.op = "request_stream_bytes"
  BY DEF RequestStreamBytes, At, This
<1>2. PICK r \in Requests : r = This.r
  BY <1>1, HeadStream DEF StreamOps
<1>3. UNCHANGED <<closed, settings, everEst, sess, sessionEs, closeRx, parked, answered>>
  BY DEF RequestStreamBytes, connVars, sessVars
<1>4. CASE /\ UNCHANGED req
           /\ \/ Then(<<>>) \/ Then(<<Do("conn_fatal")>>)
              \/ /\ req[r].kind # "FREE" /\ (req[r].kind = "CONNECT" => req[r].headers)
                 /\ Then(RequestStreamFail(r))
              \/ parked.es = r /\ Then(Refuse(r) \o <<Do("parked_request_cancel")>>)
  BY <1>1, <1>2, <1>3, <1>4, WalkCalm
<1>5. ASSUME NEW f, ~closed, req[r].kind # "FREE", ~req[r].dead, FrameDone(r, f),
             f = "capsules" => req[r].isSession
      PROVE  Points'
  BY <1>1, <1>2, <1>3, <1>5, PointsFrameDone
<1>6. ASSUME NEW v \in {"header", "HEADERS", "skip", "capsules"}, Set(r, "frame", v), Then(<<>>),
             v = "capsules" => req[r].isSession
      PROVE  Points'
  <2>1. Same
    BY <1>6, FrameSame
  <2> QED BY <1>1, <1>2, <1>3, <1>6, <2>1, WalkCalm
<1>7. ASSUME NEW f \in Frames, ~HeaderFatal(r, f)
      PROVE  /\ f = "oversize" => (req[r].kind = "CONNECT" => req[r].headers)
             /\ f # "oversize" => /\ PayloadOf(r, f) \in {"HEADERS", "skip", "capsules"}
                                  /\ PayloadOf(r, f) = "capsules" => req[r].isSession
  BY <1>7 DEF Frames, HeaderFatal, PayloadOf
<1>8. req[r].frame = "capsules" => req[r].isSession
  BY DEF Points, Held, StreamsHeld
<1>9. \/ Then(<<>>) /\ UNCHANGED req
      \/ ~closed /\ req[r].kind # "FREE" /\ ~req[r].dead /\ FrameDone(r, req[r].frame)
      \/ Set(r, "frame", "header") /\ Then(<<>>)
      \/ \E f \in Frames :
           /\ ~closed /\ req[r].kind # "FREE" /\ ~req[r].dead
           /\ \/ Then(<<Do("conn_fatal")>>) /\ UNCHANGED req
              \/ ~HeaderFatal(r, f) /\ f = "oversize" /\ Then(RequestStreamFail(r)) /\ UNCHANGED req
              \/ parked.es = r /\ Then(Refuse(r) \o <<Do("parked_request_cancel")>>) /\ UNCHANGED req
              \/ /\ ~HeaderFatal(r, f) /\ f # "oversize"
                 /\ FrameDone(r, PayloadOf(r, f)) \/ (Set(r, "frame", PayloadOf(r, f)) /\ Then(<<>>))
  <2>1. ASSUME NEW f, FrameDone(This.r, f) PROVE FrameDone(r, f)
    BY <1>2, <2>1 DEF FrameDone, Then, Set
  <2>2. \A f : (HeaderFatal(This.r, f) <=> HeaderFatal(r, f)) /\ PayloadOf(This.r, f) = PayloadOf(r, f)
    BY <1>2 DEF HeaderFatal, PayloadOf
  <2>3. ASSUME NEW v, Set(This.r, "frame", v) PROVE Set(r, "frame", v)
    BY <1>2, <2>3 DEF Set
  <2>4. Then(RequestStreamFail(This.r)) => Then(RequestStreamFail(r))
    BY <1>2 DEF Then
  <2>5. Then(Refuse(This.r) \o <<Do("parked_request_cancel")>>)
          => Then(Refuse(r) \o <<Do("parked_request_cancel")>>)
    BY <1>2 DEF Then
  <2>6. \/ Then(<<>>) /\ UNCHANGED req
        \/ ~closed /\ req[r].kind # "FREE" /\ ~req[r].dead /\ FrameDone(This.r, req[r].frame)
        \/ Set(This.r, "frame", "header") /\ Then(<<>>)
        \/ \E f \in Frames :
             /\ ~closed /\ req[r].kind # "FREE" /\ ~req[r].dead
             /\ \/ Then(<<Do("conn_fatal")>>) /\ UNCHANGED req
                \/ /\ ~HeaderFatal(This.r, f) /\ f = "oversize"
                   /\ Then(RequestStreamFail(This.r)) /\ UNCHANGED req
                \/ /\ parked.es = r /\ UNCHANGED req
                   /\ Then(Refuse(This.r) \o <<Do("parked_request_cancel")>>)
                \/ /\ ~HeaderFatal(This.r, f) /\ f # "oversize"
                   /\ \/ FrameDone(This.r, PayloadOf(This.r, f))
                      \/ Set(This.r, "frame", PayloadOf(This.r, f)) /\ Then(<<>>)
    BY <1>2 DEF RequestStreamBytes
  <2> QED BY <2>1, <2>2, <2>3, <2>4, <2>5, <2>6
<1>10. ASSUME NEW f \in Frames, ~closed, req[r].kind # "FREE", ~req[r].dead,
              \/ Then(<<Do("conn_fatal")>>) /\ UNCHANGED req
              \/ ~HeaderFatal(r, f) /\ f = "oversize" /\ Then(RequestStreamFail(r)) /\ UNCHANGED req
              \/ parked.es = r /\ Then(Refuse(r) \o <<Do("parked_request_cancel")>>) /\ UNCHANGED req
              \/ /\ ~HeaderFatal(r, f) /\ f # "oversize"
                 /\ FrameDone(r, PayloadOf(r, f)) \/ (Set(r, "frame", PayloadOf(r, f)) /\ Then(<<>>))
       PROVE  Points'
  <2>1. CASE ~HeaderFatal(r, f) /\ f # "oversize" /\ FrameDone(r, PayloadOf(r, f))
    BY <1>5, <1>7, <1>10, <2>1
  <2>2. CASE ~HeaderFatal(r, f) /\ f # "oversize" /\ Set(r, "frame", PayloadOf(r, f)) /\ Then(<<>>)
    BY <1>6, <1>7, <2>2
  <2>3. CASE ~HeaderFatal(r, f) /\ f = "oversize" /\ Then(RequestStreamFail(r)) /\ UNCHANGED req
    BY <1>4, <1>7, <1>10, <2>3
  <2> QED BY <1>4, <1>10, <2>1, <2>2, <2>3
<1> QED BY <1>4, <1>5, <1>6, <1>8, <1>9, <1>10

\* What is below a FIN that is being processed: the release behind it, and
\* what may be below that.
LEMMA FinView ==
    ASSUME Inv, Points, agenda # <<>>, This.op = "request_stream_fin"
    PROVE  /\ On("fin_release", This.r) \in Below
           /\ \A b \in Below : /\ b \in Calls /\ Owes(b)
                               /\ \/ b = On("fin_release", This.r)
                                  \/ b.op \in {"request_stream_bytes", "stream_bytes_end", "control_bytes"}
           /\ \A x \in Stacked : x = This \/ x \in Below
           /\ \A op : At(op) <=> This.op = op
<1>1. agenda \in Seq(Calls) /\ Len(agenda) \in Nat /\ \A op : At(op) <=> This.op = op
  BY HeadFacts, Typed
<1>2. Len(agenda) >= 2 /\ agenda[2] = On("fin_release", This.r)
  BY <1>1 DEF Inv, Stack, HeadDue
<1>3. On("fin_release", This.r) \in Below
  BY <1>1, <1>2 DEF Below
<1>4. ASSUME NEW k \in 2..Len(agenda)
      PROVE  \/ agenda[k] = On("fin_release", This.r)
             \/ agenda[k].op \in {"request_stream_bytes", "stream_bytes_end", "control_bytes"}
  <2>1. CASE k = 2
    BY <1>2, <2>1
  <2>2. CASE k > 2
    <3>1. 2 \in 1..Len(agenda) /\ k \in 1..Len(agenda)
      BY <1>1, <1>2
    <3>2. Under(agenda[2], agenda[k])
      BY <2>2, <3>1 DEF Points, Order, Chain
    <3> QED BY <1>2, <3>2, CallFacts DEF Under, Releases
  <2> QED BY <2>1, <2>2
<1>5. \A x \in Stacked : x = This \/ x \in Below
  BY HeadView DEF Points
<1>6. \A b \in Below : b \in Calls /\ Owes(b)
  BY HeadView DEF Points, Owing
<1> QED BY <1>1, <1>3, <1>4, <1>5, <1>6 DEF Below

\* A FIN is processed.
LEMMA FinTurn ==
    ASSUME Inv, Points, agenda # <<>>, This.op = "request_stream_fin",
           NEW r \in Requests, r = This.r,
           UNCHANGED <<closed, settings, everEst, closeRx, parked, req, answered>>,
           sess' = sess \/ (sess = "SENT" /\ sess' = "FAILED"),
           sessionEs' # r, sessionEs' = sessionEs \/ sessionEs' = NoStream,
           NEW calls \in Seq(Calls), Then(calls), Chain(calls),
           \A a \in Items(calls) : a.op \in Quick \cup {"shutdown_raw", "mark_dead"},
           Stacked' = Items(calls) \cup Below => \A a \in Items(calls) : Owes(a)',
           calls # <<>> => calls[1].op \notin HeadOps,
           sess' \in Active /\ sessionEs' = NoStream /\ ~closed =>
             calls # <<>> /\ calls[1].op \in {"conn_fatal", "session_closed"}
    PROVE  Points'
<1>1. /\ On("fin_release", r) \in Below
      /\ \A b \in Below : /\ b \in Calls /\ Owes(b)
                          /\ \/ b = On("fin_release", r)
                             \/ b.op \in {"request_stream_bytes", "stream_bytes_end", "control_bytes"}
      /\ \A x \in Stacked : x = This \/ x \in Below
      /\ \A op : At(op) <=> This.op = op
  BY FinView
<1>2. On("fin_release", r).op = "fin_release" /\ On("fin_release", r).r = r
  BY CallFacts
<1>3. \A a \in Items(calls) : \A b \in Below : Under(a, b)
  <2>1. \A a \in Items(calls) : a.op \in Light
    BY DEF Quick, Light
  <2> QED BY <1>1, <1>2, <2>1 DEF Under, Quick, Releases
<1>4. /\ Order' /\ Stacked' = Items(calls) \cup Below
      /\ calls # <<>> => agenda' # <<>> /\ This' = calls[1]
      /\ calls = <<>> => (agenda' # <<>> => This' \in Below)
  BY <1>3, Shape DEF Points
<1>5. HeadOwes'
  BY <1>1, <1>2, <1>4, NoHead DEF HeadOps
<1>6. Owing'
  <2>1. Owes(On("fin_release", r))' 
    <3>1. Owes(On("fin_release", r))
      BY <1>1
    <3> QED BY <1>2, <3>1 DEF Owes, Releases
  <2>2. ASSUME NEW b \in Below, b.op \in {"request_stream_bytes", "stream_bytes_end", "control_bytes"}
        PROVE  Owes(b)'
    BY <1>1, <2>2 DEF Owes, Releases
  <2> QED BY <1>1, <1>4, <2>1, <2>2 DEF Owing
<1>7. /\ \A q : Going(q) => Going(q)'
      /\ \A q : ~Refusing(q) /\ On("mark_dead", q) \notin Stacked
                /\ On("establish_unless_closed", q) \notin Stacked
      /\ Do("settings_latched") \notin Stacked
  BY <1>1, <1>2, <1>4, CallFacts DEF Going, Refusing
<1>8. Do("settings_latched") \notin Stacked'
  <2>1. \A a \in Items(calls) : a.op # "settings_latched"
    BY DEF Quick
  <2> QED BY <1>1, <1>2, <1>4, <2>1, CallFacts
<1>9. /\ ~At("client_response_done") /\ ~At("client_maybe_establish") /\ ~At("session_established")
      /\ ~At("conn_fatal") /\ ~At("session_closed")
  BY <1>1
<1>10. SessionHeld'
  <2>1. sess' \in Active /\ sessionEs' = NoStream /\ ~closed' =>
          At("conn_fatal")' \/ At("session_closed")'
    BY <1>4 DEF At, This
  <2>2. closeRx => everEst /\ sess = "CLOSED"
    BY <1>9 DEF Points, Held, SessionHeld
  <2>3. sessionEs # NoStream =>
          req[sessionEs].kind \in {"CONNECT", "REQUEST"} /\ req[sessionEs].isSession
    BY DEF Points, Held, SessionHeld
  <2> QED BY <2>1, <2>2, <2>3 DEF SessionHeld
<1>11. StreamsHeld'
  BY <1>7, <1>9 DEF Points, Held, StreamsHeld
<1>12. ParkedHeld'
  BY <1>7 DEF Points, Held, ParkedHeld
<1>13. AnswersHeld'
  <2>1. \A q \in Requests : Undecided(q) => answered[q] = "nothing" \/ req[q].dead
    BY <1>7 DEF Points, Held, AnswersHeld
  <2>2. \A q \in Requests : answered[q] = "200" => settings = "wt" /\ (everEst \/ closed)
    BY <1>7, <1>9 DEF Points, Held, AnswersHeld
  <2> QED BY <1>8, <2>1, <2>2 DEF AnswersHeld, Undecided
<1> QED BY <1>4, <1>5, <1>6, <1>10, <1>11, <1>12, <1>13 DEF Points, Held

LEMMA PointsRequestStreamFin ==
    ASSUME Inv, Points, RequestStreamFin PROVE Points'
<1>1. agenda # <<>> /\ This.op = "request_stream_fin"
  BY DEF RequestStreamFin, At, This
<1>2. PICK r \in Requests : r = This.r
  BY <1>1, HeadStream DEF StreamOps
<1>3. UNCHANGED <<closed, settings, everEst, closeRx, parked, req, answered>>
  BY DEF RequestStreamFin
<1>4. /\ On("fin_release", r) \in Below
      /\ \A op : At(op) <=> This.op = op
  BY <1>1, <1>2, FinView
<1>5. /\ ~(req[r].dead /\ req[r].isSession)
      /\ sessionEs # NoStream => req[sessionEs].isSession
      /\ closeRx => sess = "CLOSED"
      /\ req[r].isSession => req[r].kind \notin {"UNOPENED", "BTYPE"} /\ parked.es # r
  BY <1>1, <1>2, <1>4, NoStreamIsNone
     DEF Points, HeadOwes, Held, SessionHeld, StreamsHeld, ParkedHeld
<1>6. sess \in Active /\ sessionEs = NoStream => closed
  BY <1>1, <1>4 DEF Points, Held, SessionHeld
<1>7. ASSUME sess' = sess \/ (sess = "SENT" /\ sess' = "FAILED"),
             sessionEs' # r, sessionEs' = sessionEs \/ sessionEs' = NoStream,
             NEW calls \in Seq(Calls), Then(calls), \A a \in Items(calls) : a.op \in Quick,
             sess' \in Active /\ sessionEs' = NoStream /\ ~closed =>
               calls # <<>> /\ calls[1].op \in {"conn_fatal", "session_closed"}
      PROVE  Points'
  <2>1. Chain(calls) /\ Items(calls) \subseteq Calls /\ (calls # <<>> => calls[1].op \in Quick)
    BY <1>7, QuickChain
  <2>2. \A a \in Items(calls) : Owes(a)'
    BY <1>7, <2>1, QuickFits
  <2>3. calls # <<>> => calls[1].op \notin HeadOps
    BY <2>1 DEF Quick, HeadOps
  <2> QED BY <1>1, <1>2, <1>3, <1>7, <2>1, <2>2, <2>3, FinTurn
<1>8. CASE /\ UNCHANGED <<sess, sessionEs>> /\ ~req[r].isSession
           /\ Then(<<>>) \/ Then(<<Do("conn_fatal")>>)
  <2>1. sessionEs # r
    BY <1>5, <1>8, NoStreamIsNone
  <2>few. FewQuick
    BY <1>8 DEF FewQuick, Quick
  <2>2. PICK calls \in Seq(Calls) : Then(calls) /\ \A a \in Items(calls) : a.op \in Quick
    BY <2>few, QuickPick
  <2> QED BY <1>6, <1>7, <1>8, <2>1, <2>2
<1>9. CASE /\ sess = "SENT" /\ sess' = "FAILED" /\ UNCHANGED sessionEs /\ ~req[r].isSession
           /\ Then(<<Do("app")>>) \/ Then(<<Do("app"), Do("conn_fatal")>>)
  <2>1. sessionEs # r
    BY <1>5, <1>9, NoStreamIsNone
  <2>few. FewQuick
    BY <1>9 DEF FewQuick, Quick
  <2>2. PICK calls \in Seq(Calls) : Then(calls) /\ \A a \in Items(calls) : a.op \in Quick
    BY <2>few, QuickPick
  <2> QED BY <1>7, <1>9, <2>1, <2>2, CalmFacts
<1>10. CASE /\ UNCHANGED sess /\ sessionEs' = IF sessionEs = r THEN NoStream ELSE sessionEs
            /\ req[r].isSession
            /\ \/ Then(<<Do("conn_fatal")>>) \/ Then(<<Do("session_closed")>>)
               \/ Then(<<>>) /\ sess = "CLOSED"
               \/ Then(Refuse(r)) /\ sess = "CLOSED"
  <2>1. sessionEs' # r /\ (sessionEs' = sessionEs \/ sessionEs' = NoStream)
    BY <1>10, NoStreamIsNone
  <2>2. /\ <<Do("conn_fatal")>> # <<>> /\ <<Do("conn_fatal")>>[1].op = "conn_fatal"
        /\ <<Do("session_closed")>> # <<>> /\ <<Do("session_closed")>>[1].op = "session_closed"
    <3>1. Do("conn_fatal").op = "conn_fatal" /\ Do("session_closed").op = "session_closed"
      BY CallFacts
    <3> QED BY <3>1
  <2>3. CASE Then(<<Do("conn_fatal")>>)
    <3>1. <<Do("conn_fatal")>> \in Seq(Calls) /\ \A a \in Items(<<Do("conn_fatal")>>) : a.op \in Quick
      BY QuickFew DEF Quick
    <3>2. UNCHANGED sess
      BY <1>10
    <3> QED BY <1>7, <2>1, <2>2, <2>3, <3>1, <3>2
  <2>4. CASE Then(<<Do("session_closed")>>)
    <3>1. <<Do("session_closed")>> \in Seq(Calls) /\ \A a \in Items(<<Do("session_closed")>>) : a.op \in Quick
      BY QuickFew DEF Quick
    <3>2. UNCHANGED sess
      BY <1>10
    <3> QED BY <1>7, <2>1, <2>2, <2>4, <3>1, <3>2
  <2>5. CASE Then(<<>>) /\ sess = "CLOSED"
    BY <1>7, <1>10, <2>1, <2>5, QuickFew, CalmFacts
  <2>6. CASE Then(Refuse(r)) /\ sess = "CLOSED"
    <3>1. ASSUME Stacked' = Items(Refuse(r)) \cup Below PROVE \A a \in Items(Refuse(r)) : Owes(a)'
      <4>1. Going(r)' /\ On("mark_dead", r) \in Stacked'
        BY <1>4, <3>1, RefuseAlone DEF Going
      <4>2. Owes(On("shutdown_raw", r))' /\ Owes(On("mark_dead", r))'
        BY <1>3, <1>5, <1>10, <2>6, <4>1, RefuseOwes
      <4> QED BY <4>2, RefuseAlone
    <3>2. /\ \A a \in Items(Refuse(r)) : a.op \in {"shutdown_raw", "mark_dead"}
          /\ Refuse(r)[1].op \notin HeadOps
      BY RefuseAlone, CallFacts DEF HeadOps
    <3>3. sess \notin Active
      BY <2>6, CalmFacts
    <3> QED BY <1>1, <1>2, <1>3, <1>10, <2>1, <2>6, <3>1, <3>2, <3>3, RefuseAlone, FinTurn
  <2> QED BY <1>10, <2>3, <2>4, <2>5, <2>6
<1>11. \/ /\ UNCHANGED <<sess, sessionEs>> /\ ~req[r].isSession
          /\ Then(<<>>) \/ Then(<<Do("conn_fatal")>>)
       \/ /\ sess = "SENT" /\ sess' = "FAILED" /\ UNCHANGED sessionEs /\ ~req[r].isSession
          /\ Then(<<Do("app")>>) \/ Then(<<Do("app"), Do("conn_fatal")>>)
       \/ /\ UNCHANGED sess /\ sessionEs' = IF sessionEs = r THEN NoStream ELSE sessionEs
          /\ req[r].isSession
          /\ \/ Then(<<Do("conn_fatal")>>) \/ Then(<<Do("session_closed")>>)
             \/ Then(<<>>) /\ sess = "CLOSED"
             \/ Then(Refuse(r)) /\ sess = "CLOSED"
  <2>1. /\ <<App>> \o <<Do("conn_fatal")>> = <<Do("app"), Do("conn_fatal")>>
        /\ <<App>> \o <<>> = <<Do("app")>>
    <3>1. App \in Calls /\ Do("conn_fatal") \in Calls /\ App = Do("app")
      BY CallFacts DEF ConnOps, App
    <3> QED BY <3>1, Joined
  <2>2. \/ SessionFin(r) = <<Do("conn_fatal")>> \/ SessionFin(r) = <<Do("session_closed")>>
        \/ SessionFin(r) = <<>> /\ closeRx
        \/ SessionFin(r) = Refuse(r) /\ sess = "CLOSED"
    BY DEF SessionFin
  <2>3. \/ req[r].dead /\ Then(<<>>) /\ UNCHANGED <<sess, sessionEs>>
        \/ req[r].isSession /\ ForgetSessionEs(r) /\ Then(SessionFin(r)) /\ UNCHANGED sess
        \/ /\ ~req[r].isSession /\ UNCHANGED sessionEs
           /\ \/ sess = "SENT" /\ (SessionFailed(<<>>) \/ SessionFailed(<<Do("conn_fatal")>>))
              \/ UNCHANGED sess /\ (Then(<<>>) \/ Then(<<Do("conn_fatal")>>))
    <3> HIDE DEF Then, SessionFailed, ForgetSessionEs
    <3>1. \/ req[This.r].dead /\ Then(<<>>) /\ UNCHANGED <<sess, sessionEs>>
          \/ /\ req[This.r].isSession /\ ForgetSessionEs(This.r) /\ Then(SessionFin(This.r))
             /\ UNCHANGED sess
          \/ /\ ~req[This.r].isSession /\ UNCHANGED sessionEs
             /\ \/ sess = "SENT" /\ (SessionFailed(<<>>) \/ SessionFailed(<<Do("conn_fatal")>>))
                \/ UNCHANGED sess /\ (Then(<<>>) \/ Then(<<Do("conn_fatal")>>))
      BY DEF RequestStreamFin
    <3>2. ForgetSessionEs(This.r) => ForgetSessionEs(r)
      BY <1>2 DEF ForgetSessionEs
    <3>3. Then(SessionFin(This.r)) => Then(SessionFin(r))
      BY <1>2 DEF Then, SessionFin
    <3> QED BY <1>2, <3>1, <3>2, <3>3
  <2>4. CASE req[r].dead /\ Then(<<>>) /\ UNCHANGED <<sess, sessionEs>>
    BY <1>5, <2>4
  <2>5. CASE req[r].isSession /\ ForgetSessionEs(r) /\ Then(SessionFin(r)) /\ UNCHANGED sess
    BY <1>5, <2>2, <2>5 DEF ForgetSessionEs
  <2>6. CASE /\ ~req[r].isSession /\ UNCHANGED sessionEs
             /\ \/ sess = "SENT" /\ (SessionFailed(<<>>) \/ SessionFailed(<<Do("conn_fatal")>>))
                \/ UNCHANGED sess /\ (Then(<<>>) \/ Then(<<Do("conn_fatal")>>))
    BY <2>1, <2>6 DEF SessionFailed
  <2> QED BY <2>3, <2>4, <2>5, <2>6
<1> QED BY <1>8, <1>9, <1>10, <1>11

-----------------------------------------------------------------------------
(* The control stream.                                                     *)

\* A control frame is processed on an otherwise empty stack.  It may latch
\* the settings, and a GOAWAY may give up the CONNECT stream.
LEMMA ControlTurn ==
    ASSUME Inv, Points, agenda # <<>>, This.op = "control_bytes",
           UNCHANGED <<closed, everEst, sessionEs, closeRx, parked, answered>>,
           sess' = sess \/ (sess = "SENT" /\ sess' = "FAILED"),
           \A q \in Requests :
             /\ req'[q].kind = req[q].kind /\ req'[q].headers = req[q].headers
             /\ req'[q].isSession = req[q].isSession /\ req'[q].frame = req[q].frame
             /\ req'[q].idPending = req[q].idPending
             /\ \/ req'[q].dead = req[q].dead
                \/ req[q].kind = "CONNECT" /\ ~everEst /\ sess' # "SENT",
           NEW calls \in Seq(Calls), Then(calls), Chain(calls),
           calls # <<>> => calls[1].op \notin HeadOps,
           \A a \in Items(calls) : Owes(a)' /\ (a.op = "settings_latched" => settings = "none"),
           \/ settings' = settings
           \/ settings = "none" /\ Do("settings_latched") \in Items(calls)
    PROVE  Points'
<1>1. Below = {} /\ (\A op : At(op) <=> op = "control_bytes") /\ \A x \in Stacked : x = This
  <2>1. Below = {}
    BY HeadView DEF Points, Under
  <2>2. \A op : At(op) <=> This.op = op
    BY HeadFacts
  <2> QED BY <2>1, <2>2, HeadView DEF Points
<1>2. /\ Order' /\ Stacked' = Items(calls)
      /\ calls # <<>> => agenda' # <<>> /\ This' = calls[1]
      /\ calls = <<>> => agenda' = <<>>
  <2>1. /\ Order' /\ Stacked' = Items(calls) \cup Below
        /\ calls # <<>> => agenda' # <<>> /\ This' = calls[1]
        /\ calls = <<>> => (agenda' # <<>> => This' \in Below)
    BY <1>1, Shape DEF Points
  <2> QED BY <1>1, <2>1
<1>3. HeadOwes'
  BY <1>2, NoHead
<1>4. Owing'
  BY <1>2 DEF Owing
<1>5. /\ \A q : ~Going(q) /\ ~Refusing(q) /\ On("mark_dead", q) \notin Stacked
                /\ On("establish_unless_closed", q) \notin Stacked
      /\ Do("settings_latched") \notin Stacked
  BY <1>1, CallFacts DEF Going, Refusing
<1>6. SessionHeld'
  BY <1>1, Typed DEF Points, Held, SessionHeld, Active
<1>7. StreamsHeld'
  BY <1>1, <1>5 DEF Points, Held, StreamsHeld
<1>8. ParkedHeld'
  BY <1>2, <1>5, Typed DEF Points, Held, ParkedHeld
<1>9. AnswersHeld'
  <2>1. \A q \in Requests : Undecided(q)' => answered[q] = "nothing" \/ req'[q].dead
    BY <1>5 DEF Points, Held, AnswersHeld, Undecided
  <2>2. \A q \in Requests : answered[q] = "200" => settings = "wt" /\ (everEst \/ closed)
    BY <1>1, <1>5 DEF Points, Held, AnswersHeld
  <2>3. \A q \in Requests : answered[q] = "200" => settings' = "wt"
    BY <2>2
  <2>4. Do("settings_latched") \in Stacked' => NoneAccepted
    BY <1>2, <2>2, CallFacts DEF NoneAccepted
  <2> QED BY <2>1, <2>2, <2>3, <2>4 DEF AnswersHeld, NoneAccepted
<1> QED BY <1>2, <1>3, <1>4, <1>6, <1>7, <1>8, <1>9 DEF Points, Held

LEMMA PointsControlBytes ==
    ASSUME Inv, Points, ControlBytes PROVE Points'
<1>1. agenda # <<>> /\ This.op = "control_bytes"
  BY DEF ControlBytes, At, This
<1>2. UNCHANGED <<closed, everEst, sessionEs, closeRx, parked, answered>>
  BY DEF ControlBytes
<1> DEFINE l == Do("settings_latched")  d == Do("session_draining")  c == Do("control_bytes")
<1>3. /\ App \in Calls /\ App.op = "app" /\ l \in Calls /\ l.op = "settings_latched"
      /\ d \in Calls /\ d.op = "session_draining" /\ c \in Calls /\ c.op = "control_bytes"
  BY CallFacts DEF ConnOps
<1>4. CASE /\ UNCHANGED <<settings, sess, req>>
           /\ Then(<<>>) \/ Then(<<Do("conn_fatal")>>)
  <2>few. FewQuick
    BY <1>4 DEF FewQuick, Quick
  <2>1. PICK s \in Seq(Calls) : Then(s) /\ \A x \in Items(s) : x.op \in Quick
    BY <2>few, QuickPick
  <2>2. Chain(s) /\ Items(s) \subseteq Calls /\ (s # <<>> => s[1].op \in Quick)
    BY <2>1, QuickChain
  <2>3. \A a \in Items(s) : Owes(a)' /\ a.op # "settings_latched"
    BY <2>1, <2>2, QuickFits
  <2>4. s # <<>> => s[1].op \notin HeadOps
    BY <2>2 DEF Quick, HeadOps
  <2>5. UNCHANGED <<settings, sess, req>>
    BY <1>4
  <2> QED BY <1>1, <1>2, <2>1, <2>2, <2>3, <2>4, <2>5, ControlTurn
<1>5. CASE UNCHANGED <<settings, sess, req>> /\ Then(<<c>>)
  <2> HIDE DEF c
  <2>1. <<c>> \in Seq(Calls) /\ <<c>>[1] = c
    BY <1>3
  <2>2. Items(<<c>>) = {c} /\ Chain(<<c>>)
    BY Few
  <2>3. c.op \notin HeadOps /\ Owes(c)'
    BY <1>3 DEF HeadOps, Owes, Releases
  <2> QED BY <1>1, <1>2, <1>3, <1>5, <2>1, <2>2, <2>3, ControlTurn
<1>6. CASE UNCHANGED <<settings, sess, req>> /\ Then(<<d, c>>)
  <2> HIDE DEF c, d
  <2>1. <<d, c>> \in Seq(Calls) /\ <<d, c>>[1] = d
    BY <1>3
  <2>2. Under(d, c)
    BY <1>3 DEF Under, Releases, Guarded
  <2>3. Items(<<d, c>>) = {d, c} /\ Chain(<<d, c>>)
    BY <2>2, Few
  <2>4. d.op \notin HeadOps /\ Owes(c)' /\ Owes(d)'
    BY <1>3 DEF HeadOps, Owes, Releases
  <2> QED BY <1>1, <1>2, <1>3, <1>6, <2>1, <2>3, <2>4, ControlTurn
<1>7. CASE /\ settings = "none" /\ settings' # "none" /\ UNCHANGED <<sess, req>>
           /\ Then(<<App, l, c>>)
  <2>0. Do("settings_latched") = l
    OBVIOUS
  <2> HIDE DEF c, l
  <2>1. <<App, l, c>> \in Seq(Calls) /\ <<App, l, c>>[1] = App
    BY <1>3
  <2>2. Under(App, l) /\ Under(App, c) /\ Under(l, c)
    BY <1>3 DEF Under, Releases, Guarded, Light
  <2>3. Items(<<App, l, c>>) = {App, l, c} /\ Chain(<<App, l, c>>)
    BY <2>2, Three
  <2>4. App.op \notin HeadOps /\ Owes(App)' /\ Owes(c)' /\ Owes(l)'
    BY <1>3, <1>7 DEF HeadOps, Owes, Releases
  <2> QED BY <1>1, <1>2, <1>3, <1>7, <2>0, <2>1, <2>3, <2>4, ControlTurn
<1>8. ASSUME NEW r \in Requests, UNCHANGED settings, sess = "SENT", sess' = "FAILED",
             req[r].kind = "CONNECT", Set(r, "dead", TRUE),
             Then(<<App>> \o <<On("shutdown_unless_closed", r), d, c>>)
      PROVE  Points'
  <2> DEFINE u == On("shutdown_unless_closed", r)  t == <<u, d, c>>
  <2>1. u \in Calls /\ u.op = "shutdown_unless_closed" /\ u.r = r
    BY CallFacts DEF StreamOps
  <2>2. Then(<<App>> \o t)
    BY <1>8
  <2> HIDE DEF u, c, d
  <2>3. t \in Seq(Calls) /\ <<App>> \in Seq(Calls) /\ <<App>> # <<>> /\ <<App>>[1] = App
    BY <1>3, <2>1
  <2>4. /\ Under(u, d) /\ Under(u, c) /\ Under(d, c)
        /\ Under(App, u) /\ Under(App, d) /\ Under(App, c)
    BY <1>3, <2>1 DEF Under, Releases, Guarded
  <2>5. Items(t) = {u, d, c} /\ Chain(t) /\ Items(<<App>>) = {App} /\ Chain(<<App>>)
    <3>1. Items(t) = {u, d, c}
      BY Three
    <3>2. Chain(t)
      BY <2>4, Three
    <3>3. Items(<<App>>) = {App} /\ Chain(<<App>>)
      BY Few
    <3> QED BY <3>1, <3>2, <3>3
  <2> HIDE DEF t
  <2>6. /\ <<App>> \o t \in Seq(Calls) /\ Items(<<App>> \o t) = {App, u, d, c}
        /\ Chain(<<App>> \o t) /\ Head(<<App>> \o t) = App
    <3>1. \A x \in Items(<<App>>) : \A y \in Items(t) : Under(x, y)
      BY <2>4, <2>5
    <3>2. /\ <<App>> \o t \in Seq(Calls) /\ Items(<<App>> \o t) = Items(<<App>>) \cup Items(t)
          /\ Chain(<<App>> \o t) /\ Head(<<App>> \o t) = App
      BY <2>3, <2>5, <3>1, Joint
    <3>3. Items(<<App>>) \cup Items(t) = {App, u, d, c}
      BY <2>5
    <3> QED BY <3>2, <3>3
  <2>7. /\ \A q \in Requests : q # r => req'[q] = req[q]
        /\ req'[r].kind = req[r].kind /\ req'[r].headers = req[r].headers
        /\ req'[r].isSession = req[r].isSession /\ req'[r].frame = req[r].frame
        /\ req'[r].idPending = req[r].idPending
    BY <1>8, SetView, Typed
  <2>8. ~everEst
    BY <1>8, CalmFacts DEF Active
  <2>9. App.op \notin HeadOps /\ Owes(App)' /\ Owes(c)' /\ Owes(d)' /\ Owes(u)'
    BY <1>3, <1>8, <2>1, <2>7 DEF HeadOps, Owes, Releases
  <2>10. PICK s \in Seq(Calls) : /\ Then(s) /\ Items(s) = {App, u, d, c} /\ Chain(s)
                                 /\ Head(s) = App
    BY <2>2, <2>6
  <2> QED BY <1>1, <1>2, <1>3, <1>8, <2>1, <2>7, <2>8, <2>9, <2>10, ControlTurn
<1>9. \/ /\ UNCHANGED <<settings, sess, req>>
         /\ Then(<<>>) \/ Then(<<Do("conn_fatal")>>)
      \/ UNCHANGED <<settings, sess, req>> /\ Then(<<c>>)
      \/ UNCHANGED <<settings, sess, req>> /\ Then(<<d, c>>)
      \/ /\ settings = "none" /\ settings' # "none" /\ UNCHANGED <<sess, req>>
         /\ Then(<<App, l, c>>)
      \/ \E r \in Requests :
           /\ UNCHANGED settings /\ sess = "SENT" /\ sess' = "FAILED"
           /\ req[r].kind = "CONNECT" /\ Set(r, "dead", TRUE)
           /\ Then(<<App>> \o <<On("shutdown_unless_closed", r), d, c>>)
  <2> HIDE DEF Then, Set
  <2> QED BY DEF ControlBytes, SessionFailed, Settings
<1> QED BY <1>4, <1>5, <1>6, <1>7, <1>8, <1>9

\* SETTINGS are acted on: whatever was parked is not any more.
LEMMA LatchedTurn ==
    ASSUME Inv, Points, agenda # <<>>, This.op = "settings_latched",
           UNCHANGED <<closed, settings, everEst, sessionEs, closeRx, req, answered>>,
           sess' = sess \/ (sess = "PENDING" /\ sess' = "FAILED"),
           parked'.es = NoStream,
           NEW calls \in Seq(Calls), Then(calls), Chain(calls),
           \A a \in Items(calls) : /\ \A b \in Below : Under(a, b)
                                   /\ a.op # "settings_latched" /\ Owes(a)',
           calls # <<>> => calls[1].op \notin HeadOps \/ HeadOwes'
    PROVE  Points'
<1>1. /\ \A b \in Below : b.op = "control_bytes"
      /\ \A op : At(op) <=> op = "settings_latched"
      /\ \A x \in Stacked : x = This \/ x \in Below
  <2>1. \A b \in Below : b.op = "control_bytes"
    BY HeadView DEF Points, Under
  <2>2. \A op : At(op) <=> This.op = op
    BY HeadFacts
  <2> QED BY <2>1, <2>2, HeadView DEF Points
<1>2. /\ Order' /\ Stacked' = Items(calls) \cup Below
      /\ calls # <<>> => agenda' # <<>> /\ This' = calls[1]
      /\ calls = <<>> => (agenda' # <<>> => This' \in Below)
  BY Shape DEF Points
<1>3. HeadOwes'
  BY <1>1, <1>2, NoHead DEF HeadOps
<1>4. Owing'
  <2>1. ASSUME NEW b \in Below PROVE Owes(b)'
    BY <1>1 DEF Owes, Releases
  <2> QED BY <1>2, <2>1 DEF Owing
<1>5. /\ \A q : ~Going(q) /\ On("mark_dead", q) \notin Stacked
                /\ On("establish_unless_closed", q) \notin Stacked
      /\ Do("settings_latched") \notin Stacked'
  BY <1>1, <1>2, CallFacts DEF Going
<1>6. SessionHeld'
  BY <1>1, Typed DEF Points, Held, SessionHeld, Active
<1>7. StreamsHeld'
  BY <1>1, <1>5 DEF Points, Held, StreamsHeld
<1>8. ParkedHeld'
  BY DEF ParkedHeld
<1>9. AnswersHeld'
  BY <1>1, <1>5 DEF Points, Held, AnswersHeld, Undecided
<1> QED BY <1>2, <1>3, <1>4, <1>6, <1>7, <1>8, <1>9 DEF Points, Held

\* What is parked when the settings are acted on.
LEMMA LatchedView ==
    ASSUME Inv, Points, agenda # <<>>, This.op = "settings_latched"
    PROVE  /\ \A b \in Below : b \in Calls /\ b.op = "control_bytes"
           /\ settings # "none" /\ NoneAccepted
           /\ parked.es # NoStream =>
                /\ Perspective = "server" /\ parked.es \in Requests
                /\ req[parked.es].kind = "REQUEST" /\ req[parked.es].headers
                /\ ~req[parked.es].isSession /\ ~req[parked.es].dead
                /\ answered[parked.es] = "nothing"
<1>1. /\ \A b \in Below : b \in Calls /\ b.op = "control_bytes"
      /\ \A x \in Stacked : x.op \in {"settings_latched", "control_bytes"}
      /\ This \in Stacked /\ This \in Calls
  BY HeadView DEF Points, Under
<1>2. settings # "none"
  BY <1>1 DEF Points, Owing, Owes
<1>3. This = Do("settings_latched")
  BY <1>1 DEF Calls, Do, On, StreamOps, ConnOps
<1>4. NoneAccepted
  BY <1>1, <1>3 DEF Points, Held, AnswersHeld
<1>5. \A q : ~Refusing(q)
  BY <1>1, CallFacts DEF Refusing
<1>6. ASSUME parked.es # NoStream
      PROVE  /\ Perspective = "server" /\ parked.es \in Requests
             /\ req[parked.es].kind = "REQUEST" /\ req[parked.es].headers
             /\ ~req[parked.es].isSession /\ ~req[parked.es].dead
             /\ answered[parked.es] = "nothing"
  <2>1. parked.es \in Requests
    BY <1>6, Typed
  <2>2. /\ req[parked.es].kind = "REQUEST" /\ req[parked.es].headers
        /\ ~req[parked.es].isSession /\ ~req[parked.es].dead
        /\ answered[parked.es] = "nothing"
    BY <1>5, <1>6 DEF Points, Held, ParkedHeld
  <2> QED BY <2>1, <2>2 DEF Inv, Connects
<1> QED BY <1>1, <1>2, <1>4, <1>6

LEMMA PointsSettingsLatched ==
    ASSUME Inv, Points, SettingsLatched PROVE Points'
<1>1. agenda # <<>> /\ This.op = "settings_latched"
  BY DEF SettingsLatched, At, This
<1>2. UNCHANGED <<closed, settings, everEst, sessionEs, closeRx, req, answered>>
  BY DEF SettingsLatched
<1>3. /\ \A b \in Below : b \in Calls /\ b.op = "control_bytes"
      /\ settings # "none" /\ NoneAccepted
      /\ parked.es # NoStream =>
                /\ Perspective = "server" /\ parked.es \in Requests
                /\ req[parked.es].kind = "REQUEST" /\ req[parked.es].headers
                /\ ~req[parked.es].isSession /\ ~req[parked.es].dead
                /\ answered[parked.es] = "nothing"
  BY <1>1, LatchedView
<1>4. ASSUME NEW s \in Seq(Calls), Then(s), \A a \in Items(s) : a.op \in Quick,
             parked'.es = NoStream, sess' = sess \/ (sess = "PENDING" /\ sess' = "FAILED")
      PROVE  Points'
  <2>1. Chain(s) /\ Items(s) \subseteq Calls /\ (s # <<>> => s[1].op \in Quick)
    BY <1>4, QuickChain
  <2>2. \A a \in Items(s) : /\ \A b \in Below : Under(a, b)
                            /\ a.op # "settings_latched" /\ Owes(a)'
    BY <1>3, <1>4, <2>1, QuickFits
  <2>3. s # <<>> => s[1].op \notin HeadOps
    BY <2>1 DEF Quick, HeadOps
  <2> QED BY <1>1, <1>2, <1>4, <2>1, <2>2, <2>3, LatchedTurn
<1>5. CASE /\ Perspective = "client" /\ sess = "PENDING" /\ UNCHANGED parked
           /\ SessionFailed(<<>>) \/ (Then(<<Do("client_send_connect")>>) /\ UNCHANGED sess)
  <2>1. <<App>> \o <<>> = <<Do("app")>>
    BY CallFacts, Joined DEF App
  <2>2. parked'.es = NoStream
    BY <1>3, <1>5
  <2>3. CASE SessionFailed(<<>>)
    <3>1. Then(<<Do("app")>>) /\ sess' = "FAILED"
      BY <2>1, <2>3 DEF SessionFailed
    <3> QED BY <1>4, <1>5, <2>2, <3>1, QuickFew DEF Quick
  <2>4. CASE Then(<<Do("client_send_connect")>>) /\ UNCHANGED sess
    BY <1>4, <2>2, <2>4, QuickFew DEF Quick
  <2> QED BY <1>5, <2>3, <2>4
<1>6. CASE /\ Perspective = "server" /\ ParkedReady /\ parked' = NotParked /\ UNCHANGED sess
           /\ Then(<<On("server_request_done", parked.es)>>
                   \o IF parked.fin THEN <<On("deferred_fin", parked.es)>> ELSE <<>>)
  <2>0. PICK r \in Requests : r = parked.es
    BY <1>3, <1>6 DEF ParkedReady
  <2> DEFINE a == On("server_request_done", r)  b == On("deferred_fin", r)
  <2>1. /\ req[r].kind = "REQUEST" /\ req[r].headers
        /\ ~req[r].isSession /\ ~req[r].dead /\ answered[r] = "nothing" /\ parked'.es # r
        /\ parked'.es = NoStream
    BY <1>3, <1>6, <2>0, NoStreamIsNone DEF ParkedReady, NotParked
  <2>2. /\ a \in Calls /\ a.op = "server_request_done" /\ a.r = r
        /\ b \in Calls /\ b.op = "deferred_fin" /\ b.r = r
    BY <2>1, CallFacts DEF StreamOps
  <2>3. Then(<<a>>) \/ Then(<<a, b>>)
    <3>1. <<a>> \o <<>> = <<a>> /\ <<a>> \o <<b>> = <<a, b>>
      BY <2>2, Joined
    <3> QED BY <1>6, <2>0, <3>1
  <2> HIDE DEF a, b
  <2>4. /\ Under(a, b) /\ \A x \in Below : Under(a, x) /\ Under(b, x)
    BY <1>3, <2>2 DEF Under, Releases, Guarded
  <2>5. Owes(a)' /\ Owes(b)'
    BY <1>2, <1>3, <2>1, <2>2 DEF Owes, Releases
  <2>6. ASSUME NEW s \in Seq(Calls), Then(s), Chain(s), s # <<>>, s[1] = a, Items(s) \subseteq {a, b}
        PROVE  Points'
    <3>1. agenda' # <<>> /\ This' = a
      BY <1>1, <2>4, <2>6, Shape DEF Points
    <3>2. \A op : At(op)' <=> op = "server_request_done"
      BY <2>2, <3>1 DEF At, This
    <3>3. HeadOwes'
      BY <1>2, <1>3, <2>1, <2>2, <3>1, <3>2 DEF HeadOwes, NoneAccepted
    <3>4. \A x \in Items(s) : /\ \A y \in Below : Under(x, y)
                              /\ x.op # "settings_latched" /\ Owes(x)'
      BY <2>2, <2>4, <2>5, <2>6
    <3> QED BY <1>1, <1>2, <1>6, <2>1, <2>6, <3>3, <3>4, LatchedTurn
  <2>7. /\ <<a>> \in Seq(Calls) /\ <<a>> # <<>> /\ <<a>>[1] = a
        /\ <<a, b>> \in Seq(Calls) /\ <<a, b>> # <<>> /\ <<a, b>>[1] = a
    BY <2>2
  <2>8. Items(<<a>>) = {a} /\ Chain(<<a>>) /\ Items(<<a, b>>) = {a, b} /\ Chain(<<a, b>>)
    BY <2>4, Few
  <2>9. CASE Then(<<a>>)
    BY <2>6, <2>7, <2>8, <2>9
  <2>10. CASE Then(<<a, b>>)
    BY <2>6, <2>7, <2>8, <2>10
  <2> QED BY <2>3, <2>9, <2>10
<1>7. CASE ~(Perspective = "server" /\ ParkedReady) /\ Then(<<>>) /\ UNCHANGED <<sess, parked>>
  BY <1>3, <1>4, <1>7, QuickFew DEF ParkedReady
<1>8. \/ /\ Perspective = "client" /\ sess = "PENDING" /\ UNCHANGED parked
         /\ SessionFailed(<<>>) \/ (Then(<<Do("client_send_connect")>>) /\ UNCHANGED sess)
      \/ /\ Perspective = "server" /\ ParkedReady /\ parked' = NotParked /\ UNCHANGED sess
         /\ Then(<<On("server_request_done", parked.es)>>
                 \o IF parked.fin THEN <<On("deferred_fin", parked.es)>> ELSE <<>>)
      \/ ~(Perspective = "server" /\ ParkedReady) /\ Then(<<>>) /\ UNCHANGED <<sess, parked>>
  BY DEF SettingsLatched
<1> QED BY <1>5, <1>6, <1>7, <1>8

-----------------------------------------------------------------------------
(* The invariant holds.                                                    *)

LEMMA PointsInitially ==
    Init => Points
<1> SUFFICES ASSUME Init PROVE Points
  OBVIOUS
<1>1. agenda = <<>> /\ Len(agenda) = 0 /\ Stacked = {}
  BY DEF Init, Stacked, Items
<1>2. Order
  BY <1>1 DEF Order, Chain
<1>3. Owing
  BY <1>1 DEF Owing
<1>4. HeadOwes
  BY <1>1 DEF HeadOwes, At
<1>5. \A r \in Requests : /\ req[r].kind = "UNOPENED" /\ ~req[r].dead /\ ~req[r].headers
                          /\ ~req[r].isSession /\ ~req[r].idPending /\ req[r].frame = "none"
                          /\ answered[r] = "nothing"
  BY DEF Init, NewStream
<1>6. sessionEs = NoStream /\ parked.es = NoStream /\ ~closeRx /\ sess = "IDLE"
  BY DEF Init, NotParked
<1>7. SessionHeld /\ StreamsHeld /\ ParkedHeld /\ AnswersHeld
  BY <1>1, <1>5, <1>6 DEF SessionHeld, StreamsHeld, ParkedHeld, AnswersHeld, Active
<1> QED BY <1>2, <1>3, <1>4, <1>7 DEF Points, Held

LEMMA PointsUnchanged ==
    ASSUME Points, UNCHANGED vars PROVE Points'
<1> USE DEF vars, connVars, sessVars
<1>1. UNCHANGED <<Stacked>>
  BY DEF Stacked, Items
<1>2. Order'
  BY DEF Points, Order, Chain
<1>3. \A op : At(op)' <=> At(op)
  BY DEF At
<1>4. Owing'
  BY <1>1, <1>3 DEF Points, Owing, Owes, Going, Refusing
<1>5. HeadOwes'
  BY <1>1, <1>3 DEF Points, HeadOwes, This, NoneAccepted
<1>6. Held'
  BY <1>1, <1>3 DEF Points, Held, SessionHeld, StreamsHeld, ParkedHeld, AnswersHeld,
     Going, Refusing, Undecided, NoneAccepted
<1> QED BY <1>2, <1>4, <1>5, <1>6 DEF Points

LEMMA PointsStep ==
    ASSUME Inv, Points, Next PROVE Points'
<1>1. CASE EngineStep
  <2>1. CASE AppReturns \/ ConnFatal \/ SessionConnLost \/ OnConnError \/ ShutdownRaw
             \/ SessionClosed \/ OnSessionClosed \/ SessionDraining \/ SessionEstablished
    BY <2>1, PointsAppReturns, PointsConnFatal, PointsSessionConnLost, PointsCallbacks,
       PointsShutdownRaw, PointsSessionClosed, PointsSessionDraining, PointsSessionEstablished
  <2>2. CASE ClientSendConnect \/ ClientMaybeEstablish \/ ShutdownUnlessClosed
             \/ ClientResponseDone \/ MarkDead \/ ServerSendResponse \/ ServerRequestDone
             \/ EstablishUnlessClosed \/ RequestStreamFailed
    BY <2>2, PointsClientSendConnect, PointsClientMaybeEstablish, PointsShutdownUnlessClosed,
       PointsClientResponseDone, PointsMarkDead, PointsServerSendResponse,
       PointsServerRequestDone, PointsEstablishUnlessClosed, PointsRequestStreamFailed
  <2>3. CASE SessionStreamPoisoned \/ SessionCapsule \/ RequestStreamBytes
             \/ ParkedRequestCancel \/ RequestStreamFin \/ FinRelease \/ StreamBytesEnd
             \/ ResetRelease \/ ControlBytes \/ SettingsLatched \/ DeferredFin
    BY <2>3, PointsSessionStreamPoisoned, PointsSessionCapsule, PointsRequestStreamBytes,
       PointsParkedRequestCancel, PointsRequestStreamFin, PointsFinRelease,
       PointsStreamBytesEnd, PointsResetRelease, PointsControlBytes, PointsSettingsLatched,
       PointsDeferredFin
  <2> QED BY <1>1, <2>1, <2>2, <2>3 DEF EngineStep
<1>2. CASE BackendInput
  <2>1. role.requests \subseteq Requests
    BY RoleRequests DEF Inv, TypeOK
  <2>2. ASSUME NEW r \in role.requests,
               \/ OnPeerBidiOpened(r) \/ OnStreamBytes(r) \/ OnStreamFin(r)
               \/ OnStreamReset(r) \/ OnStopSending(r) \/ OnStreamTerminal(r)
               \/ OnStreamNativeId(r)
        PROVE  Points'
    <3>1. r \in Requests
      BY <2>1
    <3> QED BY <2>2, <3>1, PointsOnPeerBidiOpened, PointsOnStreamBytes, PointsOnStreamFin,
               PointsOnStreamReset, PointsOnStopSending, PointsOnStreamTerminal,
               PointsOnStreamNativeId
  <2>3. CASE OnControlBytes
    BY <2>3, PointsOnControlBytes
  <2>4. CASE \/ \E ok \in BOOLEAN : OpenDeferredLocals(ok)
             \/ OnPeerControlOpened \/ OnCriticalViolation \/ OnConnClosed \/ SetTransportError
    BY <2>4, PointsPlain
  <2> QED BY <1>2, <2>2, <2>3, <2>4 DEF BackendInput
<1>3. CASE AppOperation
  BY <1>3, PointsPlain DEF AppOperation
<1> QED BY <1>1, <1>2, <1>3 DEF Next

\* The invariant that ties every waiting call to its stream holds in every
\* reachable state.
THEOREM PointsInductive ==
    Spec => []Points
<1>1. Init => Points
  BY PointsInitially
<1>2. Inv /\ Points /\ [Next]_vars => Points'
  BY PointsStep, PointsUnchanged
<1> QED BY <1>1, <1>2, Inductive, PTL DEF Spec

\* session_es, parked_es and the stream of every continuation are never stale
\* where conn.c follows them.
THEOREM PointersHold ==
    Spec => []PointersLive
<1>1. Inv /\ Points => PointersLive
  <2> SUFFICES ASSUME Inv, Points PROVE PointersLive
    OBVIOUS
  <2>1. TypeOK
    BY DEF Inv
  <2>2. ASSUME Idle
        PROVE  (\A op : ~At(op)) /\ (\A r : ~Refusing(r)) /\ Do("settings_latched") \notin Stacked
    BY <2>2, AtRest
  <2>3. SessionStreamLive
    BY <2>2 DEF Points, Held, SessionHeld, SessionStreamLive
  <2>4. ParkedRequestLive
    <3>1. ASSUME parked.es # NoStream, Idle
          PROVE  ~req[parked.es].dead /\ settings = "none" /\ answered[parked.es] = "nothing"
      BY <2>2, <3>1 DEF Points, Held, ParkedHeld
    <3> QED BY <3>1 DEF Points, Held, ParkedHeld, ParkedRequestLive
  <2> QED BY <2>1, <2>3, <2>4 DEF PointersLive
<1> QED BY <1>1, Inductive, PointsInductive, PTL

\* However callbacks nest on conn.c's stack: one outcome of the session
\* (session_failed, session_closed), one estream_release of a stream, one
\* server_send_response to a request.
THEOREM OnceHolds ==
    Spec => []OnceOnly
<1>1. Inv /\ Points => ReleaseOnce /\ AnswerOnce
  <2> SUFFICES ASSUME Inv, Points PROVE ReleaseOnce /\ AnswerOnce
    OBVIOUS
  <2>1. ASSUME agenda # <<>>, This.op \in {"fin_release", "reset_release", "session_stream_poisoned"}
        PROVE  req[This.r].kind # "FREE"
    <3>1. Owes(This)
      BY <2>1, HeadView DEF Points, Owing
    <3> QED BY <2>1, <3>1 DEF Owes, Releases
  <2>2. AnswerOnce
    BY DEF Points, HeadOwes, AnswerOnce, NoneAccepted
  <2> QED BY <2>1, <2>2 DEF ReleaseOnce
<1> QED BY <1>1, Inductive, PointsInductive, OneStory, PTL DEF OnceOnly

=============================================================================
