------------------------ MODULE EngineSession_proof ------------------------
(***************************************************************************)
(* Proofs about EngineSession, for every set of connections, request ids   *)
(* and GOAWAY ids: types (no function of conn.c runs on a NULL estream),   *)
(* the error record that no later cause changes, one outcome whatever the  *)
(* callbacks do in between, and the promise of SessionContract, step by    *)
(* step.                                                                   *)
(***************************************************************************)
EXTENDS EngineSession, FiniteSetTheorems, TLAPS

-----------------------------------------------------------------------------
(* Calls and the stack of them.                                            *)

\* The calls are what their types say.
LEMMA CallFacts ==
    /\ \A op \in StreamOps : \A r \in Requests : On(op, r) \in Calls
    /\ \A op \in ConnOps : Do(op) \in Calls
    /\ App \in Calls
    /\ \A op, r : On(op, r).op = op /\ On(op, r).r = r
    /\ \A op : Do(op).op = op
    /\ App.op = "app"
    /\ \A c \in Calls : c.op \in StreamOps => c.r \in Requests
<1>1. \A op, r : On(op, r).op = op /\ On(op, r).r = r
  BY DEF On
<1>2. \A op : Do(op).op = op
  BY DEF On, Do
<1>3. App.op = "app"
  BY DEF On, Do, App
<1>4. \A op \in StreamOps : \A r \in Requests : On(op, r) \in Calls
  BY DEF On, Calls
<1>5. \A op \in ConnOps : Do(op) \in Calls
  BY DEF On, Do, Calls
<1>6. App \in Calls
  BY <1>5 DEF App, ConnOps
<1>7. \A c \in Calls : c.op \in StreamOps => c.r \in Requests
  BY DEF Calls, StreamOps, ConnOps
<1> QED BY <1>1, <1>2, <1>3, <1>4, <1>5, <1>6, <1>7

\* Sequences of up to four calls.
LEMMA Literals ==
    ASSUME NEW a \in Calls, NEW b \in Calls, NEW c \in Calls, NEW d \in Calls
    PROVE  /\ <<>> \in Seq(Calls) /\ <<a>> \in Seq(Calls) /\ <<a, b>> \in Seq(Calls)
           /\ <<a, b, c>> \in Seq(Calls) /\ <<a, b, c, d>> \in Seq(Calls)
  OBVIOUS

\* What a return into `calls' makes of the stack.
LEMMA Returned ==
    ASSUME agenda \in Seq(Calls), agenda # <<>>, NEW calls \in Seq(Calls),
           agenda' = calls \o Tail(agenda)
    PROVE  /\ agenda' \in Seq(Calls)
           /\ Len(agenda') = Len(calls) + Len(agenda) - 1
           /\ \A i \in 1..Len(calls) : agenda'[i] = calls[i]
           /\ \A i \in 1..Len(agenda') : i > Len(calls) =>
                /\ i - Len(calls) + 1 \in 2..Len(agenda)
                /\ agenda'[i] = agenda[i - Len(calls) + 1]
<1>1. /\ Tail(agenda) \in Seq(Calls) /\ Len(Tail(agenda)) = Len(agenda) - 1
      /\ \A i \in 1..Len(Tail(agenda)) : Tail(agenda)[i] = agenda[i + 1]
  OBVIOUS
<1> QED BY <1>1

\* What a call on top makes of the stack.
LEMMA Entered ==
    ASSUME agenda \in Seq(Calls), NEW calls \in Seq(Calls),
           agenda' = calls \o agenda
    PROVE  /\ agenda' \in Seq(Calls)
           /\ Len(agenda') = Len(calls) + Len(agenda)
           /\ \A i \in 1..Len(calls) : agenda'[i] = calls[i]
           /\ \A i \in 1..Len(agenda') : i > Len(calls) =>
                /\ i - Len(calls) \in 1..Len(agenda)
                /\ agenda'[i] = agenda[i - Len(calls)]
  OBVIOUS

\* The call at the head.
LEMMA TheHead ==
    ASSUME agenda \in Seq(Calls), agenda # <<>>
    PROVE  /\ This \in Calls /\ This = agenda[1] /\ Len(agenda) >= 1
           /\ This.op \in StreamOps => This.r \in Requests
<1>1. This \in Calls /\ This = agenda[1] /\ Len(agenda) >= 1
  BY DEF This
<1> QED BY <1>1, CallFacts

\* Requests of the connection are requests.
LEMMA RoleRequests ==
    ASSUME role \in Roles
    PROVE  role.requests \subseteq Requests
  BY DEF Requests

\* The stream of the call at the head.
LEMMA AtStream ==
    ASSUME agenda \in Seq(Calls)
    PROVE  \A op \in StreamOps : At(op) => This.r \in Requests
  BY TheHead DEF At, This

-----------------------------------------------------------------------------
(* Types.                                                                  *)

\* TypeOK in parts, by what the actions change together.
ConnTyped ==
    /\ role \in Roles /\ closed \in BOOLEAN
    /\ locals \in {"idle", "deferred", "attempted"}
    /\ control \in {"none", "untyped", "open"}
    /\ settings \in {"none", "no_wt", "wt"}
    /\ goaway \in role.goaway \cup {NoId}
    /\ err \in {"unset", "engine", "backend", "terminal_input", "sealed"}
SessTyped ==
    /\ sess \in Opening \cup Active \cup Final
    /\ everEst \in BOOLEAN /\ sessionEs \in Requests \cup {NoStream}
    /\ respOk \in BOOLEAN /\ closeRx \in BOOLEAN /\ drainRx \in BOOLEAN
    /\ capsCut \in BOOLEAN /\ wtLive \in BOOLEAN
ParkedTyped == parked \in [es : Requests \cup {NoStream}, fin : BOOLEAN]
ReqTyped == req \in [Requests -> Streams]
HistoryTyped ==
    /\ told \in Seq(Callbacks)
    /\ answered \in [Requests -> {"nothing", "reset", "200", "error"}]
AgendaTyped == agenda \in Seq(Calls)

LEMMA TypeParts ==
    TypeOK <=> /\ ConnTyped /\ SessTyped /\ ParkedTyped /\ ReqTyped
               /\ HistoryTyped /\ AgendaTyped
  BY DEF TypeOK, ConnTyped, SessTyped, ParkedTyped, ReqTyped, HistoryTyped, AgendaTyped

\* The error record and the connection's own variables.
LEMMA ConnKeeps ==
    ASSUME ConnTyped, Next
    PROVE  ConnTyped'
<1> USE DEF ConnTyped, connVars, Latch
<1>1. role' = role
  BY DEF Next
<1>2. CASE ConnFatal
  BY <1>1, <1>2 DEF ConnFatal
<1>3. CASE ControlBytes
  BY <1>1, <1>3 DEF ControlBytes, Settings, SessionFailed
<1>4. CASE SessionConnLost \/ OnConnError \/ OnSessionClosed \/ ClientConnect
  BY <1>1, <1>4 DEF SessionConnLost, OnConnError, OnSessionClosed, ClientConnect, SessionFailed
<1>5. CASE ClientSendConnect \/ ClientMaybeEstablish \/ ClientResponseDone
  <2>1. /\ UNCHANGED <<closed, locals, control, settings, goaway>>
        /\ err' = err \/ Latch("sealed")
    BY <1>5 DEF ClientSendConnect, ClientMaybeEstablish, ClientResponseDone, SessionFailed
  <2> QED BY <1>1, <2>1
<1>6. CASE SettingsLatched
  BY <1>1, <1>6 DEF SettingsLatched, SessionFailed
<1>7. CASE RequestStreamFin
  BY <1>1, <1>7 DEF RequestStreamFin, SessionFailed
<1>8. CASE \E r \in role.requests : OnStreamReset(r)
  BY <1>1, <1>8 DEF OnStreamReset
<1>9. CASE OnConnClosed \/ SetTransportError
  BY <1>1, <1>9 DEF OnConnClosed, SetTransportError
<1>10. CASE Start \/ OnPeerControlOpened \/ \E ok \in BOOLEAN : OpenDeferredLocals(ok)
  BY <1>1, <1>10 DEF Start, OnPeerControlOpened, OpenDeferredLocals
<1>11. ASSUME UNCHANGED connVars PROVE ConnTyped'
  BY <1>1, <1>11
<1>12. \/ UNCHANGED connVars \/ ConnFatal \/ ControlBytes
       \/ SessionConnLost \/ OnConnError \/ OnSessionClosed \/ ClientConnect
       \/ ClientSendConnect \/ ClientMaybeEstablish \/ ClientResponseDone
       \/ SettingsLatched \/ RequestStreamFin
       \/ \E r \in role.requests : OnStreamReset(r)
       \/ OnConnClosed \/ SetTransportError \/ Start \/ OnPeerControlOpened
       \/ \E ok \in BOOLEAN : OpenDeferredLocals(ok)
  <2>1. CASE EngineStep
    BY <2>1 DEF EngineStep, AppReturns, ShutdownRaw, SessionClosed, SessionDraining,
       SessionEstablished, ShutdownUnlessClosed, MarkDead, ServerSendResponse,
       ServerRequestDone, EstablishUnlessClosed, RequestStreamFailed,
       SessionStreamPoisoned, SessionCapsule, RequestStreamBytes,
       ParkedRequestCancel, FinRelease, StreamBytesEnd, ResetRelease, DeferredFin
  <2>2. CASE BackendInput
    BY <2>2 DEF BackendInput, OnPeerBidiOpened, OnStreamBytes, OnStreamFin,
       OnStopSending, OnStreamTerminal, OnStreamNativeId, OnCriticalViolation,
       OnControlBytes
  <2>3. CASE AppOperation
    BY <2>3 DEF AppOperation, SessionClose, SessionDrain, WtStreams
  <2> QED BY <2>1, <2>2, <2>3 DEF Next
<1> HIDE DEF ConnTyped, connVars, Latch
<1> QED BY <1>2, <1>3, <1>4, <1>5, <1>6, <1>7, <1>8, <1>9, <1>10, <1>11, <1>12

\* The session's variables.
LEMMA SessKeeps ==
    ASSUME SessTyped, AgendaTyped, Next
    PROVE  SessTyped'
<1> USE DEF SessTyped, sessVars, Opening, Active, Final, ForgetSessionEs
<1>1. CASE SessionConnLost \/ SessionClosed \/ SessionDraining
  <2>1. CASE SessionConnLost
    BY <2>1 DEF SessionConnLost, SessionFailed
  <2>2. CASE SessionClosed
    BY <2>2 DEF SessionClosed
  <2>3. CASE SessionDraining
    BY <2>3 DEF SessionDraining
  <2> QED BY <1>1, <2>1, <2>2, <2>3
<1>2. CASE SessionEstablished
  <2>1. This.r \in Requests
    BY <1>2, AtStream DEF SessionEstablished, AgendaTyped, StreamOps
  <2> QED BY <1>2, <2>1 DEF SessionEstablished
<1>3. CASE ClientConnect \/ ClientSendConnect \/ ClientMaybeEstablish
  <2>1. sess' \in {sess, "PENDING", "SENT", "FAILED"} /\ respOk' \in {respOk, FALSE}
    BY <1>3 DEF ClientConnect, ClientSendConnect, ClientMaybeEstablish, SessionFailed
  <2>2. UNCHANGED <<everEst, sessionEs, closeRx, drainRx, capsCut, wtLive>>
    BY <1>3 DEF ClientConnect, ClientSendConnect, ClientMaybeEstablish
  <2> QED BY <2>1, <2>2
<1>4. CASE ClientResponseDone
  BY <1>4 DEF ClientResponseDone, SessionFailed
<1>5. CASE RequestStreamFailed \/ SessionStreamPoisoned \/ FinRelease
  BY <1>5 DEF RequestStreamFailed, SessionStreamPoisoned, FinRelease
<1>6. CASE SessionCapsule
  <2>1. UNCHANGED <<sess, everEst, sessionEs, respOk, drainRx, wtLive>>
    BY <1>6 DEF SessionCapsule
  <2>2. PICK c \in Capsules :
          \/ capsCut' = (capsCut \/ (~closeRx /\ c = "cut")) /\ UNCHANGED closeRx
          \/ capsCut' = FALSE /\ closeRx' = (c \in {"CLOSE", "CLOSE+"})
    BY <1>6 DEF SessionCapsule
  <2>3. capsCut' \in BOOLEAN /\ closeRx' \in BOOLEAN
    <3>1. (capsCut \/ (~closeRx /\ c = "cut")) \in BOOLEAN /\ (c \in {"CLOSE", "CLOSE+"}) \in BOOLEAN
      OBVIOUS
    <3> HIDE DEF sessVars, Opening, Active, Final, ForgetSessionEs
    <3> QED BY <2>2, <3>1, Zenon
  <2> QED BY <2>1, <2>3
<1>7. CASE RequestStreamFin
  BY <1>7 DEF RequestStreamFin, SessionFailed
<1>8. CASE \E r \in role.requests : OnStreamReset(r)
  BY <1>8 DEF OnStreamReset, SessionReset
<1>9. CASE ControlBytes \/ SettingsLatched
  <2>1. UNCHANGED <<everEst, sessionEs, respOk, closeRx, drainRx, capsCut, wtLive>>
    BY <1>9 DEF ControlBytes, SettingsLatched
  <2>2. sess' \in {sess, "FAILED"}
    BY <1>9 DEF ControlBytes, SettingsLatched, SessionFailed
  <2> QED BY <2>1, <2>2
<1>10. CASE WtStreams
  BY <1>10 DEF WtStreams
<1>11. ASSUME UNCHANGED sessVars PROVE SessTyped'
  BY <1>11
<1>12. \/ UNCHANGED sessVars \/ SessionConnLost \/ SessionClosed \/ SessionDraining
       \/ SessionEstablished \/ ClientConnect \/ ClientSendConnect
       \/ ClientMaybeEstablish \/ ClientResponseDone \/ RequestStreamFailed
       \/ SessionStreamPoisoned \/ FinRelease \/ SessionCapsule \/ RequestStreamFin
       \/ \E r \in role.requests : OnStreamReset(r)
       \/ ControlBytes \/ SettingsLatched \/ WtStreams
  <2>1. CASE EngineStep
    BY <2>1 DEF EngineStep, AppReturns, ConnFatal, OnConnError, ShutdownRaw,
       OnSessionClosed, ShutdownUnlessClosed, MarkDead, ServerSendResponse,
       ServerRequestDone, EstablishUnlessClosed, RequestStreamBytes,
       ParkedRequestCancel, StreamBytesEnd, ResetRelease, DeferredFin
  <2>2. CASE BackendInput
    BY <2>2 DEF BackendInput, OpenDeferredLocals, OnPeerBidiOpened, OnStreamBytes,
       OnStreamFin, OnStopSending, OnStreamTerminal, OnStreamNativeId,
       OnPeerControlOpened, OnCriticalViolation, OnControlBytes, OnConnClosed,
       SetTransportError
  <2>3. CASE AppOperation
    BY <2>3 DEF AppOperation, Start, SessionClose, SessionDrain
  <2> QED BY <2>1, <2>2, <2>3 DEF Next
<1> HIDE DEF SessTyped, sessVars, Opening, Active, Final, ForgetSessionEs
<1> QED BY <1>1, <1>2, <1>3, <1>4, <1>5, <1>6, <1>7, <1>8, <1>9, <1>10, <1>11, <1>12

\* parked_es and the FIN held with it.
LEMMA ParkedKeeps ==
    ASSUME ParkedTyped, AgendaTyped, Next
    PROVE  ParkedTyped'
<1>0. ASSUME \/ parked' = parked \/ parked' = NotParked
             \/ parked' = [parked EXCEPT !.fin = TRUE]
             \/ \E r \in Requests : parked' = [es |-> r, fin |-> FALSE]
      PROVE  ParkedTyped'
  <2>1. CASE parked' = parked
    BY <2>1 DEF ParkedTyped
  <2>4. CASE parked' = NotParked
    <3>1. NotParked \in [es : Requests \cup {NoStream}, fin : BOOLEAN]
      BY DEF NotParked
    <3> QED BY <2>4, <3>1 DEF ParkedTyped
  <2>2. CASE parked' = [parked EXCEPT !.fin = TRUE]
    BY <2>2 DEF ParkedTyped
  <2>3. ASSUME NEW r \in Requests, parked' = [es |-> r, fin |-> FALSE] PROVE ParkedTyped'
    BY <2>3 DEF ParkedTyped
  <2> QED BY <1>0, <2>1, <2>2, <2>3, <2>4
<1>1. CASE ServerRequestDone
  <2>1. This.r \in Requests
    BY <1>1, AtStream DEF ServerRequestDone, AgendaTyped, StreamOps
  <2>2. parked' = parked \/ parked' = [es |-> This.r, fin |-> FALSE]
    BY <1>1 DEF ServerRequestDone
  <2> QED BY <1>0, <2>1, <2>2
<1>2. CASE RequestStreamFailed \/ ParkedRequestCancel \/ StreamBytesEnd \/ SettingsLatched
  <2>1. parked' = parked \/ parked' = NotParked \/ parked' = [parked EXCEPT !.fin = TRUE]
    BY <1>2 DEF RequestStreamFailed, ParkedRequestCancel, StreamBytesEnd, SettingsLatched
  <2> QED BY <1>0, <2>1
<1>3. CASE \E r \in role.requests : OnStreamFin(r) \/ OnStreamReset(r) \/ OnStreamTerminal(r)
  <2>1. parked' = parked \/ parked' = NotParked \/ parked' = [parked EXCEPT !.fin = TRUE]
    BY <1>3 DEF OnStreamFin, OnStreamReset, OnStreamTerminal
  <2> QED BY <1>0, <2>1
<1>4. ASSUME UNCHANGED parked PROVE ParkedTyped'
  BY <1>0, <1>4
<1>5. \/ UNCHANGED parked \/ ServerRequestDone \/ RequestStreamFailed
      \/ ParkedRequestCancel \/ StreamBytesEnd \/ SettingsLatched
      \/ \E r \in role.requests : OnStreamFin(r) \/ OnStreamReset(r) \/ OnStreamTerminal(r)
  <2>1. CASE EngineStep
    BY <2>1 DEF EngineStep, AppReturns, ConnFatal, SessionConnLost, OnConnError,
       ShutdownRaw, SessionClosed, OnSessionClosed, SessionDraining,
       SessionEstablished, ClientSendConnect, ClientMaybeEstablish,
       ShutdownUnlessClosed, ClientResponseDone, MarkDead, ServerSendResponse,
       EstablishUnlessClosed, SessionStreamPoisoned, SessionCapsule,
       RequestStreamBytes, RequestStreamFin, FinRelease, ResetRelease,
       ControlBytes, DeferredFin
  <2>2. CASE BackendInput
    BY <2>2 DEF BackendInput, OpenDeferredLocals, OnPeerBidiOpened, OnStreamBytes,
       OnStopSending, OnStreamNativeId,
       OnPeerControlOpened, OnCriticalViolation, OnControlBytes, OnConnClosed,
       SetTransportError
  <2>3. CASE AppOperation
    BY <2>3 DEF AppOperation, Start, ClientConnect, SessionClose, SessionDrain, WtStreams
  <2> QED BY <2>1, <2>2, <2>3 DEF Next
<1> QED BY <1>1, <1>2, <1>3, <1>4, <1>5

\* The history: the callbacks told and the answers sent.
LEMMA HistoryKeeps ==
    ASSUME HistoryTyped, AgendaTyped, Next
    PROVE  HistoryTyped'
<1>0. ASSUME UNCHANGED answered,
             UNCHANGED told \/ \E cb \in Callbacks : Tell(cb)
      PROVE  HistoryTyped'
  BY <1>0 DEF HistoryTyped, Tell
<1>1. CASE ShutdownRaw \/ ServerSendResponse
  <2>1. This.r \in Requests
    BY <1>1, AtStream DEF ShutdownRaw, ServerSendResponse, AgendaTyped, StreamOps
  <2> QED BY <1>1, <2>1 DEF ShutdownRaw, ServerSendResponse, HistoryTyped
<1>2. CASE SessionConnLost \/ OnConnError \/ OnSessionClosed
  BY <1>0, <1>2 DEF SessionConnLost, OnConnError, OnSessionClosed, SessionFailed, Callbacks
<1>3. CASE SessionDraining \/ SessionEstablished
  BY <1>0, <1>3 DEF SessionDraining, SessionEstablished, Callbacks
<1>4. CASE ClientConnect \/ ClientSendConnect \/ ClientMaybeEstablish
  BY <1>0, <1>4 DEF ClientConnect, ClientSendConnect, ClientMaybeEstablish, SessionFailed, Callbacks
<1>5. CASE ClientResponseDone \/ RequestStreamFin
  BY <1>0, <1>5 DEF ClientResponseDone, RequestStreamFin, SessionFailed, Callbacks
<1>6. CASE ControlBytes \/ SettingsLatched
  BY <1>0, <1>6 DEF ControlBytes, SettingsLatched, SessionFailed, Callbacks
<1>7. CASE \E r \in role.requests : OnStreamReset(r)
  BY <1>0, <1>7 DEF OnStreamReset, Callbacks
<1>8. ASSUME UNCHANGED <<told, answered>> PROVE HistoryTyped'
  BY <1>0, <1>8
<1>9. \/ UNCHANGED <<told, answered>> \/ ShutdownRaw \/ ServerSendResponse
      \/ SessionConnLost \/ OnConnError \/ OnSessionClosed \/ SessionDraining
      \/ SessionEstablished \/ ClientConnect \/ ClientSendConnect
      \/ ClientMaybeEstablish \/ ClientResponseDone \/ RequestStreamFin
      \/ ControlBytes \/ SettingsLatched
      \/ \E r \in role.requests : OnStreamReset(r)
  <2>1. CASE EngineStep
    BY <2>1 DEF EngineStep, AppReturns, ConnFatal, SessionClosed,
       ShutdownUnlessClosed, MarkDead, ServerRequestDone, EstablishUnlessClosed,
       RequestStreamFailed, SessionStreamPoisoned, SessionCapsule,
       RequestStreamBytes, ParkedRequestCancel, FinRelease, StreamBytesEnd,
       ResetRelease, DeferredFin
  <2>2. CASE BackendInput
    BY <2>2 DEF BackendInput, OpenDeferredLocals, OnPeerBidiOpened, OnStreamBytes,
       OnStreamFin, OnStopSending, OnStreamTerminal, OnStreamNativeId,
       OnPeerControlOpened, OnCriticalViolation, OnControlBytes, OnConnClosed,
       SetTransportError
  <2>3. CASE AppOperation
    BY <2>3 DEF AppOperation, Start, SessionClose, SessionDrain, WtStreams
  <2> QED BY <2>1, <2>2, <2>3 DEF Next
<1> QED BY <1>1, <1>2, <1>3, <1>4, <1>5, <1>6, <1>7, <1>8, <1>9

\* The estreams.
LEMMA ReqKeeps ==
    ASSUME ReqTyped, AgendaTyped, ConnTyped, Next
    PROVE  ReqTyped'
<1> USE DEF ReqTyped, Set, Release
<1>1. role.requests \subseteq Requests
  BY RoleRequests DEF ConnTyped
<1>2. \A op \in StreamOps : At(op) => This.r \in Requests
  BY AtStream DEF AgendaTyped
<1>3. ASSUME NEW r \in Requests, Release(r) PROVE ReqTyped'
  BY <1>3 DEF Streams
<1>4. ASSUME NEW r \in Requests, Set(r, "dead", TRUE) PROVE ReqTyped'
  BY <1>4 DEF Streams
<1>5. ASSUME UNCHANGED req PROVE ReqTyped'
  BY <1>5
<1> HIDE DEF ReqTyped, Set, Release
<1>6. CASE SessionEstablished
  <2>1. This.r \in Requests
    BY <1>2, <1>6 DEF SessionEstablished, StreamOps
  <2>2. Set(This.r, "isSession", TRUE)
    BY <1>6 DEF SessionEstablished
  <2>3. ASSUME NEW r \in Requests, Set(r, "isSession", TRUE) PROVE ReqTyped'
    BY <2>3 DEF Set, ReqTyped, Streams
  <2> QED BY <2>1, <2>2, <2>3
<1>7. CASE ClientSendConnect
  <2>1. ASSUME NEW r \in Requests, NEW b \in BOOLEAN,
               \/ Set(r, "kind", "FREE")
               \/ req' = [req EXCEPT ![r].kind = "CONNECT", ![r].idPending = b]
        PROVE  ReqTyped'
    BY <2>1 DEF Set, ReqTyped, Streams
  <2>2. \/ UNCHANGED req
        \/ \E r \in role.requests : \E b \in BOOLEAN :
               \/ Set(r, "kind", "FREE")
               \/ req' = [req EXCEPT ![r].kind = "CONNECT", ![r].idPending = b]
    BY <1>7 DEF ClientSendConnect
  <2> QED BY <1>1, <1>5, <2>1, <2>2
<1>8. CASE ClientMaybeEstablish
  <2>1. This.r \in Requests
    BY <1>2, <1>8 DEF ClientMaybeEstablish, StreamOps
  <2>2. UNCHANGED req \/ Set(This.r, "dead", TRUE)
    BY <1>8 DEF ClientMaybeEstablish
  <2> QED BY <1>4, <1>5, <2>1, <2>2
<1>9. CASE ClientResponseDone
  <2>1. This.r \in Requests
    BY <1>2, <1>9 DEF ClientResponseDone, StreamOps
  <2>2. UNCHANGED req \/ Set(This.r, "headers", FALSE)
    BY <1>9 DEF ClientResponseDone
  <2>3. CASE Set(This.r, "headers", FALSE)
    BY <2>1, <2>3 DEF Set, ReqTyped, Streams
  <2> QED BY <1>5, <2>2, <2>3
<1>10. CASE MarkDead
  <2>1. This.r \in Requests
    BY <1>2, <1>10 DEF MarkDead, StreamOps
  <2> QED BY <1>4, <1>10, <2>1 DEF MarkDead
<1>11. CASE RequestStreamFailed \/ SessionStreamPoisoned \/ FinRelease \/ ResetRelease
  <2>1. This.r \in Requests
    BY <1>2, <1>11 DEF RequestStreamFailed, SessionStreamPoisoned, FinRelease, ResetRelease, StreamOps
  <2> QED BY <1>3, <1>5, <1>11, <2>1
      DEF RequestStreamFailed, SessionStreamPoisoned, FinRelease, ResetRelease
<1>12. CASE RequestStreamBytes
  <2> DEFINE r == This.r
  <2>1. r \in Requests
    BY <1>2, <1>12 DEF RequestStreamBytes, StreamOps
  <2>2. ASSUME NEW f \in OpenFrames, Set(r, "frame", f) PROVE ReqTyped'
    BY <2>1, <2>2 DEF Set, ReqTyped, Streams, OpenFrames
  <2>3. ASSUME NEW f, FrameDone(r, f) PROVE ReqTyped'
    <3>1. CASE Set(r, "frame", "none") \/ Set(r, "frame", "capsules")
      BY <2>2, <3>1 DEF OpenFrames
    <3>2. CASE req' = [req EXCEPT ![r].frame = "none", ![r].headers = TRUE]
      BY <2>1, <3>2 DEF ReqTyped, Streams, OpenFrames
    <3>3. CASE req' = [req EXCEPT ![r].frame = "none", ![r].trailers = TRUE]
      BY <2>1, <3>3 DEF ReqTyped, Streams, OpenFrames
    <3> QED BY <2>3, <3>1, <3>2, <3>3 DEF FrameDone
  <2>4. ASSUME NEW f \in Frames, ~HeaderFatal(r, f), f /= "oversize"
        PROVE  PayloadOf(r, f) \in OpenFrames
    BY <2>4 DEF HeaderFatal, PayloadOf, OpenFrames, Frames
  <2> QED BY <1>5, <1>12, <2>2, <2>3, <2>4 DEF RequestStreamBytes, OpenFrames
<1>13. CASE ControlBytes
  BY <1>4, <1>5, <1>13 DEF ControlBytes
<1>14. CASE \E r \in role.requests : OnPeerBidiOpened(r) \/ OnStreamBytes(r) \/ OnStreamNativeId(r)
  <2>1. ASSUME NEW r \in Requests,
               \/ Set(r, "kind", "BTYPE") \/ Set(r, "idPending", FALSE)
               \/ req' = [req EXCEPT ![r].kind = "REQUEST"]
        PROVE  ReqTyped'
    <3>1. CASE Set(r, "kind", "BTYPE")
      BY <3>1 DEF Set, ReqTyped, Streams
    <3>2. CASE Set(r, "idPending", FALSE)
      BY <3>2 DEF Set, ReqTyped, Streams
    <3>3. CASE req' = [req EXCEPT ![r].kind = "REQUEST"]
      BY <3>3 DEF ReqTyped, Streams
    <3> QED BY <2>1, <3>1, <3>2, <3>3
  <2> QED BY <1>1, <1>5, <1>14, <2>1 DEF OnPeerBidiOpened, OnStreamBytes, OnStreamNativeId
<1>15. CASE \E r \in role.requests : OnStreamReset(r) \/ OnStreamTerminal(r)
  BY <1>1, <1>3, <1>5, <1>15 DEF OnStreamReset, OnStreamTerminal, SessionReset
<1>16. \/ UNCHANGED req \/ SessionEstablished \/ ClientSendConnect
       \/ ClientMaybeEstablish \/ ClientResponseDone \/ MarkDead
       \/ RequestStreamFailed \/ SessionStreamPoisoned \/ FinRelease
       \/ ResetRelease \/ RequestStreamBytes \/ ControlBytes
       \/ \E r \in role.requests :
            \/ OnPeerBidiOpened(r) \/ OnStreamBytes(r) \/ OnStreamNativeId(r)
            \/ OnStreamReset(r) \/ OnStreamTerminal(r)
  <2>1. CASE EngineStep
    BY <2>1 DEF EngineStep, AppReturns, ConnFatal, SessionConnLost, OnConnError,
       ShutdownRaw, SessionClosed, OnSessionClosed, SessionDraining,
       ShutdownUnlessClosed, ServerSendResponse, ServerRequestDone,
       EstablishUnlessClosed, SessionCapsule, ParkedRequestCancel,
       RequestStreamFin, StreamBytesEnd, SettingsLatched, DeferredFin
  <2>2. CASE BackendInput
    BY <2>2 DEF BackendInput, OpenDeferredLocals, OnStreamFin, OnStopSending,
       OnPeerControlOpened, OnCriticalViolation, OnControlBytes, OnConnClosed,
       SetTransportError
  <2>3. CASE AppOperation
    BY <2>3 DEF AppOperation, Start, ClientConnect, SessionClose, SessionDrain, WtStreams
  <2> QED BY <2>1, <2>2, <2>3 DEF Next
<1> QED BY <1>5, <1>6, <1>7, <1>8, <1>9, <1>10, <1>11, <1>12, <1>13, <1>14, <1>15, <1>16

-----------------------------------------------------------------------------
(* The inductive invariant.                                                *)

\* The callback cb has been made.
Heard(t, cb) == \E i \in 1..Len(t) : t[i] = cb
\* The callbacks that tell an outcome.
Ends == {"failed", "rejected", "closed"}

\* Calls that run as soon as they are made: nothing comes between.
HeadOnly == {"session_conn_lost", "session_established", "client_send_connect",
             "client_response_done", "client_maybe_establish", "session_capsule",
             "server_request_done", "send_200", "send_error", "request_stream_fin"}
\* Calls that are never made while a frame walk is under way.
NoWalk == {"fin_release", "reset_release", "deferred_fin", "control_bytes",
           "settings_latched", "request_stream_fin"}

\* Call a may stand above call b; c is conn->closed.  A delivery's end is the
\* bottom of the stack, each of the two last callbacks is owed once, and a
\* 200 is followed by the session unless sending it lost the connection.
Apart(c, a, b) ==
    /\ b.op \notin HeadOnly
    /\ a.op # "stream_bytes_end"
    /\ ~(a.op = "request_stream_bytes" /\ b.op \in NoWalk)
    /\ ~(a.op \in NoWalk /\ b.op = "request_stream_bytes")
    /\ a.op = b.op => a.op \notin {"on_session_closed", "on_conn_error"}
    /\ b.op = "establish_unless_closed" => c \/ a.op \in {"send_200", "conn_fatal"}
Pairs(s, c) == \A i, j \in 1..Len(s) : i < j => Apart(c, s[i], s[j])

\* What a call that waits on the stack is waiting for, with conn->closed,
\* the session's state, the callbacks so far and the streams.
Due(a, c, s, t, q) ==
    /\ a.op = "on_session_closed" => s = "CLOSED" /\ ~Heard(t, "closed")
    /\ a.op = "on_conn_error" => c /\ ~Heard(t, "conn_error")
    /\ a.op = "establish_unless_closed" => c \/ (Perspective = "server" /\ s = "IDLE")
    /\ a.op = "request_stream_bytes" => q[a.r].kind # "UNOPENED"
Each(g, c, s, t, q) == \A i \in 1..Len(g) : Due(g[i], c, s, t, q)

\* What the call at the head may rely on.
HeadDue ==
    /\ At("session_conn_lost") => closed
    /\ At("client_send_connect") => Perspective = "client" /\ sess = "PENDING"
    /\ At("client_response_done") =>
         /\ Perspective = "client" /\ sess = "SENT" /\ ~respOk
         /\ req[This.r].kind = "CONNECT" /\ req[This.r].headers
    /\ At("server_request_done") => Perspective = "server"
    /\ At("session_established") =>
         /\ ~closed
         /\ Perspective = "client" => sess = "SENT" /\ respOk
         /\ Perspective = "server" => sess = "IDLE"
    /\ At("request_stream_fin") =>
         Len(agenda) >= 2 /\ agenda[2] = On("fin_release", This.r)

Stack == /\ AgendaTyped /\ Pairs(agenda, closed)
         /\ Each(agenda, closed, sess, told, req) /\ HeadDue

Pending(x) == \E i \in 1..Len(agenda) : agenda[i] = x

\* A lost connection has ended the session, or is about to.
Lost ==
    closed => \/ sess \in Final
              \/ At("session_conn_lost")
              \/ At("session_closed") /\ sess \in Active

\* The callbacks tell the story of the session's state, each at most once.
Story ==
    /\ everEst <=> sess \in Active \cup {"CLOSED"}
    /\ Heard(told, "established") <=> everEst
    /\ Heard(told, "failed") \/ Heard(told, "rejected") <=> sess \in {"FAILED", "REJECTED"}
    /\ Heard(told, "closed") => sess = "CLOSED"
    /\ sess = "CLOSED" => Heard(told, "closed") \/ Pending(Do("on_session_closed"))
    /\ Heard(told, "draining") => drainRx
    /\ Heard(told, "conn_error") => closed
    /\ \A i, j \in 1..Len(told) : i < j =>
         told[i] # told[j] /\ ~(told[i] \in Ends /\ told[j] \in Ends)
    /\ Perspective = "server" =>
         sess \notin {"PENDING", "SENT", "REJECTED"} /\ (sess = "FAILED" => closed)

\* Only a server has requests, and a client has at most one CONNECT stream.
\* Until its response is complete
\* the session is SENT, or the stream is dead or about to be released.
Waiting(r) == req[r].kind = "CONNECT" /\ ~req[r].headers /\ ~req[r].dead
Connects ==
    /\ \A r \in Requests : req[r].kind = "CONNECT" =>
         /\ Perspective = "client"
         /\ respOk => req[r].headers
         /\ sess \in {"IDLE", "PENDING"} => At("conn_fatal") \/ At("session_conn_lost")
    /\ \A r, q \in Requests : req[r].kind = "CONNECT" /\ req[q].kind = "CONNECT" => r = q
    /\ \A r \in Requests : req[r].kind \in {"BTYPE", "REQUEST"} => Perspective = "server"
    /\ sess \in {"IDLE", "PENDING"} => ~respOk
    /\ \A r \in Requests : Waiting(r) =>
         \/ closed \/ sess = "SENT" \/ At("conn_fatal")
         \/ Pending(On("fin_release", r)) \/ Pending(On("reset_release", r))

Inv == TypeOK /\ Stack /\ Lost /\ Story /\ Connects

-----------------------------------------------------------------------------
(* Steps of the stack.                                                     *)

\* Call a may stand above everything below the head.
Over(c, a) == \A k \in 2..Len(agenda) : Apart(c, a, agenda[k])
\* What the calls below the head are waiting for.
Rest(c, s, t, q) == \A k \in 2..Len(agenda) : Due(agenda[k], c, s, t, q)

\* A return into `calls'.
LEMMA ThenSeq ==
    ASSUME AgendaTyped, agenda # <<>>, Pairs(agenda, closed), closed => closed',
           NEW calls \in Seq(Calls), agenda' = calls \o Tail(agenda), role' = role,
           Rest(closed', sess', told', req'),
           \A i \in 1..Len(calls) : Due(calls[i], closed', sess', told', req') /\ Over(closed', calls[i]),
           \A i, j \in 1..Len(calls) : i < j => Apart(closed', calls[i], calls[j])
    PROVE  /\ AgendaTyped' /\ Pairs(agenda, closed)' /\ Each(agenda, closed, sess, told, req)'
<1>1. /\ agenda' \in Seq(Calls) /\ Len(agenda') = Len(calls) + Len(agenda) - 1
      /\ \A i \in 1..Len(calls) : agenda'[i] = calls[i]
      /\ \A i \in 1..Len(agenda') : i > Len(calls) =>
                /\ i - Len(calls) + 1 \in 2..Len(agenda)
                /\ agenda'[i] = agenda[i - Len(calls) + 1]
  BY Returned DEF AgendaTyped
<1>2. ASSUME NEW i \in 1..Len(agenda'), NEW j \in 1..Len(agenda'), i < j
      PROVE  Apart(closed', agenda'[i], agenda'[j])
  <2>1. CASE j <= Len(calls)
    BY <1>1, <1>2, <2>1
  <2>2. CASE j > Len(calls) /\ i <= Len(calls)
    <3>1. i \in 1..Len(calls) /\ agenda'[i] = calls[i] /\ Over(closed', calls[i])
      BY <1>1, <1>2, <2>2
    <3>2. /\ j - Len(calls) + 1 \in 2..Len(agenda)
          /\ agenda'[j] = agenda[j - Len(calls) + 1]
      BY <1>1, <1>2, <2>2
    <3> QED BY <3>1, <3>2 DEF Over
  <2>3. CASE i > Len(calls)
    <3> DEFINE m == i - Len(calls) + 1  n == j - Len(calls) + 1
    <3>1. /\ m \in 1..Len(agenda) /\ n \in 1..Len(agenda) /\ m < n
          /\ agenda'[i] = agenda[m] /\ agenda'[j] = agenda[n]
      BY <1>1, <1>2, <2>3
    <3> HIDE DEF m, n
    <3>2. Apart(closed, agenda[m], agenda[n])
      BY <3>1 DEF Pairs
    <3> QED BY <3>1, <3>2 DEF Apart
  <2> QED BY <2>1, <2>2, <2>3
<1>3. ASSUME NEW i \in 1..Len(agenda') PROVE Due(agenda'[i], closed', sess', told', req')
  BY <1>1 DEF Rest
<1>4. AgendaTyped'
  BY <1>1 DEF AgendaTyped
<1>5. Pairs(agenda, closed)'
  BY <1>2 DEF Pairs
<1>6. Each(agenda, closed, sess, told, req)'
  BY <1>3 DEF Each, Due, Perspective
<1> QED BY <1>4, <1>5, <1>6

\* The ground every step of the stack stands on, and what it leaves.
Ground == /\ AgendaTyped /\ Pairs(agenda, closed) /\ role' = role
          /\ closed => closed'
Stands == AgendaTyped /\ Pairs(agenda, closed) /\ Each(agenda, closed, sess, told, req)
\* Call a fits on what is below the head, in the state after the step.
Fits(a) == a \in Calls /\ Due(a, closed', sess', told', req') /\ Over(closed', a)

\* Returns into none to four calls.
LEMMA Then0 ==
    ASSUME Ground, agenda # <<>>, Rest(closed', sess', told', req'), Then(<<>>)
    PROVE  Stands' /\ (agenda' # <<>> => agenda'[1].op \notin HeadOnly)
<1> DEFINE calls == <<>>
<1>1. calls \in Seq(Calls) /\ Len(calls) = 0
  OBVIOUS
<1>2. agenda' = calls \o Tail(agenda)
  BY DEF Then
<1>3. \A i \in 1..Len(calls) : Due(calls[i], closed', sess', told', req') /\ Over(closed', calls[i])
  BY <1>1
<1>4. \A i, j \in 1..Len(calls) : i < j => Apart(closed', calls[i], calls[j])
  BY <1>1
<1> HIDE DEF calls
<1>5. Stands'
  BY <1>1, <1>2, <1>3, <1>4, ThenSeq DEF Ground, Stands
<1>6. ASSUME agenda' # <<>> PROVE agenda'[1].op \notin HeadOnly
  <2>1. Len(agenda') >= 1 /\ Len(agenda') = Len(agenda) - 1 /\ agenda'[1] = agenda[2]
    BY <1>1, <1>2, <1>6, Returned DEF Ground, AgendaTyped
  <2>2. agenda \in Seq(Calls) /\ 1 \in 1..Len(agenda) /\ 2 \in 1..Len(agenda)
    BY <2>1 DEF Ground, AgendaTyped
  <2>3. Apart(closed, agenda[1], agenda[2])
    BY <2>2 DEF Ground, Pairs
  <2> QED BY <2>1, <2>3 DEF Apart
<1> QED BY <1>5, <1>6

LEMMA Then1 ==
    ASSUME Ground, agenda # <<>>, Rest(closed', sess', told', req'),
           NEW a, Fits(a), Then(<<a>>)
    PROVE  Stands' /\ agenda' # <<>> /\ agenda'[1] = a
<1> DEFINE calls == <<a>>
<1>1. calls \in Seq(Calls) /\ Len(calls) = 1 /\ calls[1] = a
  BY DEF Fits
<1>2. agenda' = calls \o Tail(agenda)
  BY DEF Then
<1> HIDE DEF calls
<1>3. \A i \in 1..Len(calls) : Due(calls[i], closed', sess', told', req') /\ Over(closed', calls[i])
  BY <1>1 DEF Fits
<1>4. \A i, j \in 1..Len(calls) : i < j => Apart(closed', calls[i], calls[j])
  BY <1>1
<1>5. Stands'
  BY <1>1, <1>2, <1>3, <1>4, ThenSeq DEF Ground, Stands
<1>6. agenda'[1] = a /\ Len(agenda') >= 1
  <2>1. /\ Len(agenda') = Len(calls) + Len(agenda) - 1
        /\ \A i \in 1..Len(calls) : agenda'[i] = calls[i]
    BY <1>1, <1>2, Returned DEF Ground, AgendaTyped
  <2>2. Len(agenda) \in Nat \ {0}
    BY DEF Ground, AgendaTyped
  <2> QED BY <1>1, <2>1, <2>2
<1>7. agenda' # <<>>
  BY <1>6
<1> QED BY <1>5, <1>6, <1>7

LEMMA Then2 ==
    ASSUME Ground, agenda # <<>>, Rest(closed', sess', told', req'),
           NEW a, Fits(a), NEW b, Fits(b), Apart(closed', a, b), Then(<<a, b>>)
    PROVE  /\ Stands' /\ agenda' # <<>> /\ agenda'[1] = a
           /\ Len(agenda') >= 2 /\ agenda'[2] = b
<1> DEFINE calls == <<a, b>>
<1>1. calls \in Seq(Calls) /\ Len(calls) = 2 /\ calls[1] = a /\ calls[2] = b
  BY DEF Fits
<1>2. agenda' = calls \o Tail(agenda)
  BY DEF Then
<1> HIDE DEF calls
<1>3. \A i \in 1..Len(calls) : Due(calls[i], closed', sess', told', req') /\ Over(closed', calls[i])
  BY <1>1 DEF Fits
<1>4. \A i, j \in 1..Len(calls) : i < j => Apart(closed', calls[i], calls[j])
  BY <1>1
<1>5. Stands'
  BY <1>1, <1>2, <1>3, <1>4, ThenSeq DEF Ground, Stands
<1>6. agenda'[1] = a /\ agenda'[2] = b /\ Len(agenda') >= 2
  <2>1. /\ Len(agenda') = Len(calls) + Len(agenda) - 1
        /\ \A i \in 1..Len(calls) : agenda'[i] = calls[i]
    BY <1>1, <1>2, Returned DEF Ground, AgendaTyped
  <2>2. Len(agenda) \in Nat \ {0}
    BY DEF Ground, AgendaTyped
  <2> QED BY <1>1, <2>1, <2>2
<1>7. agenda' # <<>>
  BY <1>6
<1> QED BY <1>5, <1>6, <1>7

LEMMA Then3 ==
    ASSUME Ground, agenda # <<>>, Rest(closed', sess', told', req'),
           NEW a, Fits(a), NEW b, Fits(b), NEW c, Fits(c), Then(<<a, b, c>>),
           Apart(closed', a, b), Apart(closed', a, c), Apart(closed', b, c)
    PROVE  /\ Stands' /\ agenda' # <<>> /\ agenda'[1] = a
           /\ Len(agenda') >= 3 /\ agenda'[2] = b /\ agenda'[3] = c
<1> DEFINE calls == <<a, b, c>>
<1>1. /\ calls \in Seq(Calls) /\ Len(calls) = 3
      /\ calls[1] = a /\ calls[2] = b /\ calls[3] = c
  BY DEF Fits
<1>2. agenda' = calls \o Tail(agenda)
  BY DEF Then
<1> HIDE DEF calls
<1>3. \A i \in 1..Len(calls) : Due(calls[i], closed', sess', told', req') /\ Over(closed', calls[i])
  BY <1>1 DEF Fits
<1>4. \A i, j \in 1..Len(calls) : i < j => Apart(closed', calls[i], calls[j])
  BY <1>1
<1>5. Stands'
  BY <1>1, <1>2, <1>3, <1>4, ThenSeq DEF Ground, Stands
<1>6. agenda'[1] = a /\ agenda'[2] = b /\ agenda'[3] = c /\ Len(agenda') >= 3
  <2>1. /\ Len(agenda') = Len(calls) + Len(agenda) - 1
        /\ \A i \in 1..Len(calls) : agenda'[i] = calls[i]
    BY <1>1, <1>2, Returned DEF Ground, AgendaTyped
  <2>2. Len(agenda) \in Nat \ {0}
    BY DEF Ground, AgendaTyped
  <2> QED BY <1>1, <2>1, <2>2
<1>7. agenda' # <<>>
  BY <1>6
<1> QED BY <1>5, <1>6, <1>7

LEMMA Then4 ==
    ASSUME Ground, agenda # <<>>, Rest(closed', sess', told', req'),
           NEW a, Fits(a), NEW b, Fits(b), NEW c, Fits(c), NEW d, Fits(d),
           Then(<<a, b, c, d>>),
           Apart(closed', a, b), Apart(closed', a, c), Apart(closed', b, c),
           Apart(closed', a, d), Apart(closed', b, d), Apart(closed', c, d)
    PROVE  Stands' /\ agenda' # <<>> /\ agenda'[1] = a /\ agenda'[2] = b
<1> DEFINE calls == <<a, b, c, d>>
<1>1. /\ calls \in Seq(Calls) /\ Len(calls) = 4
      /\ calls[1] = a /\ calls[2] = b /\ calls[3] = c /\ calls[4] = d
  BY DEF Fits
<1>2. agenda' = calls \o Tail(agenda)
  BY DEF Then
<1> HIDE DEF calls
<1>3. \A i \in 1..Len(calls) : Due(calls[i], closed', sess', told', req') /\ Over(closed', calls[i])
  BY <1>1 DEF Fits
<1>4. \A i, j \in 1..Len(calls) : i < j => Apart(closed', calls[i], calls[j])
  BY <1>1
<1>5. Stands'
  BY <1>1, <1>2, <1>3, <1>4, ThenSeq DEF Ground, Stands
<1>6. agenda'[1] = a /\ agenda'[2] = b /\ Len(agenda') >= 4
  <2>1. /\ Len(agenda') = Len(calls) + Len(agenda) - 1
        /\ \A i \in 1..Len(calls) : agenda'[i] = calls[i]
    BY <1>1, <1>2, Returned DEF Ground, AgendaTyped
  <2>2. Len(agenda) \in Nat \ {0}
    BY DEF Ground, AgendaTyped
  <2> QED BY <1>1, <2>1, <2>2
<1>7. agenda' # <<>>
  BY <1>6
<1> QED BY <1>5, <1>6, <1>7

\* A call on top of an application callback keeps the callback below it.
LEMMA OnApp ==
    ASSUME AgendaTyped, At("app"), NEW calls \in Seq(Calls), Enter(calls)
    PROVE  Then(calls \o <<This>>)
<1>1. agenda = <<This>> \o Tail(agenda)
  BY DEF AgendaTyped, At, This
<1>2. calls \o (<<This>> \o Tail(agenda)) = (calls \o <<This>>) \o Tail(agenda)
  BY DEF AgendaTyped, At, This
<1> QED BY <1>1, <1>2 DEF Enter, Then

\* A call on the empty stack is the whole stack.
LEMMA OnIdle ==
    ASSUME Idle, NEW calls \in Seq(Calls), Enter(calls)
    PROVE  agenda' = calls
  BY DEF Idle, Enter

\* A call that is not the head survives the step.
LEMMA StillPending ==
    ASSUME AgendaTyped, agenda # <<>>, NEW calls \in Seq(Calls), Then(calls),
           NEW x, Pending(x), x # This
    PROVE  Pending(x)'
<1>1. PICK i \in 1..Len(agenda) : agenda[i] = x
  BY DEF Pending
<1>2. i >= 2 /\ agenda \in Seq(Calls)
  BY <1>1 DEF This, AgendaTyped
<1> DEFINE j == i - 1 + Len(calls)
<1>3. /\ Len(agenda') = Len(calls) + Len(agenda) - 1
      /\ \A n \in 1..Len(agenda') : n > Len(calls) => agenda'[n] = agenda[n - Len(calls) + 1]
  BY Returned DEF Then, AgendaTyped
<1>4. j \in 1..Len(agenda') /\ j > Len(calls) /\ j - Len(calls) + 1 = i
  BY <1>1, <1>2, <1>3
<1>5. agenda'[j] = x
  BY <1>1, <1>3, <1>4
<1> QED BY <1>4, <1>5 DEF Pending

-----------------------------------------------------------------------------
(* Steps that leave the story alone.                                       *)

Rules == Stack /\ Lost /\ Story /\ Connects

\* The variables the story is told with.
Quiet == UNCHANGED <<role, closed, sess, everEst, told, drainRx, respOk>>
\* No stream is new, and no CONNECT stream less far than it was.
Calmer ==
    \A r \in Requests :
        /\ req'[r].kind = "CONNECT" =>
             /\ req[r].kind = "CONNECT"
             /\ req[r].headers => req'[r].headers
             /\ req[r].dead => req'[r].dead
        /\ req'[r].kind \in {"BTYPE", "REQUEST"} => req[r].kind \in {"BTYPE", "REQUEST"}
        /\ req'[r].kind = "UNOPENED" => req[r].kind = "UNOPENED"
\* The call that returns owes the story nothing.
QuietHead ==
    /\ agenda # <<>>
    /\ This.op \notin {"session_conn_lost", "on_session_closed", "conn_fatal"}
    /\ This.op = "session_closed" => sess \notin Active
    /\ \A r \in Requests : req'[r].kind = "CONNECT" =>
         This # On("fin_release", r) /\ This # On("reset_release", r)

\* What the invariant says of the head and of the calls below it.
LEMMA HeadFacts ==
    ASSUME Inv, agenda # <<>>
    PROVE  /\ This = agenda[1] /\ This \in Calls /\ Over(closed, This)
           /\ Rest(closed, sess, told, req) /\ Due(This, closed, sess, told, req)
           /\ \A op : At(op) <=> This.op = op
           /\ AgendaTyped /\ Pairs(agenda, closed)
<1>1. AgendaTyped /\ Pairs(agenda, closed) /\ Each(agenda, closed, sess, told, req)
  BY DEF Inv, Stack
<1>2. agenda \in Seq(Calls) /\ Len(agenda) >= 1 /\ This = agenda[1] /\ This \in Calls
  BY <1>1, TheHead DEF AgendaTyped
<1>3. Over(closed, This)
  BY <1>1, <1>2 DEF Over, Pairs
<1>4. Rest(closed, sess, told, req) /\ Due(This, closed, sess, told, req)
  BY <1>1, <1>2 DEF Rest, Each
<1>5. \A op : At(op) <=> This.op = op
  BY DEF At, This
<1> QED BY <1>1, <1>2, <1>3, <1>4, <1>5

\* Which calls fit where the head was.
LEMMA FitsHere ==
    ASSUME Inv, agenda # <<>>, closed => closed', NEW a \in Calls,
           a.op \notin {"stream_bytes_end", "on_session_closed", "on_conn_error",
                        "establish_unless_closed"},
           a.op = "request_stream_bytes" =>
             This.op = "request_stream_bytes" /\ req'[a.r].kind # "UNOPENED",
           a.op \in NoWalk => This.op \in NoWalk \cup {"stream_bytes_end"},
           \/ closed' \/ This.op \notin {"send_200", "conn_fatal"} \/ a.op = "conn_fatal"
    PROVE  Fits(a)
<1>1. Over(closed, This)
  BY HeadFacts
<1>2. Over(closed', a)
  BY <1>1 DEF Over, Apart, NoWalk
<1> QED BY <1>2 DEF Fits, Due

\* A quiet step leaves the ground to stand on.
LEMMA QuietGround ==
    ASSUME Inv, Quiet, Calmer, agenda # <<>>
    PROVE  Ground /\ Rest(closed', sess', told', req')
<1>1. Ground /\ Rest(closed, sess, told, req) /\ agenda \in Seq(Calls)
  BY HeadFacts DEF Quiet, Ground, AgendaTyped
<1>2. ASSUME NEW k \in 2..Len(agenda) PROVE Due(agenda[k], closed', sess', told', req')
  <2>1. Due(agenda[k], closed, sess, told, req)
    BY <1>1 DEF Rest
  <2>2. agenda[k].op = "request_stream_bytes" => agenda[k].r \in Requests
    <3>1. agenda[k] \in Calls
      BY <1>1
    <3> QED BY <3>1, CallFacts DEF StreamOps
  <2> QED BY <2>1, <2>2 DEF Due, Quiet, Calmer
<1> QED BY <1>1, <1>2 DEF Rest

\* A head that may rely on nothing in particular.
SpecialHead == {"session_conn_lost", "client_send_connect", "client_response_done",
                "server_request_done",
                "session_established", "request_stream_fin"}
LEMMA HeadPlain ==
    ASSUME agenda' # <<>> => agenda'[1].op \notin SpecialHead, AgendaTyped'
    PROVE  HeadDue'
<1>1. agenda' # <<>> => Head(agenda') = agenda'[1]
  BY DEF AgendaTyped
<1> QED BY <1>1 DEF HeadDue, At, SpecialHead

\* A quiet return keeps the story.
LEMMA QuietReturn ==
    ASSUME Inv, Quiet, Calmer, QuietHead, NEW calls \in Seq(Calls), Then(calls)
    PROVE  Lost' /\ Story' /\ Connects'
<1>1. AgendaTyped /\ \A op : At(op) <=> This.op = op
  BY HeadFacts DEF QuietHead
<1>2. Lost'
  BY <1>1 DEF Inv, Lost, Quiet, QuietHead
<1>3. Pending(Do("on_session_closed")) => Pending(Do("on_session_closed"))'
  <2>1. This # Do("on_session_closed")
    BY CallFacts DEF QuietHead
  <2> QED BY <1>1, <2>1, StillPending DEF QuietHead
<1>4. Story'
  BY <1>3 DEF Inv, Story, Quiet, Perspective
<1>5. Connects'
  <2>1. ASSUME NEW r \in Requests, req'[r].kind = "CONNECT"
        PROVE  /\ Pending(On("fin_release", r)) => Pending(On("fin_release", r))'
               /\ Pending(On("reset_release", r)) => Pending(On("reset_release", r))'
    BY <1>1, <2>1, StillPending DEF QuietHead
  <2>2. ASSUME NEW r \in Requests, req'[r].kind = "CONNECT"
        PROVE  /\ Perspective' = "client" /\ (respOk' => req'[r].headers)
               /\ sess' \notin {"IDLE", "PENDING"}
    BY <1>1, <2>2 DEF Inv, Connects, Calmer, Quiet, QuietHead, Perspective
  <2>3. ASSUME NEW r \in Requests, Waiting(r)'
        PROVE  \/ closed' \/ sess' = "SENT"
               \/ Pending(On("fin_release", r))' \/ Pending(On("reset_release", r))'
    <3>1. Waiting(r) /\ req'[r].kind = "CONNECT"
      BY <2>3 DEF Waiting, Calmer
    <3> QED BY <1>1, <2>1, <3>1 DEF Inv, Connects, Quiet, QuietHead
  <2>4. \A r, q \in Requests : req'[r].kind = "CONNECT" /\ req'[q].kind = "CONNECT" => r = q
    BY DEF Inv, Connects, Calmer
  <2>6. \A r \in Requests : req'[r].kind \in {"BTYPE", "REQUEST"} => Perspective' = "server"
    BY DEF Inv, Connects, Calmer, Quiet, Perspective
  <2>5. sess' \in {"IDLE", "PENDING"} => ~respOk'
    BY DEF Inv, Connects, Quiet
  <2> QED BY <2>2, <2>3, <2>4, <2>5, <2>6 DEF Connects
<1> QED BY <1>2, <1>4, <1>5

\* Quiet returns into none to four calls.
LEMMA QuietThen0 ==
    ASSUME Inv, Quiet, Calmer, QuietHead, Then(<<>>)
    PROVE  Rules'
<1>1. Ground /\ Rest(closed', sess', told', req') /\ agenda # <<>>
  BY QuietGround DEF QuietHead
<1>2. Stands' /\ (agenda' # <<>> => agenda'[1].op \notin HeadOnly)
  BY <1>1, Then0
<1>3. HeadDue'
  BY <1>2, HeadPlain DEF HeadOnly, SpecialHead, Stands
<1>4. <<>> \in Seq(Calls)
  OBVIOUS
<1>5. Lost' /\ Story' /\ Connects'
  BY <1>4, QuietReturn
<1> QED BY <1>2, <1>3, <1>5 DEF Rules, Stack, Stands

LEMMA QuietThen1 ==
    ASSUME Inv, Quiet, Calmer, QuietHead, NEW a, Fits(a), Then(<<a>>),
           a.op \notin SpecialHead
    PROVE  Rules'
<1>1. Ground /\ Rest(closed', sess', told', req') /\ agenda # <<>>
  BY QuietGround DEF QuietHead
<1>2. Stands' /\ agenda'[1] = a
  BY <1>1, Then1
<1>3. HeadDue'
  BY <1>2, HeadPlain DEF Stands
<1>4. <<a>> \in Seq(Calls)
  BY DEF Fits
<1>5. Lost' /\ Story' /\ Connects'
  BY <1>4, QuietReturn
<1> QED BY <1>2, <1>3, <1>5 DEF Rules, Stack, Stands

LEMMA QuietThen2 ==
    ASSUME Inv, Quiet, Calmer, QuietHead, NEW a, Fits(a), NEW b, Fits(b),
           Then(<<a, b>>), Apart(closed', a, b), a.op \notin SpecialHead
    PROVE  Rules'
<1>1. Ground /\ Rest(closed', sess', told', req') /\ agenda # <<>>
  BY QuietGround DEF QuietHead
<1>2. Stands' /\ agenda'[1] = a
  BY <1>1, Then2
<1>3. HeadDue'
  BY <1>2, HeadPlain DEF Stands
<1>4. <<a, b>> \in Seq(Calls)
  BY DEF Fits
<1>5. Lost' /\ Story' /\ Connects'
  BY <1>4, QuietReturn
<1> QED BY <1>2, <1>3, <1>5 DEF Rules, Stack, Stands

LEMMA QuietThen3 ==
    ASSUME Inv, Quiet, Calmer, QuietHead, NEW a, Fits(a), NEW b, Fits(b),
           NEW c, Fits(c), Then(<<a, b, c>>), a.op \notin SpecialHead,
           Apart(closed', a, b), Apart(closed', a, c), Apart(closed', b, c)
    PROVE  Rules'
<1>1. Ground /\ Rest(closed', sess', told', req') /\ agenda # <<>>
  BY QuietGround DEF QuietHead
<1>2. Stands' /\ agenda'[1] = a
  BY <1>1, Then3
<1>3. HeadDue'
  BY <1>2, HeadPlain DEF Stands
<1>4. <<a, b, c>> \in Seq(Calls)
  BY DEF Fits
<1>5. Lost' /\ Story' /\ Connects'
  BY <1>4, QuietReturn
<1> QED BY <1>2, <1>3, <1>5 DEF Rules, Stack, Stands

\* A head that owes nothing and releases nothing.
LEMMA PlainHead ==
    ASSUME agenda # <<>>,
           This.op \notin {"session_conn_lost", "on_session_closed", "conn_fatal",
                           "session_closed", "fin_release", "reset_release"}
    PROVE  QuietHead
<1>1. \A r : This # On("fin_release", r) /\ This # On("reset_release", r)
  BY CallFacts
<1> QED BY <1>1 DEF QuietHead

\* conn_fatal fits everywhere.
LEMMA FatalFits ==
    ASSUME Inv, agenda # <<>>, closed => closed'
    PROVE  Fits(Do("conn_fatal")) /\ Do("conn_fatal").op = "conn_fatal"
<1>1. Do("conn_fatal") \in Calls /\ Do("conn_fatal").op = "conn_fatal"
  BY CallFacts DEF ConnOps
<1> QED BY <1>1, FitsHere DEF NoWalk

\* A callback fits where the head was, unless a 200 or an error is due.
LEMMA AppFits ==
    ASSUME Inv, agenda # <<>>, closed => closed',
           closed' \/ This.op \notin {"send_200", "conn_fatal"}
    PROVE  Fits(App) /\ App.op = "app"
<1>1. App \in Calls /\ App.op = "app"
  BY CallFacts
<1> QED BY <1>1, FitsHere DEF NoWalk

\* A release or a change of one field does not disturb the CONNECT streams.
LEMMA SameCalm ==
    ASSUME UNCHANGED req
    PROVE  Calmer
  BY DEF Calmer

LEMMA ReleaseCalm ==
    ASSUME Inv, NEW r \in Requests, Release(r)
    PROVE  Calmer /\ req'[r].kind = "FREE"
<1>1. req \in [Requests -> Streams]
  BY DEF Inv, TypeOK
<1>2. /\ \A q \in Requests : q # r => req'[q] = req[q]
      /\ req'[r].kind = "FREE"
  BY <1>1 DEF Release, Streams
<1> QED BY <1>2 DEF Calmer

LEMMA SetCalm ==
    ASSUME Inv, NEW r \in Requests, NEW f, NEW v, Set(r, f, v),
           \/ f \in {"frame", "trailers", "idPending", "isSession"}
           \/ f \in {"dead", "headers"} /\ v = TRUE
    PROVE  Calmer
<1>1. req \in [Requests -> Streams]
  BY DEF Inv, TypeOK
<1>2. /\ \A q \in Requests : q # r => req'[q] = req[q]
      /\ req'[r].kind = req[r].kind
      /\ req[r].headers => req'[r].headers
      /\ req[r].dead => req'[r].dead
  BY <1>1 DEF Set, Streams
<1> QED BY <1>2 DEF Calmer

-----------------------------------------------------------------------------
(* Each action keeps the rules: the functions every part shares.           *)

LEMMA RulesAppReturns ==
    ASSUME Inv, AppReturns, role' = role
    PROVE  Rules'
<1>1. agenda # <<>> /\ This.op = "app" /\ Then(<<>>)
  BY DEF AppReturns, At, This
<1>2. Quiet /\ Calmer
  BY SameCalm DEF AppReturns, Quiet, connVars, sessVars
<1> QED BY <1>1, <1>2, PlainHead, QuietThen0

LEMMA RulesShutdownRaw ==
    ASSUME Inv, ShutdownRaw, role' = role
    PROVE  Rules'
<1>1. agenda # <<>> /\ This.op = "shutdown_raw"
  BY DEF ShutdownRaw, At, This
<1>2. Quiet /\ Calmer /\ QuietHead
  BY <1>1, SameCalm, PlainHead DEF ShutdownRaw, Quiet, connVars, sessVars
<1>3. CASE Then(<<>>)
  BY <1>2, <1>3, QuietThen0
<1>4. CASE Then(<<Do("conn_fatal")>>)
  BY <1>1, <1>2, <1>4, FatalFits, QuietThen1 DEF Quiet, SpecialHead
<1> QED BY <1>3, <1>4 DEF ShutdownRaw

LEMMA RulesShutdownUnlessClosed ==
    ASSUME Inv, ShutdownUnlessClosed, role' = role
    PROVE  Rules'
<1>1. agenda # <<>> /\ This.op = "shutdown_unless_closed"
  BY DEF ShutdownUnlessClosed, At, This
<1>2. Quiet /\ Calmer /\ QuietHead
  BY <1>1, SameCalm, PlainHead DEF ShutdownUnlessClosed, Quiet, connVars, sessVars
<1>3. CASE Then(<<>>)
  BY <1>2, <1>3, QuietThen0
<1>4. CASE Then(<<On("shutdown_raw", This.r)>>)
  <2> DEFINE a == On("shutdown_raw", This.r)
  <2>1. a \in Calls /\ a.op = "shutdown_raw"
    BY <1>1, HeadFacts, CallFacts DEF StreamOps
  <2> HIDE DEF a
  <2>2. Fits(a)
    BY <1>1, <1>2, <2>1, FitsHere DEF Quiet, NoWalk
  <2>3. Then(<<a>>)
    BY <1>4 DEF a
  <2> QED BY <1>2, <2>1, <2>2, <2>3, QuietThen1 DEF SpecialHead
<1> QED BY <1>3, <1>4 DEF ShutdownUnlessClosed

LEMMA RulesMarkDead ==
    ASSUME Inv, MarkDead, role' = role
    PROVE  Rules'
<1>1. agenda # <<>> /\ This.op = "mark_dead" /\ Then(<<>>)
  BY DEF MarkDead, At, This
<1>2. This.r \in Requests
  BY <1>1, HeadFacts, CallFacts DEF StreamOps
<1>3. Quiet /\ Calmer /\ QuietHead
  BY <1>1, <1>2, SetCalm, PlainHead DEF MarkDead, Quiet, connVars, sessVars
<1> QED BY <1>1, <1>3, QuietThen0

LEMMA RulesServerSendResponse ==
    ASSUME Inv, ServerSendResponse, role' = role
    PROVE  Rules'
<1>1. agenda # <<>> /\ This.op \in {"send_error", "send_200"}
  BY DEF ServerSendResponse, At, This
<1>2. Quiet /\ Calmer /\ QuietHead
  BY <1>1, SameCalm, PlainHead DEF ServerSendResponse, Quiet, connVars, sessVars
<1>3. CASE Then(<<>>)
  BY <1>2, <1>3, QuietThen0
<1>4. CASE Then(<<Do("conn_fatal")>>)
  BY <1>1, <1>2, <1>4, FatalFits, QuietThen1 DEF Quiet, SpecialHead
<1> QED BY <1>3, <1>4 DEF ServerSendResponse

LEMMA RulesParkedRequestCancel ==
    ASSUME Inv, ParkedRequestCancel, role' = role
    PROVE  Rules'
<1>1. agenda # <<>> /\ This.op = "parked_request_cancel" /\ Then(<<>>)
  BY DEF ParkedRequestCancel, At, This
<1>2. Quiet /\ Calmer
  BY SameCalm DEF ParkedRequestCancel, Quiet, connVars, sessVars
<1> QED BY <1>1, <1>2, PlainHead, QuietThen0

\* A release returns, and the stream is no CONNECT stream any more.
LEMMA RulesReleases ==
    ASSUME Inv, SessionStreamPoisoned \/ FinRelease \/ ResetRelease, role' = role
    PROVE  Rules'
<1>1. /\ agenda # <<>> /\ Then(<<>>) /\ Release(This.r)
      /\ This.op \in {"session_stream_poisoned", "fin_release", "reset_release"}
  BY DEF SessionStreamPoisoned, FinRelease, ResetRelease, At, This
<1>2. This.r \in Requests
  BY <1>1, HeadFacts, CallFacts DEF StreamOps
<1>3. Quiet /\ Calmer /\ req'[This.r].kind = "FREE"
  BY <1>1, <1>2, ReleaseCalm
     DEF SessionStreamPoisoned, FinRelease, ResetRelease, Quiet, connVars, sessVars
<1>4. QuietHead
  <2>1. \A op, q : On(op, q).r = q
    BY CallFacts
  <2> QED BY <1>1, <1>3, <2>1 DEF QuietHead
<1> QED BY <1>1, <1>3, <1>4, QuietThen0

-----------------------------------------------------------------------------
(* Requests, capsules and frames.                                          *)

\* Sequences with the same elements are the same.
LEMMA SameCalls ==
    ASSUME NEW s \in Seq(Calls), NEW t \in Seq(Calls), Len(s) = Len(t),
           \A i \in 1..Len(s) : s[i] = t[i]
    PROVE  s = t
<1>1. s = [i \in 1..Len(s) |-> s[i]] /\ t = [i \in 1..Len(t) |-> t[i]]
  OBVIOUS
<1> QED BY <1>1

\* Concatenations of short sequences of calls.
LEMMA Joined ==
    ASSUME NEW a \in Calls, NEW b \in Calls, NEW c \in Calls
    PROVE  /\ <<>> \o <<>> = <<>> /\ <<a>> \o <<>> = <<a>> /\ <<>> \o <<a, b>> = <<a, b>>
           /\ <<a>> \o <<b>> = <<a, b>> /\ <<a>> \o <<b, c>> = <<a, b, c>>
           /\ <<a, b>> \o <<c>> = <<a, b, c>> /\ <<a, b, c>> \o <<>> = <<a, b, c>>
<1>1. <<>> \o <<>> = <<>> /\ <<a>> \o <<>> = <<a>> /\ <<>> \o <<a, b>> = <<a, b>>
  OBVIOUS
<1>2. <<a>> \o <<b>> = <<a, b>>
  <2> DEFINE s == <<a>> \o <<b>>  t == <<a, b>>
  <2>1. s \in Seq(Calls) /\ Len(s) = 2 /\ s[1] = a /\ s[2] = b
    OBVIOUS
  <2>2. t \in Seq(Calls) /\ Len(t) = 2 /\ t[1] = a /\ t[2] = b
    OBVIOUS
  <2> HIDE DEF s, t
  <2>3. s = t
    BY <2>1, <2>2, SameCalls
  <2> QED BY <2>3 DEF s, t
<1>3. <<a>> \o <<b, c>> = <<a, b, c>>
  <2> DEFINE s == <<a>> \o <<b, c>>  t == <<a, b, c>>
  <2>1. s \in Seq(Calls) /\ Len(s) = 3 /\ s[1] = a /\ s[2] = b /\ s[3] = c
    OBVIOUS
  <2>2. t \in Seq(Calls) /\ Len(t) = 3 /\ t[1] = a /\ t[2] = b /\ t[3] = c
    OBVIOUS
  <2> HIDE DEF s, t
  <2>3. s = t
    BY <2>1, <2>2, SameCalls
  <2> QED BY <2>3 DEF s, t
<1>4. <<a, b>> \o <<c>> = <<a, b, c>>
  <2> DEFINE s == <<a, b>> \o <<c>>  t == <<a, b, c>>
  <2>1. s \in Seq(Calls) /\ Len(s) = 3 /\ s[1] = a /\ s[2] = b /\ s[3] = c
    OBVIOUS
  <2>2. t \in Seq(Calls) /\ Len(t) = 3 /\ t[1] = a /\ t[2] = b /\ t[3] = c
    OBVIOUS
  <2> HIDE DEF s, t
  <2>3. s = t
    BY <2>1, <2>2, SameCalls
  <2> QED BY <2>3 DEF s, t
<1>5. <<a, b, c>> \o <<>> = <<a, b, c>>
  OBVIOUS
<1> QED BY <1>1, <1>2, <1>3, <1>4, <1>5

\* The calls of a stream, and where they fit.
LEMMA StreamFits ==
    ASSUME Inv, agenda # <<>>, closed => closed', NEW r \in Requests,
           This.op \notin {"send_200", "conn_fatal"}
    PROVE  \A op \in {"shutdown_raw", "mark_dead", "send_error", "send_200",
                      "request_stream_failed", "session_stream_poisoned",
                      "shutdown_unless_closed", "client_maybe_establish",
                      "server_request_done", "client_response_done",
                      "session_established", "session_capsule"} :
              Fits(On(op, r)) /\ On(op, r).op = op /\ On(op, r).r = r
<1> SUFFICES ASSUME NEW op \in {"shutdown_raw", "mark_dead", "send_error", "send_200",
                      "request_stream_failed", "session_stream_poisoned",
                      "shutdown_unless_closed", "client_maybe_establish",
                      "server_request_done", "client_response_done",
                      "session_established", "session_capsule"}
             PROVE  Fits(On(op, r)) /\ On(op, r).op = op /\ On(op, r).r = r
  OBVIOUS
<1> DEFINE a == On(op, r)
<1>1. a \in Calls /\ a.op = op /\ a.r = r
  BY CallFacts DEF StreamOps
<1> HIDE DEF a
<1>2. Fits(a)
  BY <1>1, FitsHere DEF NoWalk
<1> QED BY <1>1, <1>2 DEF a

\* The calls of the connection.
LEMMA ConnFits ==
    ASSUME Inv, agenda # <<>>, closed => closed',
           This.op \notin {"send_200", "conn_fatal"}
    PROVE  \A op \in {"app", "conn_fatal", "session_closed", "session_draining",
                      "session_conn_lost", "client_send_connect",
                      "parked_request_cancel"} :
              Fits(Do(op)) /\ Do(op).op = op
<1> SUFFICES ASSUME NEW op \in {"app", "conn_fatal", "session_closed", "session_draining",
                      "session_conn_lost", "client_send_connect",
                      "parked_request_cancel"}
             PROVE  Fits(Do(op)) /\ Do(op).op = op
  OBVIOUS
<1> DEFINE a == Do(op)
<1>1. a \in Calls /\ a.op = op
  BY CallFacts DEF ConnOps
<1> HIDE DEF a
<1>2. Fits(a)
  BY <1>1, FitsHere DEF NoWalk
<1> QED BY <1>1, <1>2 DEF a

\* Quiet steps that return into a shutdown, and what follows it.
LEMMA QuietFatal ==
    ASSUME Inv, Quiet, Calmer, QuietHead, Then(<<Do("conn_fatal")>>)
    PROVE  Rules'
  BY FatalFits, QuietThen1 DEF Quiet, QuietHead, SpecialHead

LEMMA QuietConn ==
    ASSUME Inv, Quiet, Calmer, QuietHead, This.op # "send_200",
           NEW op \in {"session_closed", "session_draining"}, Then(<<Do(op)>>)
    PROVE  Rules'
<1>1. agenda # <<>> /\ closed' = closed /\ This.op # "conn_fatal"
  BY DEF QuietHead, Quiet
<1>2. Fits(Do(op)) /\ Do(op).op = op
  BY <1>1, ConnFits
<1> QED BY <1>2, QuietThen1 DEF SpecialHead

LEMMA QuietPair ==
    ASSUME Inv, Quiet, Calmer, QuietHead, This.op # "send_200", NEW r \in Requests,
           \/ Then(Refuse(r)) \/ Then(Respond(r)) \/ Then(Poison(r))
    PROVE  Rules'
<1>1. agenda # <<>> /\ closed' = closed /\ This.op # "conn_fatal"
  BY DEF QuietHead, Quiet
<1>2. PICK p \in {"shutdown_raw", "send_error"}, q \in {"mark_dead", "session_stream_poisoned"} :
        Then(<<On(p, r), On(q, r)>>)
  BY DEF Refuse, Respond, Poison
<1> DEFINE a == On(p, r)  b == On(q, r)
<1>3. Fits(a) /\ Fits(b) /\ a.op = p /\ b.op = q
  BY <1>1, StreamFits
<1>4. Then(<<a, b>>)
  BY <1>2
<1> HIDE DEF a, b
<1>5. Apart(closed', a, b)
  BY <1>3 DEF Apart, HeadOnly, NoWalk
<1> QED BY <1>3, <1>4, <1>5, QuietThen2 DEF SpecialHead

\* request_stream_fail and the refusal of a parked request.
LEMMA QuietFail ==
    ASSUME Inv, Quiet, Calmer, QuietHead, This.op # "send_200", NEW r \in Requests,
           \/ Then(RequestStreamFail(r))
           \/ Then(Refuse(r) \o <<Do("parked_request_cancel")>>)
    PROVE  Rules'
<1>1. agenda # <<>> /\ closed' = closed /\ This.op # "conn_fatal"
  BY DEF QuietHead, Quiet
<1> DEFINE a == On("shutdown_raw", r)  b == On("mark_dead", r)
           x == On("request_stream_failed", r)  y == Do("parked_request_cancel")
<1>2. /\ Fits(a) /\ Fits(b) /\ Fits(x) /\ Fits(y) /\ a.op = "shutdown_raw" /\ b.op = "mark_dead"
      /\ x.op = "request_stream_failed" /\ y.op = "parked_request_cancel"
  BY <1>1, StreamFits, ConnFits
<1>3. Refuse(r) = <<a, b>> /\ RequestStreamFail(r) = Refuse(r) \o <<x>>
  BY DEF Refuse, RequestStreamFail
<1>4. Then(<<a, b>> \o <<x>>) \/ Then(<<a, b>> \o <<y>>)
  BY <1>3
<1> HIDE DEF a, b, x, y
<1>5. PICK z \in {x, y} : Then(<<a, b>> \o <<z>>)
  BY <1>4
<1>6. a \in Calls /\ b \in Calls /\ z \in Calls /\ Fits(z)
  BY <1>2 DEF Fits
<1>7. Then(<<a, b, z>>)
  BY <1>5, <1>6, Joined
<1>8. Apart(closed', a, b) /\ Apart(closed', a, z) /\ Apart(closed', b, z)
  BY <1>2 DEF Apart, HeadOnly, NoWalk
<1> QED BY <1>2, <1>6, <1>7, <1>8, QuietThen3 DEF SpecialHead

LEMMA RulesRequestStreamFailed ==
    ASSUME Inv, RequestStreamFailed, role' = role
    PROVE  Rules'
<1>1. agenda # <<>> /\ This.op = "request_stream_failed"
  BY DEF RequestStreamFailed, At, This
<1>2. This.r \in Requests
  BY <1>1, HeadFacts, CallFacts DEF StreamOps
<1>3. Quiet /\ QuietHead
  BY <1>1, PlainHead DEF RequestStreamFailed, Quiet, connVars
<1>4. CASE Release(This.r) /\ Then(<<Do("session_closed")>>)
  BY <1>1, <1>2, <1>3, <1>4, ReleaseCalm, QuietConn
<1>5. CASE UNCHANGED req /\ Then(<<>>)
  BY <1>3, <1>5, SameCalm, QuietThen0
<1> QED BY <1>4, <1>5 DEF RequestStreamFailed

LEMMA RulesServerRequestDone ==
    ASSUME Inv, ServerRequestDone, role' = role
    PROVE  Rules'
<1>1. agenda # <<>> /\ This.op = "server_request_done"
  BY DEF ServerRequestDone, At, This
<1>2. This.r \in Requests /\ Over(closed, This)
  BY <1>1, HeadFacts, CallFacts DEF StreamOps
<1>3. Quiet /\ QuietHead /\ Calmer
  BY <1>1, PlainHead, SameCalm DEF ServerRequestDone, Quiet, connVars, sessVars
<1>4. CASE Then(<<>>)
  BY <1>3, <1>4, QuietThen0
<1>5. CASE Then(Refuse(This.r)) \/ Then(Respond(This.r))
  BY <1>1, <1>2, <1>3, <1>5, QuietPair
<1>6. CASE Then(<<Do("conn_fatal")>>)
  BY <1>3, <1>6, QuietFatal
<1>7. CASE ~everEst /\ Then(Accept(This.r))
  <2> DEFINE a == On("send_200", This.r)  b == On("establish_unless_closed", This.r)
  <2>1. Fits(a) /\ a.op = "send_200"
    BY <1>1, <1>2, <1>3, StreamFits DEF Quiet
  <2>2. b \in Calls /\ b.op = "establish_unless_closed" /\ Then(<<a, b>>)
    BY <1>2, <1>7, CallFacts DEF StreamOps, Accept
  <2> HIDE DEF a, b
  <2>3. Perspective = "server"
    BY <1>1 DEF Inv, Stack, HeadDue, At, This
  <2>4. closed \/ sess = "IDLE"
    BY <1>7, <2>3 DEF Inv, Story, TypeOK, Opening, Active, Final
  <2>5. Over(closed', b)
    BY <1>1, <1>2, <1>3, <2>2 DEF Over, Apart, Quiet, NoWalk
  <2>6. Fits(b)
    BY <1>3, <2>2, <2>3, <2>4, <2>5 DEF Fits, Due, Quiet
  <2>7. Apart(closed', a, b)
    BY <2>1, <2>2 DEF Apart, HeadOnly, NoWalk
  <2> QED BY <1>3, <2>1, <2>2, <2>6, <2>7, QuietThen2 DEF SpecialHead
<1> QED BY <1>4, <1>5, <1>6, <1>7 DEF ServerRequestDone, Decide, RequestBodies

LEMMA RulesEstablishUnlessClosed ==
    ASSUME Inv, EstablishUnlessClosed, role' = role
    PROVE  Rules'
<1>1. agenda # <<>> /\ This.op = "establish_unless_closed"
  BY DEF EstablishUnlessClosed, At, This
<1>2. This.r \in Requests /\ Due(This, closed, sess, told, req)
  BY <1>1, HeadFacts, CallFacts DEF StreamOps
<1>3. Quiet /\ QuietHead /\ Calmer
  BY <1>1, PlainHead, SameCalm DEF EstablishUnlessClosed, Quiet, connVars, sessVars
<1>4. CASE closed /\ Then(<<>>)
  BY <1>3, <1>4, QuietThen0
<1>5. CASE ~closed /\ Then(<<On("session_established", This.r)>>)
  <2> DEFINE a == On("session_established", This.r)
  <2>1. Fits(a) /\ a.op = "session_established" /\ Then(<<a>>)
    BY <1>1, <1>2, <1>3, <1>5, StreamFits DEF Quiet
  <2> HIDE DEF a
  <2>2. Ground /\ Rest(closed', sess', told', req')
    BY <1>1, <1>3, QuietGround
  <2>3. Stands' /\ agenda' # <<>> /\ agenda'[1] = a
    BY <1>1, <2>1, <2>2, Then1
  <2>4. Lost' /\ Story' /\ Connects'
    <3>1. <<a>> \in Seq(Calls)
      BY <2>1 DEF Fits
    <3> QED BY <1>3, <2>1, <3>1, QuietReturn
  <2>5. Perspective = "server" /\ sess = "IDLE"
    BY <1>1, <1>2, <1>5 DEF Due
  <2>6. HeadDue'
    <3>1. Head(agenda').op = "session_established"
      BY <2>1, <2>3 DEF Stands, AgendaTyped
    <3>2. ~closed' /\ sess' = "IDLE" /\ Perspective' = "server"
      BY <1>3, <1>5, <2>5 DEF Quiet, Perspective
    <3> QED BY <3>1, <3>2 DEF HeadDue, At, This
  <2> QED BY <2>3, <2>4, <2>6 DEF Rules, Stack, Stands
<1> QED BY <1>4, <1>5 DEF EstablishUnlessClosed

LEMMA RulesSessionCapsule ==
    ASSUME Inv, SessionCapsule, role' = role
    PROVE  Rules'
<1>1. agenda # <<>> /\ This.op = "session_capsule"
  BY DEF SessionCapsule, At, This
<1>2. This.r \in Requests
  BY <1>1, HeadFacts, CallFacts DEF StreamOps
<1>3. Quiet /\ QuietHead /\ Calmer
  BY <1>1, PlainHead, SameCalm DEF SessionCapsule, Quiet, connVars, sessVars
<1> DEFINE w == Do("session_closed")  d == Do("session_draining")
           a == On("shutdown_raw", This.r)  b == On("session_stream_poisoned", This.r)
<1>4. /\ Fits(w) /\ w.op = "session_closed" /\ Fits(d) /\ d.op = "session_draining"
      /\ Fits(a) /\ a.op = "shutdown_raw" /\ Fits(b) /\ b.op = "session_stream_poisoned"
  BY <1>1, <1>2, <1>3, StreamFits, ConnFits DEF Quiet
<1>5. w \in Calls /\ d \in Calls /\ a \in Calls /\ b \in Calls
  BY <1>4 DEF Fits
<1>6. \/ Then(<<>>) \/ Then(Poison(This.r)) \/ Then(<<Do("conn_fatal")>>)
      \/ Then(RequestStreamFail(This.r))
      \/ \E p \in {<<w>>, <<d>>, <<>>} : \E q \in {<<>>, <<a, b>>} :
           Then(p \o q) /\ ~(p = <<d>> /\ q = <<a, b>>)
  <2>1. PICK c \in Capsules :
          IF closeRx \/ c = "cut" \/ c = "bad"
          THEN Then(CASE closeRx -> Poison(This.r)
                      [] ~closeRx /\ c = "cut" -> <<>>
                      [] ~closeRx /\ c = "bad" ->
                           IF sess = "CLOSED" THEN RequestStreamFail(This.r)
                                              ELSE <<Do("conn_fatal")>>)
          ELSE Then((CASE c \in {"CLOSE", "CLOSE+"} /\ sess # "CLOSED" -> <<w>>
                       [] c = "DRAIN" /\ sess # "CLOSED" -> <<d>>
                       [] OTHER -> <<>>)
                    \o IF c = "CLOSE+" THEN <<a, b>> ELSE <<>>)
    BY DEF SessionCapsule, Poison
  <2> HIDE DEF w, d, a, b
  <2>2. CASE closeRx \/ c = "cut" \/ c = "bad"
    BY <2>1, <2>2
  <2>3. CASE ~(closeRx \/ c = "cut" \/ c = "bad")
    <3> DEFINE p == CASE c \in {"CLOSE", "CLOSE+"} /\ sess # "CLOSED" -> <<w>>
                      [] c = "DRAIN" /\ sess # "CLOSED" -> <<d>>
                      [] OTHER -> <<>>
               q == IF c = "CLOSE+" THEN <<a, b>> ELSE <<>>
    <3>1. p \in {<<w>>, <<d>>, <<>>} /\ q \in {<<>>, <<a, b>>}
      OBVIOUS
    <3>2. ~(p = <<d>> /\ q = <<a, b>>)
      <4>1. w # d /\ <<w>> # <<d>> /\ <<d>> # <<>> /\ <<a, b>> # <<>>
        BY <1>4
      <4> QED BY <4>1
    <3>3. Then(p \o q)
      BY <2>1, <2>3
    <3> QED BY <3>1, <3>2, <3>3
  <2> QED BY <2>2, <2>3
<1>7. CASE Then(<<>>)
  BY <1>3, <1>7, QuietThen0
<1>8. CASE Then(Poison(This.r))
  BY <1>1, <1>2, <1>3, <1>8, QuietPair
<1>9. CASE Then(<<Do("conn_fatal")>>)
  BY <1>3, <1>9, QuietFatal
<1>10. CASE Then(RequestStreamFail(This.r))
  BY <1>1, <1>2, <1>3, <1>10, QuietFail
<1>11. ASSUME NEW p \in {<<w>>, <<d>>, <<>>}, NEW q \in {<<>>, <<a, b>>},
              Then(p \o q), ~(p = <<d>> /\ q = <<a, b>>)
       PROVE  Rules'
  <2> HIDE DEF w, d, a, b
  <2>1. \/ p \o q = <<>> \/ p \o q = <<w>> \/ p \o q = <<d>> \/ p \o q = <<a, b>>
        \/ p \o q = <<w, a, b>>
    <3>1. CASE q = <<>>
      BY <1>5, <1>11, <3>1, Joined
    <3>2. CASE q = <<a, b>> /\ p = <<w>>
      BY <1>5, <3>2, Joined
    <3>3. CASE q = <<a, b>> /\ p = <<>>
      BY <1>5, <3>3, Joined
    <3> QED BY <1>11, <3>1, <3>2, <3>3
  <2>2. CASE Then(<<>>)
    BY <1>3, <2>2, QuietThen0
  <2>3. CASE Then(<<w>>)
    BY <1>3, <1>4, <2>3, QuietThen1 DEF SpecialHead
  <2>4. CASE Then(<<d>>)
    BY <1>3, <1>4, <2>4, QuietThen1 DEF SpecialHead
  <2>5. Apart(closed', w, a) /\ Apart(closed', w, b) /\ Apart(closed', a, b)
    BY <1>4 DEF Apart, HeadOnly, NoWalk
  <2>6. CASE Then(<<a, b>>)
    BY <1>3, <1>4, <2>5, <2>6, QuietThen2 DEF SpecialHead
  <2>7. CASE Then(<<w, a, b>>)
    BY <1>3, <1>4, <2>5, <2>7, QuietThen3 DEF SpecialHead
  <2> QED BY <1>11, <2>1, <2>2, <2>3, <2>4, <2>6, <2>7
<1> HIDE DEF w, d, a, b
<1> QED BY <1>6, <1>7, <1>8, <1>9, <1>10, <1>11

\* Quiet returns into a call that relies on something.
LEMMA QuietLead ==
    ASSUME Inv, Quiet, Calmer, QuietHead, NEW a, Fits(a),
           \/ Then(<<a>>)
           \/ \E b : Fits(b) /\ Apart(closed', a, b) /\ Then(<<a, b>>)
    PROVE  agenda' # <<>> /\ Head(agenda') = a /\ (HeadDue' => Rules')
<1>1. Ground /\ Rest(closed', sess', told', req') /\ agenda # <<>>
  BY QuietGround DEF QuietHead
<1>2. CASE Then(<<a>>)
  <2>1. Stands' /\ agenda' # <<>> /\ agenda'[1] = a
    BY <1>1, <1>2, Then1
  <2>2. <<a>> \in Seq(Calls)
    BY DEF Fits
  <2>3. Lost' /\ Story' /\ Connects'
    BY <1>2, <2>2, QuietReturn
  <2> QED BY <2>1, <2>3 DEF Rules, Stack, Stands, AgendaTyped
<1>3. ASSUME NEW b, Fits(b), Apart(closed', a, b), Then(<<a, b>>)
      PROVE  agenda' # <<>> /\ Head(agenda') = a /\ (HeadDue' => Rules')
  <2>1. Stands' /\ agenda' # <<>> /\ agenda'[1] = a
    BY <1>1, <1>3, Then2
  <2>2. <<a, b>> \in Seq(Calls)
    BY <1>3 DEF Fits
  <2>3. Lost' /\ Story' /\ Connects'
    BY <1>3, <2>2, QuietReturn
  <2> QED BY <2>1, <2>3 DEF Rules, Stack, Stands, AgendaTyped
<1> QED BY <1>2, <1>3

\* The frame walk goes on where it was.
LEMMA WalkFits ==
    ASSUME Inv, Calmer, agenda # <<>>, This.op = "request_stream_bytes", closed' = closed
    PROVE  /\ Fits(Walk(This.r)) /\ Walk(This.r).op = "request_stream_bytes"
           /\ This.r \in Requests /\ req[This.r].kind # "UNOPENED"
<1> DEFINE a == Walk(This.r)
<1>1. This.r \in Requests /\ req[This.r].kind # "UNOPENED"
  BY HeadFacts, CallFacts DEF StreamOps, Due
<1>2. a \in Calls /\ a.op = "request_stream_bytes" /\ a.r = This.r
  BY <1>1, CallFacts DEF StreamOps, Walk
<1> HIDE DEF a
<1>3. req'[a.r].kind # "UNOPENED"
  BY <1>1, <1>2 DEF Calmer
<1>4. Fits(a)
  BY <1>2, <1>3, FitsHere DEF NoWalk
<1> QED BY <1>1, <1>2, <1>4 DEF a

\* A HEADERS frame or trailers are complete.
LEMMA HeadersCalm ==
    ASSUME Inv, NEW r \in Requests,
           \/ req' = [req EXCEPT ![r].frame = "none", ![r].headers = TRUE]
           \/ req' = [req EXCEPT ![r].frame = "none", ![r].trailers = TRUE]
    PROVE  Calmer /\ req'[r].kind = req[r].kind
<1>1. req \in [Requests -> Streams]
  BY DEF Inv, TypeOK
<1>2. /\ \A q \in Requests : q # r => req'[q] = req[q]
      /\ req'[r].kind = req[r].kind
      /\ req[r].headers => req'[r].headers
      /\ req[r].dead => req'[r].dead
  BY <1>1 DEF Streams
<1> QED BY <1>2 DEF Calmer

LEMMA RulesFrameDone ==
    ASSUME Inv, agenda # <<>>, This.op = "request_stream_bytes", Quiet, ~closed,
           req[This.r].kind # "FREE", ~req[This.r].dead, NEW f, FrameDone(This.r, f)
    PROVE  Rules'
<1> DEFINE r == This.r  w == Walk(r)
<1>1. QuietHead
  BY PlainHead
<1>2. r \in Requests /\ req[r].kind # "UNOPENED"
  BY HeadFacts, CallFacts DEF StreamOps, Due
<1>3. ASSUME Calmer PROVE Fits(w) /\ w.op = "request_stream_bytes"
  BY <1>3, WalkFits DEF Quiet
<1>4. CASE Set(r, "frame", "none") /\ Then(<<w>>)
  <2>1. Calmer
    BY <1>2, <1>4, SetCalm
  <2> HIDE DEF w
  <2> QED BY <1>1, <1>3, <1>4, <2>1, QuietThen1 DEF SpecialHead
<1>5. CASE /\ Set(r, "frame", "none") \/ Set(r, "frame", "capsules")
           /\ Then(<<On("session_capsule", r), w>>)
  <2>1. Calmer
    BY <1>2, <1>5, SetCalm
  <2> DEFINE a == On("session_capsule", r)
  <2>2. Fits(a) /\ a.op = "session_capsule"
    BY <1>2, StreamFits DEF Quiet
  <2>3. Then(<<a, w>>)
    BY <1>5
  <2> HIDE DEF a, w
  <2>4. Apart(closed', a, w)
    BY <1>3, <2>1, <2>2 DEF Apart, HeadOnly, NoWalk
  <2> QED BY <1>1, <1>3, <2>1, <2>2, <2>3, <2>4, QuietThen2 DEF SpecialHead
<1>6. CASE /\ ~req[r].headers
           /\ req' = [req EXCEPT ![r].frame = "none", ![r].headers = TRUE]
           /\ Then(<<On(IF req[r].kind = "CONNECT" THEN "client_response_done"
                                                   ELSE "server_request_done", r), w>>)
  <2>1. Calmer /\ req'[r].kind = req[r].kind
    BY <1>2, <1>6, HeadersCalm
  <2>2. req'[r].headers
    BY <1>2, <1>6 DEF Inv, TypeOK, Streams
  <2> DEFINE op == IF req[r].kind = "CONNECT" THEN "client_response_done"
                                              ELSE "server_request_done"
             a == On(op, r)
  <2>3. Fits(a) /\ a.op = op /\ a.r = r
    BY <1>2, StreamFits DEF Quiet
  <2>4. Then(<<a, w>>)
    BY <1>6
  <2>5. op \in {"client_response_done", "server_request_done"}
    OBVIOUS
  <2> HIDE DEF a, w
  <2>6. Apart(closed', a, w)
    BY <1>3, <2>1, <2>3, <2>5 DEF Apart, HeadOnly, NoWalk
  <2>7. agenda' # <<>> /\ Head(agenda') = a /\ (HeadDue' => Rules')
    BY <1>1, <1>3, <2>1, <2>3, <2>4, <2>6, QuietLead
  <2>8. CASE req[r].kind = "CONNECT"
    <3>1. Waiting(r) /\ Perspective = "client" /\ ~respOk
      BY <1>2, <1>6, <2>8 DEF Inv, Connects, Waiting
    <3>2. ~Pending(On("fin_release", r)) /\ ~Pending(On("reset_release", r))
      <4>1. Over(closed, This) /\ This = agenda[1] /\ AgendaTyped
        BY HeadFacts
      <4>2. ASSUME NEW i \in 1..Len(agenda) PROVE agenda[i].op \notin NoWalk
        BY <4>1, <4>2 DEF Over, Apart, NoWalk
      <4> QED BY <4>2, CallFacts DEF Pending, NoWalk
    <3>3. sess = "SENT"
      BY <1>2, <3>1, <3>2 DEF Inv, Connects, At, This
    <3>4. /\ Perspective' = "client" /\ sess' = "SENT" /\ ~respOk'
          /\ req'[r].kind = "CONNECT" /\ req'[r].headers
      BY <2>1, <2>2, <2>8, <3>1, <3>3 DEF Quiet, Perspective
    <3>5. HeadDue'
      BY <2>3, <2>7, <2>8, <3>4 DEF HeadDue, At, This
    <3> QED BY <2>7, <3>5
  <2>9. CASE req[r].kind # "CONNECT"
    <3>1. req[r].kind \in {"BTYPE", "REQUEST"}
      BY <1>2, <2>9 DEF Inv, TypeOK, Streams
    <3>2. Perspective' = "server"
      BY <1>2, <3>1 DEF Inv, Connects, Quiet, Perspective
    <3>3. HeadDue'
      BY <2>3, <2>7, <2>9, <3>2 DEF HeadDue, At, This
    <3> QED BY <2>7, <3>3
  <2> QED BY <2>8, <2>9
<1>7. CASE /\ req' = [req EXCEPT ![r].frame = "none", ![r].trailers = TRUE]
           /\ \/ Then(<<w>>) \/ Then(<<Do("conn_fatal")>>) \/ Then(RequestStreamFail(r))
  <2>1. Calmer
    BY <1>2, <1>7, HeadersCalm
  <2>2. CASE Then(<<w>>)
    <3> HIDE DEF w
    <3> QED BY <1>1, <1>3, <2>1, <2>2, QuietThen1 DEF SpecialHead
  <2>3. CASE Then(<<Do("conn_fatal")>>)
    BY <1>1, <2>1, <2>3, QuietFatal
  <2>4. CASE Then(RequestStreamFail(r))
    BY <1>1, <1>2, <2>1, <2>4, QuietFail
  <2> QED BY <1>7, <2>2, <2>3, <2>4
<1> HIDE DEF r, w
<1>8. FrameDone(r, f) /\ w = Walk(r)
  BY DEF r, w
<1> QED BY <1>4, <1>5, <1>6, <1>7, <1>8 DEF FrameDone, TrailerBodies

LEMMA RulesRequestStreamBytes ==
    ASSUME Inv, RequestStreamBytes, role' = role
    PROVE  Rules'
<1> DEFINE r == This.r
<1>1. agenda # <<>> /\ This.op = "request_stream_bytes"
  BY DEF RequestStreamBytes, At, This
<1>2. r \in Requests
  BY <1>1, HeadFacts, CallFacts DEF StreamOps
<1>3. Quiet /\ QuietHead
  BY <1>1, PlainHead DEF RequestStreamBytes, Quiet, connVars, sessVars
<1>4. CASE UNCHANGED req /\ \/ Then(<<>>) \/ Then(<<Do("conn_fatal")>>)
                            \/ Then(RequestStreamFail(r))
                            \/ Then(Refuse(r) \o <<Do("parked_request_cancel")>>)
  <2>1. Calmer
    BY <1>4, SameCalm
  <2> QED BY <1>1, <1>2, <1>3, <1>4, <2>1, QuietThen0, QuietFatal, QuietFail
<1>5. ASSUME NEW v, Set(r, "frame", v), Then(<<>>)
      PROVE  Rules'
  BY <1>2, <1>3, <1>5, SetCalm, QuietThen0
<1>6. ASSUME NEW f, ~closed, req[r].kind # "FREE", ~req[r].dead, FrameDone(r, f)
      PROVE  Rules'
  BY <1>1, <1>3, <1>6, RulesFrameDone
<1> QED BY <1>4, <1>5, <1>6 DEF RequestStreamBytes

-----------------------------------------------------------------------------
(* Steps that tell the application something.                              *)

\* What has been heard after one more callback.
LEMMA HeardMore ==
    ASSUME told \in Seq(Callbacks), NEW cb \in Callbacks, Tell(cb)
    PROVE  \A x : Heard(told', x) <=> Heard(told, x) \/ x = cb
<1>1. /\ told' = Append(told, cb) /\ Len(told') = Len(told) + 1 /\ Len(told) \in Nat
      /\ told'[Len(told) + 1] = cb /\ \A i \in 1..Len(told) : told'[i] = told[i]
  BY DEF Tell
<1>2. \A i \in 1..Len(told') : i \in 1..Len(told) \/ i = Len(told) + 1
  BY <1>1
<1>3. \A i \in 1..Len(told) : i \in 1..Len(told')
  BY <1>1
<1>4. Len(told) + 1 \in 1..Len(told')
  BY <1>1
<1> QED BY <1>1, <1>2, <1>3, <1>4 DEF Heard

\* Each callback at most once, and one end of the story.
Once(t) == \A i, j \in 1..Len(t) : i < j => t[i] # t[j] /\ ~(t[i] \in Ends /\ t[j] \in Ends)
LEMMA OnceMore ==
    ASSUME told \in Seq(Callbacks), NEW cb \in Callbacks, Tell(cb), Once(told),
           ~Heard(told, cb), cb \in Ends => \A x \in Ends : ~Heard(told, x)
    PROVE  Once(told')
<1>1. /\ told' = Append(told, cb) /\ Len(told') = Len(told) + 1 /\ Len(told) \in Nat
      /\ told'[Len(told) + 1] = cb /\ \A i \in 1..Len(told) : told'[i] = told[i]
  BY DEF Tell
<1>2. \A i \in 1..Len(told) : told[i] # cb /\ (cb \in Ends => told[i] \notin Ends)
  BY DEF Heard
<1>3. ASSUME NEW i \in 1..Len(told'), NEW j \in 1..Len(told'), i < j
      PROVE  told'[i] # told'[j] /\ ~(told'[i] \in Ends /\ told'[j] \in Ends)
  <2>1. i \in 1..Len(told)
    BY <1>1, <1>3
  <2>2. CASE j \in 1..Len(told)
    BY <1>1, <1>3, <2>1, <2>2 DEF Once
  <2>3. CASE j = Len(told) + 1
    BY <1>1, <1>2, <2>1, <2>3
  <2> QED BY <1>1, <2>2, <2>3
<1> QED BY <1>3 DEF Once

\* The session fails or is rejected before it opened.
Refused(cb) ==
    /\ cb \in {"failed", "rejected"} /\ Tell(cb)
    /\ sess \in Opening /\ sess' \in {"FAILED", "REJECTED"}
    /\ cb = "rejected" \/ sess' = "FAILED"
    /\ Perspective = "client" \/ (closed /\ sess' = "FAILED")
    /\ UNCHANGED <<role, closed, everEst, drainRx>> /\ (respOk' => respOk)

LEMMA RefusedStory ==
    ASSUME Inv, NEW cb, Refused(cb), Calmer,
           \A r \in Requests : Waiting(r)' =>
             \/ closed' \/ Pending(On("fin_release", r))'
             \/ Pending(On("reset_release", r))'
    PROVE  Lost' /\ Story' /\ Connects'
<1>1. told \in Seq(Callbacks) /\ cb \in Callbacks /\ Tell(cb)
  BY DEF Inv, TypeOK, Refused, Callbacks
<1>2. \A x : Heard(told', x) <=> Heard(told, x) \/ x = cb
  BY <1>1, HeardMore
<1>3. \A x \in Ends : ~Heard(told, x)
  BY DEF Inv, Story, Refused, Opening, Ends
<1>4. Once(told')
  <2>1. Once(told)
    BY DEF Inv, Story, Once
  <2>2. cb \in Ends
    BY DEF Refused, Ends
  <2> QED BY <1>1, <1>3, <2>1, <2>2, OnceMore
<1>5. Lost'
  BY DEF Lost, Refused, Final
<1>6. Story'
  <2>1. everEst' <=> sess' \in Active \cup {"CLOSED"}
    BY DEF Inv, Story, Refused, Opening, Active
  <2>2. Heard(told', "established") <=> everEst'
    BY <1>2 DEF Inv, Story, Refused
  <2>3. Heard(told', "failed") \/ Heard(told', "rejected") <=> sess' \in {"FAILED", "REJECTED"}
    BY <1>2 DEF Refused
  <2>4. ~Heard(told', "closed") /\ sess' # "CLOSED"
    BY <1>2, <1>3 DEF Refused, Ends
  <2>5. (Heard(told', "draining") => drainRx') /\ (Heard(told', "conn_error") => closed')
    BY <1>2 DEF Inv, Story, Refused
  <2>6. Perspective' = "server" =>
          sess' \notin {"PENDING", "SENT", "REJECTED"} /\ (sess' = "FAILED" => closed')
    BY DEF Inv, Story, Refused, Perspective, Opening
  <2>7. Once(told)'
    BY <1>4 DEF Once
  <2> QED BY <2>1, <2>2, <2>3, <2>4, <2>5, <2>6, <2>7 DEF Story, Once
<1>7. Connects'
  <2>1. ASSUME NEW r \in Requests, req'[r].kind = "CONNECT"
        PROVE  Perspective' = "client" /\ (respOk' => req'[r].headers)
    BY <2>1 DEF Inv, Connects, Calmer, Refused, Perspective
  <2>2. sess' \notin {"IDLE", "PENDING"}
    BY DEF Refused
  <2>3. \A r, q \in Requests : req'[r].kind = "CONNECT" /\ req'[q].kind = "CONNECT" => r = q
    BY DEF Inv, Connects, Calmer
  <2>4. \A r \in Requests : req'[r].kind \in {"BTYPE", "REQUEST"} => Perspective' = "server"
    BY DEF Inv, Connects, Calmer, Refused, Perspective
  <2> QED BY <2>1, <2>2, <2>3, <2>4 DEF Connects
<1> QED BY <1>5, <1>6, <1>7

LEMMA RefusedGround ==
    ASSUME Inv, NEW cb, Refused(cb), Calmer, agenda # <<>>
    PROVE  Ground /\ Rest(closed', sess', told', req')
<1>1. Ground /\ Rest(closed, sess, told, req) /\ agenda \in Seq(Calls)
  BY HeadFacts DEF Refused, Ground, AgendaTyped
<1>2. \A x : Heard(told', x) <=> Heard(told, x) \/ x = cb
  <2>1. told \in Seq(Callbacks) /\ cb \in Callbacks /\ Tell(cb)
    BY DEF Inv, TypeOK, Refused, Callbacks
  <2> QED BY <2>1, HeardMore
<1>3. ASSUME NEW k \in 2..Len(agenda) PROVE Due(agenda[k], closed', sess', told', req')
  <2>1. Due(agenda[k], closed, sess, told, req)
    BY <1>1 DEF Rest
  <2>2. agenda[k].op = "request_stream_bytes" => agenda[k].r \in Requests
    <3>1. agenda[k] \in Calls
      BY <1>1
    <3> QED BY <3>1, CallFacts DEF StreamOps
  <2>3. agenda[k].op # "on_session_closed"
    BY <2>1 DEF Due, Refused, Opening
  <2>4. agenda[k].op = "on_conn_error" => closed' /\ ~Heard(told', "conn_error")
    BY <1>2, <2>1 DEF Due, Refused
  <2>5. agenda[k].op = "establish_unless_closed" => closed'
    BY <2>1 DEF Due, Refused
  <2> QED BY <2>1, <2>2, <2>3, <2>4, <2>5 DEF Due, Calmer
<1> QED BY <1>1, <1>3 DEF Rest

\* Refusals that return into the callback, and none to three calls behind it.
LEMMA RefusedThen ==
    ASSUME Inv, NEW cb, Refused(cb), Calmer, agenda # <<>>,
           This.op \notin {"send_200", "conn_fatal"} \/ closed,
           \A r \in Requests : Waiting(r)' =>
             \/ closed' \/ Pending(On("fin_release", r))'
             \/ Pending(On("reset_release", r))',
           \/ Then(<<App>> \o <<>>)
           \/ \E b : /\ Fits(b) /\ b.op \in {"conn_fatal", "shutdown_unless_closed"}
                     /\ Then(<<App>> \o <<b>>)
           \/ \E b, c, d :
                /\ Fits(b) /\ Fits(c) /\ Fits(d) /\ b.op = "shutdown_unless_closed"
                /\ c.op = "session_draining" /\ d.op = "control_bytes"
                /\ Then(<<App>> \o <<b, c, d>>)
    PROVE  Rules'
<1>1. Lost' /\ Story' /\ Connects'
  BY RefusedStory
<1>2. Ground /\ Rest(closed', sess', told', req')
  BY RefusedGround
<1>3. Fits(App) /\ App.op = "app" /\ App \in Calls
  BY AppFits DEF Refused, Fits
<1>4. Stands' /\ agenda' # <<>> /\ agenda'[1] = App
  <2>1. CASE Then(<<App>> \o <<>>)
    <3>1. Then(<<App>>)
      BY <1>3, <2>1, Joined
    <3> QED BY <1>2, <1>3, <3>1, Then1
  <2>2. ASSUME NEW b, Fits(b), b.op \in {"conn_fatal", "shutdown_unless_closed"},
               Then(<<App>> \o <<b>>)
        PROVE  Stands' /\ agenda' # <<>> /\ agenda'[1] = App
    <3>1. Then(<<App, b>>)
      BY <1>3, <2>2, Joined DEF Fits
    <3>2. Apart(closed', App, b)
      BY <1>3, <2>2 DEF Apart, HeadOnly, NoWalk
    <3> QED BY <1>2, <1>3, <2>2, <3>1, <3>2, Then2
  <2>3. ASSUME NEW b, NEW c, NEW d, Fits(b), Fits(c), Fits(d),
               b.op = "shutdown_unless_closed", c.op = "session_draining",
               d.op = "control_bytes", Then(<<App>> \o <<b, c, d>>)
        PROVE  Stands' /\ agenda' # <<>> /\ agenda'[1] = App
    <3>0. b \in Calls /\ c \in Calls /\ d \in Calls
      BY <2>3 DEF Fits
    <3>3. <<App>> \o <<b, c, d>> = <<App, b, c, d>>
      <4> DEFINE s == <<App>> \o <<b, c, d>>  t == <<App, b, c, d>>
      <4>1. s \in Seq(Calls) /\ Len(s) = 4 /\ s[1] = App /\ s[2] = b /\ s[3] = c /\ s[4] = d
        BY <1>3, <3>0
      <4>2. t \in Seq(Calls) /\ Len(t) = 4 /\ t[1] = App /\ t[2] = b /\ t[3] = c /\ t[4] = d
        BY <1>3, <3>0
      <4> HIDE DEF s, t
      <4>3. s = t
        BY <4>1, <4>2, SameCalls
      <4> QED BY <4>3 DEF s, t
    <3>1. Then(<<App, b, c, d>>)
      BY <2>3, <3>3
    <3>2. /\ Apart(closed', App, b) /\ Apart(closed', App, c) /\ Apart(closed', App, d)
          /\ Apart(closed', b, c) /\ Apart(closed', b, d) /\ Apart(closed', c, d)
      BY <1>3, <2>3 DEF Apart, HeadOnly, NoWalk
    <3> QED BY <1>2, <1>3, <2>3, <3>1, <3>2, Then4
  <2> QED BY <2>1, <2>2, <2>3
<1>5. HeadDue'
  BY <1>3, <1>4, HeadPlain DEF SpecialHead, Stands
<1> QED BY <1>1, <1>4, <1>5 DEF Rules, Stack, Stands

-----------------------------------------------------------------------------
(* The end of a stream.                                                    *)

\* A FIN is processed, and its stream then released.
LEMMA QuietFin ==
    ASSUME Inv, Quiet, Calmer, QuietHead, This.op \in {"stream_bytes_end", "deferred_fin"},
           NEW r \in Requests, Then(Fin(r))
    PROVE  Rules'
<1> DEFINE a == On("request_stream_fin", r)  b == On("fin_release", r)
<1>1. a \in Calls /\ b \in Calls /\ a.op = "request_stream_fin" /\ b.op = "fin_release" /\ a.r = r
  BY CallFacts DEF StreamOps
<1>2. Then(<<a, b>>) /\ b = On("fin_release", r)
  BY DEF Fin
<1> HIDE DEF a, b
<1>3. Fits(a) /\ Fits(b)
  BY <1>1, FitsHere DEF QuietHead, Quiet, NoWalk
<1>4. Apart(closed', a, b)
  BY <1>1 DEF Apart, HeadOnly, NoWalk
<1>5. Ground /\ Rest(closed', sess', told', req') /\ agenda # <<>>
  BY QuietGround DEF QuietHead
<1>6. /\ Stands' /\ agenda' # <<>> /\ agenda'[1] = a
      /\ Len(agenda') >= 2 /\ agenda'[2] = b
  BY <1>2, <1>3, <1>4, <1>5, Then2
<1>7. <<a, b>> \in Seq(Calls)
  BY <1>1
<1>8. Lost' /\ Story' /\ Connects'
  BY <1>2, <1>7, QuietReturn
<1>9. HeadDue'
  <2>1. Head(agenda') = a
    BY <1>6 DEF Stands, AgendaTyped
  <2> QED BY <1>1, <1>2, <1>6, <2>1 DEF HeadDue, At, This
<1> QED BY <1>6, <1>8, <1>9 DEF Rules, Stack, Stands

LEMMA RulesStreamBytesEnd ==
    ASSUME Inv, StreamBytesEnd, role' = role
    PROVE  Rules'
<1>1. agenda # <<>> /\ This.op = "stream_bytes_end"
  BY DEF StreamBytesEnd, At, This
<1>2. This.r \in Requests
  BY <1>1, HeadFacts, CallFacts DEF StreamOps
<1>3. Quiet /\ QuietHead /\ Calmer
  BY <1>1, PlainHead, SameCalm DEF StreamBytesEnd, Quiet, connVars, sessVars
<1>4. CASE Then(<<>>)
  BY <1>3, <1>4, QuietThen0
<1>5. CASE Then(<<Do("conn_fatal")>>)
  BY <1>3, <1>5, QuietFatal
<1>6. CASE Then(Fin(This.r))
  BY <1>1, <1>2, <1>3, <1>6, QuietFin
<1> QED BY <1>4, <1>5, <1>6 DEF StreamBytesEnd

LEMMA RulesDeferredFin ==
    ASSUME Inv, DeferredFin, role' = role
    PROVE  Rules'
<1>1. agenda # <<>> /\ This.op = "deferred_fin"
  BY DEF DeferredFin, At, This
<1>2. This.r \in Requests
  BY <1>1, HeadFacts, CallFacts DEF StreamOps
<1>3. Quiet /\ QuietHead /\ Calmer
  BY <1>1, PlainHead, SameCalm DEF DeferredFin, Quiet, connVars, sessVars
<1>4. CASE Then(<<>>)
  BY <1>3, <1>4, QuietThen0
<1>5. CASE Then(Fin(This.r))
  BY <1>1, <1>2, <1>3, <1>5, QuietFin
<1> QED BY <1>4, <1>5 DEF DeferredFin

LEMMA RulesRequestStreamFin ==
    ASSUME Inv, RequestStreamFin, role' = role
    PROVE  Rules'
<1>1. agenda # <<>> /\ This.op = "request_stream_fin"
  BY DEF RequestStreamFin, At, This
<1>0. AgendaTyped /\ This.r \in Requests
  BY <1>1, HeadFacts, CallFacts DEF StreamOps
<1>2. PICK r \in Requests : r = This.r
  BY <1>0
<1>3. Calmer /\ QuietHead
  BY <1>1, SameCalm, PlainHead DEF RequestStreamFin
<1>4. UNCHANGED <<role, closed, everEst, drainRx, respOk, req>>
  BY DEF RequestStreamFin
<1>5. CASE UNCHANGED <<sess, told>> /\ \/ Then(<<>>) \/ Then(<<Do("conn_fatal")>>)
                                       \/ Then(Refuse(r)) \/ Then(<<Do("session_closed")>>)
  <2>1. Quiet
    BY <1>4, <1>5 DEF Quiet
  <2> QED BY <1>1, <1>2, <1>3, <1>5, <2>1, QuietThen0, QuietFatal, QuietPair, QuietConn
<1>6. ASSUME req[r].kind = "CONNECT", ~everEst, sess = "SENT",
             SessionFailed(<<>>) \/ SessionFailed(<<Do("conn_fatal")>>)
      PROVE  Rules'
  <2>1. Perspective = "client"
    BY <1>2, <1>6 DEF Inv, Connects
  <2>2. Refused("failed")
    BY <1>4, <1>6, <2>1 DEF Refused, SessionFailed, Opening
  <2>3. Then(<<App>> \o <<>>) \/ Then(<<App>> \o <<Do("conn_fatal")>>)
    BY <1>6 DEF SessionFailed
  <2>4. Pending(On("fin_release", r))'
    <3>1. Len(agenda) >= 2 /\ agenda[2] = On("fin_release", r)
      BY <1>1, <1>2 DEF Inv, Stack, HeadDue, At, This
    <3>2. Pending(On("fin_release", r)) /\ On("fin_release", r) # This
      <4>1. 2 \in 1..Len(agenda)
        BY <1>0, <3>1 DEF AgendaTyped
      <4> QED BY <1>1, <3>1, <4>1, CallFacts DEF Pending
    <3>3. App \in Calls /\ Do("conn_fatal") \in Calls
      BY CallFacts DEF ConnOps
    <3>4. <<App>> \o <<>> \in Seq(Calls) /\ <<App>> \o <<Do("conn_fatal")>> \in Seq(Calls)
      BY <3>3, Joined, Literals
    <3>5. PICK calls \in Seq(Calls) : Then(calls)
      BY <2>3, <3>4
    <3> DEFINE x == On("fin_release", r)
    <3>6. Pending(x) /\ x # This
      BY <3>2
    <3> HIDE DEF x
    <3>7. Pending(x)'
      BY <1>0, <1>1, <3>5, <3>6, StillPending
    <3> QED BY <3>7 DEF x
  <2>5. \A q \in Requests : Waiting(q)' => q = r
    BY <1>2, <1>4, <1>6 DEF Inv, Connects, Waiting
  <2>6. Fits(Do("conn_fatal")) /\ Do("conn_fatal").op = "conn_fatal"
    BY <1>1, <1>4, FatalFits
  <2>7. \A q \in Requests : Waiting(q)' =>
          \/ closed' \/ Pending(On("fin_release", q))' \/ Pending(On("reset_release", q))'
    BY <2>4, <2>5
  <2>8. This.op \notin {"send_200", "conn_fatal"}
    BY <1>1
  <2>9. CASE Then(<<App>> \o <<>>)
    BY <1>1, <1>3, <2>2, <2>7, <2>8, <2>9, RefusedThen
  <2>10. CASE Then(<<App>> \o <<Do("conn_fatal")>>)
    BY <1>1, <1>3, <2>2, <2>6, <2>7, <2>8, <2>10, RefusedThen
  <2> QED BY <2>3, <2>9, <2>10
<1>8. \/ UNCHANGED <<sess, told>> /\ \/ Then(<<>>) \/ Then(<<Do("conn_fatal")>>)
                                     \/ Then(Refuse(r)) \/ Then(<<Do("session_closed")>>)
      \/ /\ req[r].kind = "CONNECT" /\ ~everEst /\ sess = "SENT"
         /\ SessionFailed(<<>>) \/ SessionFailed(<<Do("conn_fatal")>>)
  <2>1. SessionFin(r) \in {<<>>, <<Do("conn_fatal")>>, Refuse(r), <<Do("session_closed")>>}
    BY DEF SessionFin
  <2>2. Then(SessionFin(r)) =>
          \/ Then(<<>>) \/ Then(<<Do("conn_fatal")>>) \/ Then(Refuse(r))
          \/ Then(<<Do("session_closed")>>)
    BY <2>1
  <2> QED BY <1>2, <2>2 DEF RequestStreamFin
<1> QED BY <1>5, <1>6, <1>8

-----------------------------------------------------------------------------
(* The client's CONNECT and the control stream.                            *)

\* control_bytes and settings_latched fit where control_bytes ran.
LEMMA ControlFits ==
    ASSUME Inv, agenda # <<>>, closed => closed', This.op = "control_bytes"
    PROVE  /\ Fits(Do("control_bytes")) /\ Do("control_bytes").op = "control_bytes"
           /\ Fits(Do("settings_latched")) /\ Do("settings_latched").op = "settings_latched"
<1> DEFINE a == Do("control_bytes")  b == Do("settings_latched")
<1>1. a \in Calls /\ a.op = "control_bytes" /\ b \in Calls /\ b.op = "settings_latched"
  BY CallFacts DEF ConnOps
<1> HIDE DEF a, b
<1>2. Fits(a) /\ Fits(b)
  BY <1>1, FitsHere DEF NoWalk
<1> QED BY <1>1, <1>2 DEF a, b

\* Until the session is SENT there is no CONNECT stream to speak of.
LEMMA NoneYet ==
    ASSUME Inv, sess \in {"IDLE", "PENDING"}, ~At("conn_fatal"), ~At("session_conn_lost")
    PROVE  \A r \in Requests : req[r].kind # "CONNECT"
  BY DEF Inv, Connects

LEMMA RulesClientMaybeEstablish ==
    ASSUME Inv, ClientMaybeEstablish, role' = role
    PROVE  Rules'
<1>1. agenda # <<>> /\ This.op = "client_maybe_establish"
  BY DEF ClientMaybeEstablish, At, This
<1>2. This.r \in Requests
  BY <1>1, HeadFacts, CallFacts DEF StreamOps
<1>3. QuietHead /\ UNCHANGED <<role, closed, everEst, drainRx, respOk>>
  BY <1>1, PlainHead DEF ClientMaybeEstablish
<1>4. CASE Then(<<>>) /\ UNCHANGED <<sess, told, req>>
  BY <1>3, <1>4, SameCalm, QuietThen0 DEF Quiet
<1>5. CASE /\ sess = "SENT" /\ respOk /\ Set(This.r, "dead", TRUE)
           /\ SessionFailed(<<On("shutdown_unless_closed", This.r)>>)
  <2>1. Perspective = "client"
    BY <1>5, RoleAssumption DEF Inv, Story, Perspective, TypeOK
  <2>2. Refused("failed")
    BY <1>3, <1>5, <2>1 DEF Refused, SessionFailed, Opening
  <2>3. Calmer
    BY <1>2, <1>5, SetCalm
  <2>4. \A q \in Requests : ~Waiting(q)'
    BY <1>5, <2>3 DEF Inv, Connects, Calmer, Waiting
  <2> DEFINE b == On("shutdown_unless_closed", This.r)
  <2>5. Fits(b) /\ b.op = "shutdown_unless_closed"
    BY <1>1, <1>2, <1>3, StreamFits
  <2>6. Then(<<App>> \o <<b>>)
    BY <1>5 DEF SessionFailed
  <2> HIDE DEF b
  <2> QED BY <1>1, <2>2, <2>3, <2>4, <2>5, <2>6, RefusedThen
<1>6. CASE /\ sess = "SENT" /\ respOk /\ UNCHANGED <<sess, told, req>>
           /\ Then(<<On("session_established", This.r)>>)
  <2>1. Perspective = "client"
    BY <1>6, RoleAssumption DEF Inv, Story, Perspective, TypeOK
  <2>2. ~closed
    BY <1>1, <1>6 DEF Inv, Lost, At, This, Final, Active
  <2>3. Quiet /\ Calmer
    BY <1>3, <1>6, SameCalm DEF Quiet
  <2> DEFINE a == On("session_established", This.r)
  <2>4. Fits(a) /\ a.op = "session_established" /\ Then(<<a>>)
    BY <1>1, <1>2, <1>3, <1>6, StreamFits
  <2> HIDE DEF a
  <2>5. agenda' # <<>> /\ Head(agenda') = a /\ (HeadDue' => Rules')
    BY <1>3, <2>3, <2>4, QuietLead
  <2>6. ~closed' /\ sess' = "SENT" /\ respOk' /\ Perspective' = "client"
    BY <1>3, <1>6, <2>1, <2>2 DEF Perspective
  <2>7. HeadDue'
    BY <2>4, <2>5, <2>6 DEF HeadDue, At, This
  <2> QED BY <2>5, <2>7
<1> QED BY <1>4, <1>5, <1>6 DEF ClientMaybeEstablish

LEMMA RulesClientResponseDone ==
    ASSUME Inv, ClientResponseDone, role' = role
    PROVE  Rules'
<1>1. agenda # <<>> /\ This.op = "client_response_done"
  BY DEF ClientResponseDone, At, This
<1>0. This.r \in Requests
  BY <1>1, HeadFacts, CallFacts DEF StreamOps
<1>2. PICK r \in Requests : r = This.r
  BY <1>0
<1>3. QuietHead /\ UNCHANGED <<role, closed, everEst, drainRx>>
  BY <1>1, PlainHead DEF ClientResponseDone
<1>4. /\ Perspective = "client" /\ sess = "SENT" /\ ~respOk
      /\ req[r].kind = "CONNECT" /\ req[r].headers
  BY <1>1, <1>2 DEF Inv, Stack, HeadDue, At, This
<1>5. ASSUME UNCHANGED <<req, respOk>>,
             \/ SessionFailed(<<>>) \/ SessionFailed(<<Do("conn_fatal")>>)
             \/ sess' = "REJECTED" /\ Tell("rejected") /\ Then(<<App>>)
      PROVE  Rules'
  <2>1. Calmer
    BY <1>5, SameCalm
  <2>2. \A q \in Requests : ~Waiting(q)'
    BY <1>2, <1>4, <1>5 DEF Inv, Connects, Waiting
  <2>3. Fits(Do("conn_fatal")) /\ Do("conn_fatal").op = "conn_fatal"
    BY <1>1, <1>3, FatalFits
  <2>4. This.op \notin {"send_200", "conn_fatal"}
    BY <1>1
  <2>5. CASE SessionFailed(<<>>)
    <3>1. Refused("failed") /\ Then(<<App>> \o <<>>)
      BY <1>3, <1>4, <1>5, <2>5 DEF Refused, SessionFailed, Opening
    <3> QED BY <1>1, <2>1, <2>2, <2>4, <3>1, RefusedThen
  <2>6. CASE SessionFailed(<<Do("conn_fatal")>>)
    <3>1. Refused("failed") /\ Then(<<App>> \o <<Do("conn_fatal")>>)
      BY <1>3, <1>4, <1>5, <2>6 DEF Refused, SessionFailed, Opening
    <3> QED BY <1>1, <2>1, <2>2, <2>3, <2>4, <3>1, RefusedThen
  <2>7. CASE sess' = "REJECTED" /\ Tell("rejected") /\ Then(<<App>>)
    <3>1. Refused("rejected")
      BY <1>3, <1>4, <1>5, <2>7 DEF Refused, Opening
    <3>2. Then(<<App>> \o <<>>)
      <4>1. <<App>> \o <<>> = <<App>>
        BY CallFacts, Joined
      <4> QED BY <2>7, <4>1
    <3> QED BY <1>1, <2>1, <2>2, <2>4, <3>1, <3>2, RefusedThen
  <2> QED BY <1>5, <2>5, <2>6, <2>7
<1>6. ASSUME Set(r, "headers", FALSE), Then(<<>>), UNCHANGED <<sess, told, respOk>>
      PROVE  Rules'
  <2>1. /\ \A q \in Requests : q # r => req'[q] = req[q]
        /\ req'[r].kind = req[r].kind
    BY <1>6 DEF Set, Inv, TypeOK, Streams
  <2>2. \A q \in Requests : req'[q].kind = req[q].kind
    BY <2>1
  <2>3. Ground /\ Rest(closed', sess', told', req')
    <3>1. Ground /\ Rest(closed, sess, told, req) /\ agenda \in Seq(Calls)
      BY <1>1, <1>3, HeadFacts DEF Ground, AgendaTyped
    <3>2. ASSUME NEW k \in 2..Len(agenda) PROVE Due(agenda[k], closed', sess', told', req')
      <4>1. Due(agenda[k], closed, sess, told, req)
        BY <3>1 DEF Rest
      <4>2. agenda[k].op = "request_stream_bytes" => agenda[k].r \in Requests
        <5>1. agenda[k] \in Calls
          BY <3>1
        <5> QED BY <5>1, CallFacts DEF StreamOps
      <4> QED BY <1>3, <1>6, <2>2, <4>1, <4>2 DEF Due
    <3> QED BY <3>1, <3>2 DEF Rest
  <2>4. Stands' /\ (agenda' # <<>> => agenda'[1].op \notin HeadOnly)
    BY <1>1, <1>6, <2>3, Then0
  <2>5. HeadDue'
    BY <2>4, HeadPlain DEF HeadOnly, SpecialHead, Stands
  <2>6. Lost'
    BY <1>1, <1>3, <1>4, <1>6 DEF Inv, Lost, At, This, Final, Active
  <2>7. Story'
    BY <1>3, <1>4, <1>6 DEF Inv, Story, Perspective
  <2>8. Connects'
    BY <1>3, <1>4, <1>6, <2>2 DEF Inv, Connects, Perspective
  <2> QED BY <2>4, <2>5, <2>6, <2>7, <2>8 DEF Rules, Stack, Stands
<1>7. ASSUME respOk' = TRUE, Then(<<On("client_maybe_establish", r)>>),
             UNCHANGED <<sess, told, req>>
      PROVE  Rules'
  <2> DEFINE a == On("client_maybe_establish", r)
  <2>1. Fits(a) /\ a.op = "client_maybe_establish" /\ Then(<<a>>)
    BY <1>1, <1>3, <1>7, StreamFits
  <2> HIDE DEF a
  <2>2. Ground /\ Rest(closed', sess', told', req')
    BY <1>1, <1>3, <1>7, HeadFacts DEF Ground
  <2>3. Stands' /\ agenda'[1] = a
    BY <1>1, <2>1, <2>2, Then1
  <2>4. HeadDue'
    BY <2>1, <2>3, HeadPlain DEF SpecialHead, Stands
  <2>5. Lost'
    BY <1>1, <1>3, <1>4, <1>7 DEF Inv, Lost, At, This, Final, Active
  <2>6. Story'
    BY <1>3, <1>4, <1>7 DEF Inv, Story, Perspective
  <2>7. Connects'
    BY <1>3, <1>4, <1>7 DEF Inv, Connects, Perspective
  <2> QED BY <2>3, <2>4, <2>5, <2>6, <2>7 DEF Rules, Stack, Stands
<1> QED BY <1>2, <1>5, <1>6, <1>7 DEF ClientResponseDone, ResponseBodies

LEMMA RulesSettingsLatched ==
    ASSUME Inv, SettingsLatched, role' = role
    PROVE  Rules'
<1>1. agenda # <<>> /\ This.op = "settings_latched"
  BY DEF SettingsLatched, At, This
<1>2. ~At("conn_fatal") /\ ~At("session_conn_lost")
  BY <1>1 DEF At, This
<1>3. QuietHead /\ Calmer /\ UNCHANGED <<role, closed, everEst, drainRx, respOk, req>>
  BY <1>1, PlainHead, SameCalm DEF SettingsLatched
<1>4. CASE Perspective = "client" /\ sess = "PENDING" /\ SessionFailed(<<>>)
  <2>1. Refused("failed") /\ Then(<<App>> \o <<>>)
    BY <1>3, <1>4 DEF Refused, SessionFailed, Opening
  <2>2. \A q \in Requests : ~Waiting(q)'
    BY <1>2, <1>3, <1>4, NoneYet DEF Waiting
  <2> QED BY <1>1, <1>3, <2>1, <2>2, RefusedThen
<1>5. CASE /\ Perspective = "client" /\ sess = "PENDING" /\ UNCHANGED <<sess, told>>
           /\ Then(<<Do("client_send_connect")>>)
  <2> DEFINE a == Do("client_send_connect")
  <2>1. Fits(a) /\ a.op = "client_send_connect" /\ Then(<<a>>)
    BY <1>1, <1>3, <1>5, ConnFits
  <2> HIDE DEF a
  <2>2. Quiet
    BY <1>3, <1>5 DEF Quiet
  <2>3. agenda' # <<>> /\ Head(agenda') = a /\ (HeadDue' => Rules')
    BY <1>3, <2>1, <2>2, QuietLead
  <2>4. HeadDue'
    BY <1>3, <1>5, <2>1, <2>3 DEF HeadDue, At, This, Perspective
  <2> QED BY <2>3, <2>4
<1>6. CASE /\ Perspective = "server" /\ ParkedReady /\ UNCHANGED <<sess, told>>
           /\ Then(<<On("server_request_done", parked.es)>>
                   \o IF parked.fin THEN <<On("deferred_fin", parked.es)>> ELSE <<>>)
  <2>1. parked.es \in Requests
    BY <1>6 DEF Inv, TypeOK, ParkedReady
  <2> DEFINE a == On("server_request_done", parked.es)  b == On("deferred_fin", parked.es)
  <2>2. Fits(a) /\ a.op = "server_request_done"
    BY <1>1, <1>3, <2>1, StreamFits
  <2>3. b \in Calls /\ b.op = "deferred_fin"
    BY <2>1, CallFacts DEF StreamOps
  <2>4. Then(<<a>> \o <<b>>) \/ Then(<<a>> \o <<>>)
    BY <1>6
  <2> HIDE DEF a, b
  <2>5. Fits(b)
    BY <1>1, <1>3, <2>3, FitsHere DEF NoWalk
  <2>6. Apart(closed', a, b)
    BY <2>2, <2>3 DEF Apart, HeadOnly, NoWalk
  <2>7. <<a>> \o <<b>> = <<a, b>> /\ <<a>> \o <<>> = <<a>>
    BY <2>2, <2>3, Joined DEF Fits
  <2>8. Then(<<a, b>>) \/ Then(<<a>>)
    BY <2>4, <2>7
  <2>9. Quiet
    BY <1>3, <1>6 DEF Quiet
  <2>10. agenda' # <<>> /\ Head(agenda') = a /\ (HeadDue' => Rules')
    BY <1>3, <2>2, <2>5, <2>6, <2>8, <2>9, QuietLead
  <2>11. HeadDue'
    BY <1>3, <1>6, <2>2, <2>10 DEF HeadDue, At, This, Perspective
  <2> QED BY <2>10, <2>11
<1>7. CASE Then(<<>>) /\ UNCHANGED <<sess, told>>
  BY <1>3, <1>7, QuietThen0 DEF Quiet
<1> QED BY <1>4, <1>5, <1>6, <1>7 DEF SettingsLatched

LEMMA RulesControlBytes ==
    ASSUME Inv, ControlBytes, role' = role
    PROVE  Rules'
<1>1. agenda # <<>> /\ This.op = "control_bytes"
  BY DEF ControlBytes, At, This
<1>2. QuietHead /\ UNCHANGED <<role, closed, everEst, drainRx, respOk>>
  BY <1>1, PlainHead DEF ControlBytes
<1> DEFINE a == Do("control_bytes")  b == Do("settings_latched")  d == Do("session_draining")
<1>3. /\ Fits(a) /\ a.op = "control_bytes" /\ Fits(b) /\ b.op = "settings_latched"
      /\ Fits(d) /\ d.op = "session_draining" /\ Fits(App) /\ App.op = "app"
  BY <1>1, <1>2, ControlFits, ConnFits, AppFits
<1>4. \/ /\ UNCHANGED <<sess, told, req>>
         /\ \/ Then(<<>>) \/ Then(<<Do("conn_fatal")>>) \/ Then(<<a>>)
            \/ Then(<<App, b, a>>) \/ Then(<<d, a>>)
      \/ \E r \in Requests :
           /\ Perspective = "client" /\ sess = "SENT" /\ req[r].kind = "CONNECT"
           /\ Set(r, "dead", TRUE)
           /\ SessionFailed(<<On("shutdown_unless_closed", r), d, a>>)
  BY DEF ControlBytes
<1> HIDE DEF a, b, d
<1>5. ASSUME UNCHANGED <<sess, told, req>>,
             \/ Then(<<>>) \/ Then(<<Do("conn_fatal")>>) \/ Then(<<a>>)
             \/ Then(<<App, b, a>>) \/ Then(<<d, a>>)
      PROVE  Rules'
  <2>1. Quiet /\ Calmer
    BY <1>2, <1>5, SameCalm DEF Quiet
  <2>2. /\ Apart(closed', App, b) /\ Apart(closed', App, a) /\ Apart(closed', b, a)
        /\ Apart(closed', d, a)
    BY <1>3 DEF Apart, HeadOnly, NoWalk
  <2>3. CASE Then(<<>>)
    BY <1>2, <2>1, <2>3, QuietThen0
  <2>4. CASE Then(<<Do("conn_fatal")>>)
    BY <1>2, <2>1, <2>4, QuietFatal
  <2>5. CASE Then(<<a>>)
    BY <1>2, <1>3, <2>1, <2>5, QuietThen1 DEF SpecialHead
  <2>6. CASE Then(<<App, b, a>>)
    BY <1>2, <1>3, <2>1, <2>2, <2>6, QuietThen3 DEF SpecialHead
  <2>7. CASE Then(<<d, a>>)
    BY <1>2, <1>3, <2>1, <2>2, <2>7, QuietThen2 DEF SpecialHead
  <2> QED BY <1>5, <2>3, <2>4, <2>5, <2>6, <2>7
<1>6. ASSUME NEW r \in Requests, Perspective = "client", sess = "SENT",
             req[r].kind = "CONNECT", Set(r, "dead", TRUE),
             SessionFailed(<<On("shutdown_unless_closed", r), d, a>>)
      PROVE  Rules'
  <2>1. Refused("failed")
    BY <1>2, <1>6 DEF Refused, SessionFailed, Opening
  <2>2. Calmer
    BY <1>6, SetCalm
  <2>3. \A q \in Requests : ~Waiting(q)'
    <3>1. req'[r].dead = TRUE
      BY <1>6 DEF Set, Inv, TypeOK, Streams
    <3> QED BY <1>6, <2>2, <3>1 DEF Inv, Connects, Calmer, Waiting
  <2> DEFINE s == On("shutdown_unless_closed", r)
  <2>4. Fits(s) /\ s.op = "shutdown_unless_closed"
    BY <1>1, <1>2, StreamFits
  <2>5. Then(<<App>> \o <<s, d, a>>)
    BY <1>6 DEF SessionFailed
  <2> HIDE DEF s
  <2> QED BY <1>1, <1>3, <2>1, <2>2, <2>3, <2>4, <2>5, RefusedThen
<1> QED BY <1>4, <1>5, <1>6

-----------------------------------------------------------------------------
(* Calls on top of the stack.                                              *)

\* Call a may stand above the whole stack, which waits for no less.
Above(c, a) == \A k \in 1..Len(agenda) : Apart(c, a, agenda[k])
Whole(c, s, t, q) == \A k \in 1..Len(agenda) : Due(agenda[k], c, s, t, q)
FitsOn(a) == a \in Calls /\ Due(a, closed', sess', told', req') /\ Above(closed', a)

LEMMA EnterSeq ==
    ASSUME Ground, Whole(closed', sess', told', req'), NEW calls \in Seq(Calls), Enter(calls),
           \A i \in 1..Len(calls) : FitsOn(calls[i]),
           \A i, j \in 1..Len(calls) : i < j => Apart(closed', calls[i], calls[j])
    PROVE  /\ Stands' /\ Len(agenda') = Len(calls) + Len(agenda)
           /\ \A i \in 1..Len(calls) : agenda'[i] = calls[i]
           /\ calls = <<>> => agenda' = agenda
<1>1. /\ agenda' \in Seq(Calls) /\ Len(agenda') = Len(calls) + Len(agenda)
      /\ \A i \in 1..Len(calls) : agenda'[i] = calls[i]
      /\ \A i \in 1..Len(agenda') : i > Len(calls) =>
                /\ i - Len(calls) \in 1..Len(agenda)
                /\ agenda'[i] = agenda[i - Len(calls)]
  BY Entered DEF Ground, AgendaTyped, Enter
<1>2. ASSUME NEW i \in 1..Len(agenda'), NEW j \in 1..Len(agenda'), i < j
      PROVE  Apart(closed', agenda'[i], agenda'[j])
  <2>1. CASE j <= Len(calls)
    BY <1>1, <1>2, <2>1
  <2>2. CASE j > Len(calls) /\ i <= Len(calls)
    <3>1. i \in 1..Len(calls) /\ agenda'[i] = calls[i] /\ FitsOn(calls[i])
      BY <1>1, <1>2, <2>2
    <3>2. j - Len(calls) \in 1..Len(agenda) /\ agenda'[j] = agenda[j - Len(calls)]
      BY <1>1, <2>2
    <3> QED BY <3>1, <3>2 DEF FitsOn, Above
  <2>3. CASE i > Len(calls)
    <3> DEFINE m == i - Len(calls)  n == j - Len(calls)
    <3>1. /\ m \in 1..Len(agenda) /\ n \in 1..Len(agenda) /\ m < n
          /\ agenda'[i] = agenda[m] /\ agenda'[j] = agenda[n]
      BY <1>1, <1>2, <2>3
    <3> HIDE DEF m, n
    <3>2. Apart(closed, agenda[m], agenda[n])
      BY <3>1 DEF Ground, Pairs
    <3> QED BY <3>1, <3>2 DEF Ground, Apart
  <2> QED BY <2>1, <2>2, <2>3
<1>3. ASSUME NEW i \in 1..Len(agenda') PROVE Due(agenda'[i], closed', sess', told', req')
  <2>1. CASE i <= Len(calls)
    <3>1. i \in 1..Len(calls) /\ agenda'[i] = calls[i]
      BY <1>1, <2>1
    <3> QED BY <3>1 DEF FitsOn
  <2>2. CASE i > Len(calls)
    BY <1>1, <2>2 DEF Whole
  <2> QED BY <1>1, <2>1, <2>2
<1>4. Each(agenda, closed, sess, told, req)'
  BY <1>3 DEF Each, Due, Perspective, Ground
<1>5. calls = <<>> => agenda' = agenda
  BY DEF Enter, Ground, AgendaTyped
<1> QED BY <1>1, <1>2, <1>4, <1>5 DEF Stands, AgendaTyped, Pairs

LEMMA Enter1 ==
    ASSUME Ground, Whole(closed', sess', told', req'), NEW a, FitsOn(a), Enter(<<a>>)
    PROVE  Stands' /\ agenda' # <<>> /\ agenda'[1] = a
<1> DEFINE calls == <<a>>
<1>1. calls \in Seq(Calls) /\ Len(calls) = 1 /\ calls[1] = a /\ Enter(calls)
  BY DEF FitsOn
<1> HIDE DEF calls
<1>2. \A i \in 1..Len(calls) : FitsOn(calls[i])
  BY <1>1
<1>3. \A i, j \in 1..Len(calls) : i < j => Apart(closed', calls[i], calls[j])
  BY <1>1
<1>4. /\ Stands' /\ Len(agenda') = Len(calls) + Len(agenda)
      /\ \A i \in 1..Len(calls) : agenda'[i] = calls[i]
  BY <1>1, <1>2, <1>3, EnterSeq
<1>5. Len(agenda) \in Nat
  BY DEF Ground, AgendaTyped
<1> QED BY <1>1, <1>4, <1>5

LEMMA Enter2 ==
    ASSUME Ground, Whole(closed', sess', told', req'), NEW a, FitsOn(a), NEW b, FitsOn(b),
           Apart(closed', a, b), Enter(<<a, b>>)
    PROVE  /\ Stands' /\ agenda' # <<>> /\ agenda'[1] = a
           /\ Len(agenda') >= 2 /\ agenda'[2] = b
<1> DEFINE calls == <<a, b>>
<1>1. calls \in Seq(Calls) /\ Len(calls) = 2 /\ calls[1] = a /\ calls[2] = b /\ Enter(calls)
  BY DEF FitsOn
<1> HIDE DEF calls
<1>2. \A i \in 1..Len(calls) : FitsOn(calls[i])
  BY <1>1
<1>3. \A i, j \in 1..Len(calls) : i < j => Apart(closed', calls[i], calls[j])
  BY <1>1
<1>4. /\ Stands' /\ Len(agenda') = Len(calls) + Len(agenda)
      /\ \A i \in 1..Len(calls) : agenda'[i] = calls[i]
  BY <1>1, <1>2, <1>3, EnterSeq
<1>5. Len(agenda) \in Nat
  BY DEF Ground, AgendaTyped
<1>6. Len(agenda') >= 2 /\ agenda'[1] = a /\ agenda'[2] = b
  BY <1>1, <1>4, <1>5
<1> QED BY <1>4, <1>6

\* What waits on the stack while an application operation or an input may come.
LEMMA MayFacts ==
    ASSUME Inv, AppMay
    PROVE  /\ \A op : op # "app" => ~At(op)
           /\ AgendaTyped /\ Pairs(agenda, closed) /\ Whole(closed, sess, told, req)
<1>1. AgendaTyped /\ Pairs(agenda, closed) /\ Each(agenda, closed, sess, told, req)
  BY DEF Inv, Stack
<1>2. \A op : op # "app" => ~At(op)
  BY DEF AppMay, Idle, At
<1> QED BY <1>1, <1>2 DEF Each, Whole

\* Which calls may come on top.
LEMMA FitsAbove ==
    ASSUME Inv, AppMay, closed => closed', NEW a \in Calls,
           Due(a, closed', sess', told', req'),
           Idle \/ a.op \in {"app", "conn_fatal", "session_closed", "client_send_connect"}
    PROVE  FitsOn(a)
<1>1. CASE Idle
  BY <1>1 DEF FitsOn, Above, Idle
<1>2. CASE agenda # <<>>
  <2>1. /\ This = agenda[1] /\ Over(closed, This) /\ This.op = "app" /\ AgendaTyped
        /\ Rest(closed, sess, told, req)
    BY <1>2, HeadFacts DEF AppMay, Idle, At, This
  <2>2. ASSUME NEW k \in 1..Len(agenda) PROVE Apart(closed', a, agenda[k])
    <3>1. CASE k = 1
      BY <1>2, <2>1, <3>1 DEF Apart, HeadOnly, NoWalk, Idle
    <3>2. CASE k # 1
      <4>1. k \in 2..Len(agenda)
        BY <2>1, <3>2 DEF AgendaTyped
      <4>2. Apart(closed, This, agenda[k])
        BY <2>1, <4>1 DEF Over
      <4>3. agenda[k].op \notin {"on_session_closed", "on_conn_error"} \/ a.op # agenda[k].op
        BY <1>2 DEF Idle
      <4> QED BY <1>2, <2>1, <4>2, <4>3 DEF Apart, HeadOnly, NoWalk, Idle
    <3> QED BY <3>1, <3>2
  <2> QED BY <2>2 DEF FitsOn, Above
<1> QED BY <1>1, <1>2 DEF Idle

LEMMA EnterPending ==
    ASSUME AgendaTyped, NEW calls \in Seq(Calls), Enter(calls), NEW x, Pending(x)
    PROVE  Pending(x)'
<1>1. PICK i \in 1..Len(agenda) : agenda[i] = x
  BY DEF Pending
<1>2. /\ agenda' \in Seq(Calls) /\ Len(agenda') = Len(calls) + Len(agenda)
      /\ \A n \in 1..Len(agenda') : n > Len(calls) => agenda'[n] = agenda[n - Len(calls)]
  BY Entered DEF AgendaTyped, Enter
<1> DEFINE j == i + Len(calls)
<1>3. j \in 1..Len(agenda') /\ j > Len(calls) /\ j - Len(calls) = i
  BY <1>1, <1>2 DEF AgendaTyped
<1> QED BY <1>1, <1>2, <1>3 DEF Pending

\* A quiet operation or input keeps the story.
LEMMA QuietEnter ==
    ASSUME Inv, Quiet, Calmer, AppMay, NEW calls \in Seq(Calls), Enter(calls), Stands', HeadDue'
    PROVE  Rules'
<1>1. /\ \A op : op # "app" => ~At(op)
      /\ AgendaTyped
  BY MayFacts
<1>2. \A x : Pending(x) => Pending(x)'
  BY <1>1, EnterPending
<1>3. Lost'
  BY <1>1 DEF Inv, Lost, Quiet
<1>4. Story'
  <2>1. Pending(Do("on_session_closed")) => Pending(Do("on_session_closed"))'
    BY <1>2
  <2> QED BY <2>1 DEF Inv, Story, Quiet, Perspective
<1>5. Connects'
  <2>1. ASSUME NEW r \in Requests, req'[r].kind = "CONNECT"
        PROVE  /\ Perspective' = "client" /\ (respOk' => req'[r].headers)
               /\ sess' \notin {"IDLE", "PENDING"}
    BY <1>1, <2>1 DEF Inv, Connects, Calmer, Quiet, Perspective
  <2>2. ASSUME NEW r \in Requests, Waiting(r)'
        PROVE  \/ closed' \/ sess' = "SENT"
               \/ Pending(On("fin_release", r))' \/ Pending(On("reset_release", r))'
    <3>1. Waiting(r)
      BY <2>2 DEF Waiting, Calmer
    <3>2. /\ Pending(On("fin_release", r)) => Pending(On("fin_release", r))'
          /\ Pending(On("reset_release", r)) => Pending(On("reset_release", r))'
      BY <1>2
    <3> QED BY <1>1, <3>1, <3>2 DEF Inv, Connects, Quiet
  <2>3. \A r, q \in Requests : req'[r].kind = "CONNECT" /\ req'[q].kind = "CONNECT" => r = q
    BY DEF Inv, Connects, Calmer
  <2>5. \A r \in Requests : req'[r].kind \in {"BTYPE", "REQUEST"} => Perspective' = "server"
    BY DEF Inv, Connects, Calmer, Quiet, Perspective
  <2>4. sess' \in {"IDLE", "PENDING"} => ~respOk'
    BY DEF Inv, Connects, Quiet
  <2> QED BY <2>1, <2>2, <2>3, <2>4, <2>5 DEF Connects
<1> QED BY <1>3, <1>4, <1>5 DEF Rules, Stack, Stands

\* The ground under a quiet operation or input.
LEMMA QuietWhole ==
    ASSUME Inv, Quiet, Calmer, AppMay
    PROVE  Ground /\ Whole(closed', sess', told', req')
<1>1. Ground /\ Whole(closed, sess, told, req) /\ agenda \in Seq(Calls)
  BY MayFacts DEF Quiet, Ground, AgendaTyped
<1>2. ASSUME NEW k \in 1..Len(agenda) PROVE Due(agenda[k], closed', sess', told', req')
  <2>1. Due(agenda[k], closed, sess, told, req)
    BY <1>1 DEF Whole
  <2>2. agenda[k].op = "request_stream_bytes" => agenda[k].r \in Requests
    <3>1. agenda[k] \in Calls
      BY <1>1
    <3> QED BY <3>1, CallFacts DEF StreamOps
  <2> QED BY <2>1, <2>2 DEF Due, Quiet, Calmer
<1> QED BY <1>1, <1>2 DEF Whole

\* No call, one call or two calls on top.
LEMMA QuietStay ==
    ASSUME Inv, Quiet, Calmer, AppMay, UNCHANGED agenda
    PROVE  Rules'
<1>1. Stack
  BY DEF Inv
<1>2. <<>> \in Seq(Calls) /\ Enter(<<>>)
  BY <1>1 DEF Enter, Stack, AgendaTyped
<1>3. Stands'
  <2>1. Ground /\ Whole(closed', sess', told', req')
    BY QuietWhole
  <2> DEFINE calls == <<>>
  <2>2. calls \in Seq(Calls) /\ Enter(calls) /\ Len(calls) = 0
    BY <1>2
  <2> HIDE DEF calls
  <2>3. /\ \A i \in 1..Len(calls) : FitsOn(calls[i])
        /\ \A i, j \in 1..Len(calls) : i < j => Apart(closed', calls[i], calls[j])
    BY <2>2
  <2> QED BY <2>1, <2>2, <2>3, EnterSeq
<1>4. HeadDue'
  <2>1. agenda' # <<>> => Head(agenda').op = "app"
    BY DEF AppMay, Idle, At
  <2> QED BY <2>1 DEF HeadDue, At
<1> QED BY <1>2, <1>3, <1>4, QuietEnter

LEMMA QuietEnter1 ==
    ASSUME Inv, Quiet, Calmer, AppMay, NEW a, FitsOn(a), Enter(<<a>>), a.op \notin SpecialHead
    PROVE  Rules'
<1>1. Ground /\ Whole(closed', sess', told', req')
  BY QuietWhole
<1>2. Stands' /\ agenda'[1] = a
  BY <1>1, Enter1
<1>3. HeadDue'
  BY <1>2, HeadPlain DEF Stands
<1>4. <<a>> \in Seq(Calls)
  BY DEF FitsOn
<1> QED BY <1>2, <1>3, <1>4, QuietEnter

LEMMA QuietEnter2 ==
    ASSUME Inv, Quiet, Calmer, AppMay, NEW a, FitsOn(a), NEW b, FitsOn(b), Enter(<<a, b>>),
           Apart(closed', a, b), a.op \notin SpecialHead
    PROVE  Rules'
<1>1. Ground /\ Whole(closed', sess', told', req')
  BY QuietWhole
<1>2. Stands' /\ agenda'[1] = a
  BY <1>1, Enter2
<1>3. HeadDue'
  BY <1>2, HeadPlain DEF Stands
<1>4. <<a, b>> \in Seq(Calls)
  BY DEF FitsOn
<1> QED BY <1>2, <1>3, <1>4, QuietEnter

\* An error of the connection, found by an input or an operation.
LEMMA QuietEnterFatal ==
    ASSUME Inv, Quiet, Calmer, AppMay, ~closed,
           NEW op \in {"conn_fatal", "session_closed"}, Enter(<<Do(op)>>)
    PROVE  Rules'
<1> DEFINE a == Do(op)
<1>1. a \in Calls /\ a.op = op /\ Enter(<<a>>)
  BY CallFacts DEF ConnOps
<1> HIDE DEF a
<1>2. Due(a, closed', sess', told', req')
  BY <1>1 DEF Due
<1>3. FitsOn(a)
  BY <1>1, <1>2, FitsAbove
<1> QED BY <1>1, <1>3, QuietEnter1 DEF SpecialHead

-----------------------------------------------------------------------------
(* Backend inputs and application operations.                              *)

\* What an input finds: nothing runs, and every call may come.
LEMMA InputFits ==
    ASSUME Inv, Idle, closed => closed'
    PROVE  /\ AppMay
           /\ \A a \in Calls : Due(a, closed', sess', told', req') => FitsOn(a)
<1>1. AppMay
  BY DEF AppMay
<1> QED BY <1>1, FitsAbove

LEMMA RulesPlainInputs ==
    ASSUME Inv, role' = role,
           \/ \E ok \in BOOLEAN : OpenDeferredLocals(ok)
           \/ OnPeerControlOpened \/ OnCriticalViolation \/ OnControlBytes
           \/ SetTransportError
    PROVE  Rules'
<1>1. Idle /\ AppMay /\ Quiet /\ Calmer
  BY SameCalm DEF OpenDeferredLocals, OnPeerControlOpened, OnCriticalViolation,
     OnControlBytes, SetTransportError, AppMay, Quiet, connVars, sessVars
<1>2. CASE UNCHANGED agenda
  BY <1>1, <1>2, QuietStay
<1>3. CASE Enter(<<>>)
  <2>1. UNCHANGED agenda
    BY <1>1, <1>3 DEF Enter, Idle
  <2> QED BY <1>1, <2>1, QuietStay
<1>4. CASE ~closed /\ Enter(<<Do("conn_fatal")>>)
  BY <1>1, <1>4, QuietEnterFatal
<1>5. CASE ~closed /\ Enter(<<Do("control_bytes")>>)
  <2> DEFINE a == Do("control_bytes")
  <2>1. a \in Calls /\ a.op = "control_bytes" /\ Enter(<<a>>)
    BY <1>5, CallFacts DEF ConnOps
  <2> HIDE DEF a
  <2>2. FitsOn(a)
    BY <1>1, <2>1, InputFits DEF Due, Quiet
  <2> QED BY <1>1, <2>1, <2>2, QuietEnter1 DEF SpecialHead
<1>6. CASE OnPeerControlOpened \/ SetTransportError
  BY <1>2, <1>6 DEF OnPeerControlOpened, SetTransportError
<1>7. CASE OnCriticalViolation
  BY <1>4, <1>7 DEF OnCriticalViolation
<1>8. CASE OnControlBytes
  BY <1>5, <1>8 DEF OnControlBytes
<1>9. ASSUME NEW ok \in BOOLEAN, OpenDeferredLocals(ok)
      PROVE  Rules'
  <2>1. ~closed /\ \/ agenda' = <<>> \o agenda \/ agenda' = <<Do("conn_fatal")>> \o agenda
    BY <1>9 DEF OpenDeferredLocals, Enter
  <2>2. Enter(<<>>) \/ Enter(<<Do("conn_fatal")>>)
    BY <2>1 DEF Enter
  <2> QED BY <1>3, <1>4, <2>1, <2>2
<1> QED BY <1>6, <1>7, <1>8, <1>9

LEMMA RulesSessionOperations ==
    ASSUME Inv, role' = role, Start \/ SessionClose \/ SessionDrain \/ WtStreams
    PROVE  Rules'
<1>1. AppMay /\ Quiet /\ Calmer /\ ~closed
  BY SameCalm DEF Start, SessionClose, SessionDrain, WtStreams, SessionUsable, Quiet,
     connVars, sessVars
<1>2. CASE UNCHANGED agenda
  BY <1>1, <1>2, QuietStay
<1>3. CASE Enter(<<Do("conn_fatal")>>) \/ Enter(<<Do("session_closed")>>)
  BY <1>1, <1>3, QuietEnterFatal
<1> QED BY <1>2, <1>3 DEF Start, SessionClose, SessionDrain, WtStreams

\* A request stream opens: the one stream that is new on a server.
LEMMA RulesOnPeerBidiOpened ==
    ASSUME Inv, role' = role, NEW r \in Requests, OnPeerBidiOpened(r)
    PROVE  Rules'
<1>1. /\ Idle /\ Perspective = "server" /\ req[r].kind = "UNOPENED"
      /\ UNCHANGED <<role, closed, sess, everEst, told, drainRx, respOk, agenda>>
  BY DEF OnPeerBidiOpened, connVars, sessVars
<1>2. /\ \A q \in Requests : q # r => req'[q] = req[q]
      /\ req'[r].kind = "BTYPE"
  BY DEF OnPeerBidiOpened, Set, Inv, TypeOK, Streams
<1>3. Stack'
  <2>1. AgendaTyped' /\ agenda' = <<>>
    BY <1>1 DEF Inv, Stack, AgendaTyped, Idle
  <2>2. HeadDue'
    BY <2>1 DEF HeadDue, At
  <2> QED BY <2>1, <2>2 DEF Stack, Pairs, Each
<1>4. Lost'
  BY <1>1 DEF Inv, Lost, At, Idle
<1>5. Story'
  BY <1>1 DEF Inv, Story, Pending, Perspective
<1>6. Connects'
  BY <1>1, <1>2 DEF Inv, Connects, Waiting, Pending, At, Perspective, Idle
<1> QED BY <1>3, <1>4, <1>5, <1>6 DEF Rules

\* A stream ends and is released, without a call.
LEMMA RulesQuietRelease ==
    ASSUME Inv, Quiet, Idle, NEW r \in Requests, Release(r), UNCHANGED agenda
    PROVE  Rules'
<1>1. Calmer /\ AppMay
  BY ReleaseCalm DEF AppMay
<1> QED BY <1>1, QuietStay

LEMMA RulesOnStreamTerminal ==
    ASSUME Inv, role' = role, NEW r \in Requests, OnStreamTerminal(r)
    PROVE  Rules'
<1>1. Quiet /\ Idle /\ Release(r) /\ UNCHANGED agenda
  BY DEF OnStreamTerminal, Quiet, connVars, sessVars
<1> QED BY <1>1, RulesQuietRelease

\* Two calls of one stream on the empty stack.
LEMMA QuietStreamPair ==
    ASSUME Inv, Quiet, Calmer, Idle, NEW r \in Requests,
           \/ Enter(Poison(r))
           \/ /\ req'[r].kind # "UNOPENED"
              /\ Enter(<<Walk(r), On("stream_bytes_end", r)>>)
    PROVE  Rules'
<1>1. AppMay /\ \A a \in Calls : Due(a, closed', sess', told', req') => FitsOn(a)
  BY InputFits DEF Quiet
<1>2. CASE Enter(Poison(r))
  <2> DEFINE a == On("shutdown_raw", r)  b == On("session_stream_poisoned", r)
  <2>1. /\ a \in Calls /\ a.op = "shutdown_raw" /\ b \in Calls
        /\ b.op = "session_stream_poisoned" /\ Enter(<<a, b>>)
    BY <1>2, CallFacts DEF StreamOps, Poison
  <2> HIDE DEF a, b
  <2>2. FitsOn(a) /\ FitsOn(b)
    BY <1>1, <2>1 DEF Due
  <2>3. Apart(closed', a, b)
    BY <2>1 DEF Apart, HeadOnly, NoWalk
  <2> QED BY <1>1, <2>1, <2>2, <2>3, QuietEnter2 DEF SpecialHead
<1>3. CASE req'[r].kind # "UNOPENED" /\ Enter(<<Walk(r), On("stream_bytes_end", r)>>)
  <2> DEFINE a == Walk(r)  b == On("stream_bytes_end", r)
  <2>1. /\ a \in Calls /\ a.op = "request_stream_bytes" /\ a.r = r /\ b \in Calls
        /\ b.op = "stream_bytes_end" /\ Enter(<<a, b>>)
    BY <1>3, CallFacts DEF StreamOps, Walk
  <2> HIDE DEF a, b
  <2>2. FitsOn(a) /\ FitsOn(b)
    BY <1>1, <1>3, <2>1 DEF Due
  <2>3. Apart(closed', a, b)
    BY <2>1 DEF Apart, HeadOnly, NoWalk
  <2> QED BY <1>1, <2>1, <2>2, <2>3, QuietEnter2 DEF SpecialHead
<1> QED BY <1>2, <1>3

LEMMA RulesOnStreamBytes ==
    ASSUME Inv, role' = role, NEW r \in Requests, OnStreamBytes(r)
    PROVE  Rules'
<1>1. Idle /\ Quiet /\ req[r].kind \in {"BTYPE", "CONNECT", "REQUEST"}
  BY DEF OnStreamBytes, Receives, Quiet, connVars, sessVars
<1>2. Calmer /\ req'[r].kind # "UNOPENED"
  <2>1. CASE UNCHANGED req
    BY <1>1, <2>1, SameCalm
  <2>2. CASE req[r].kind = "BTYPE" /\ req' = [req EXCEPT ![r].kind = "REQUEST"]
    <3>1. \A q \in Requests : q # r => req'[q] = req[q]
      BY <2>2 DEF Inv, TypeOK
    <3>2. req'[r].kind = "REQUEST"
      BY <2>2 DEF Inv, TypeOK, Streams
    <3> QED BY <2>2, <3>1, <3>2 DEF Calmer
  <2> QED BY <2>1, <2>2 DEF OnStreamBytes
<1> QED BY <1>1, <1>2, QuietStreamPair DEF OnStreamBytes

LEMMA RulesOnStreamFin ==
    ASSUME Inv, role' = role, NEW r \in Requests, OnStreamFin(r)
    PROVE  Rules'
<1>1. Idle /\ AppMay /\ ~closed /\ Quiet /\ Calmer
  BY SameCalm DEF OnStreamFin, AppMay, Quiet, connVars, sessVars
<1>2. CASE UNCHANGED agenda
  BY <1>1, <1>2, QuietStay
<1>3. CASE Enter(<<Do("conn_fatal")>>)
  BY <1>1, <1>3, QuietEnterFatal
<1>4. CASE Enter(Fin(r))
  <2> DEFINE a == On("request_stream_fin", r)  b == On("fin_release", r)
  <2>1. /\ a \in Calls /\ a.op = "request_stream_fin" /\ a.r = r /\ b \in Calls
        /\ b.op = "fin_release" /\ b = On("fin_release", r) /\ Enter(<<a, b>>)
    BY <1>4, CallFacts DEF StreamOps, Fin
  <2> HIDE DEF a, b
  <2>2. FitsOn(a) /\ FitsOn(b)
    BY <1>1, <2>1, InputFits DEF Due, Quiet
  <2>3. Apart(closed', a, b)
    BY <2>1 DEF Apart, HeadOnly, NoWalk
  <2>4. Ground /\ Whole(closed', sess', told', req')
    BY <1>1, QuietWhole
  <2>5. Stands' /\ agenda' # <<>> /\ agenda'[1] = a /\ Len(agenda') >= 2 /\ agenda'[2] = b
    BY <2>1, <2>2, <2>3, <2>4, Enter2
  <2>6. HeadDue'
    <3>1. Head(agenda') = a
      BY <2>5 DEF Stands, AgendaTyped
    <3> QED BY <2>1, <2>5, <3>1 DEF HeadDue, At, This
  <2>7. <<a, b>> \in Seq(Calls)
    BY <2>1
  <2> QED BY <1>1, <2>1, <2>5, <2>6, <2>7, QuietEnter
<1> QED BY <1>2, <1>3, <1>4 DEF OnStreamFin

LEMMA RulesOnStopSending ==
    ASSUME Inv, role' = role, NEW r \in Requests, OnStopSending(r)
    PROVE  Rules'
<1>1. Idle /\ AppMay /\ Quiet /\ Calmer
  BY SameCalm DEF OnStopSending, AppMay, Quiet, connVars, sessVars
<1> DEFINE a == On("shutdown_raw", r)  b == On("mark_dead", r)
           c == Do("parked_request_cancel")  d == On("reset_release", r)
<1>2. /\ a \in Calls /\ a.op = "shutdown_raw" /\ b \in Calls /\ b.op = "mark_dead"
      /\ c \in Calls /\ c.op = "parked_request_cancel"
      /\ d \in Calls /\ d.op = "reset_release"
  BY CallFacts DEF StreamOps, ConnOps
<1>3. Enter(<<a, b>> \o <<c>> \o <<d>>) \/ Enter(<<a, b>> \o <<c>> \o <<>>)
  BY DEF OnStopSending, Refuse
<1> HIDE DEF a, b, c, d
<1>4. PICK calls \in Seq(Calls) :
        /\ Enter(calls) /\ Len(calls) \in {3, 4}
        /\ calls[1] = a /\ calls[2] = b /\ calls[3] = c
        /\ Len(calls) = 4 => calls[4] = d
  <2>1. <<a, b>> \o <<c>> = <<a, b, c>>
    <3>1. a \in Calls /\ b \in Calls /\ c \in Calls
      BY <1>2
    <3> QED BY <3>1, Joined
  <2>2. Enter(<<a, b, c>> \o <<d>>) \/ Enter(<<a, b, c>> \o <<>>)
    BY <1>3, <2>1
  <2>3. CASE Enter(<<a, b, c>> \o <<d>>)
    <3> DEFINE s == <<a, b, c>> \o <<d>>
    <3>1. /\ s \in Seq(Calls) /\ Len(s) = 4 /\ s[1] = a /\ s[2] = b /\ s[3] = c /\ s[4] = d
          /\ Enter(s)
      BY <1>2, <2>3
    <3> HIDE DEF s
    <3> QED BY <3>1
  <2>4. CASE Enter(<<a, b, c>> \o <<>>)
    <3> DEFINE s == <<a, b, c>>
    <3>1. s \in Seq(Calls) /\ Len(s) = 3 /\ s[1] = a /\ s[2] = b /\ s[3] = c
      BY <1>2
    <3>2. Enter(s)
      BY <1>2, <2>4, Joined
    <3> HIDE DEF s
    <3> QED BY <3>1, <3>2
  <2> QED BY <2>2, <2>3, <2>4
<1>5. FitsOn(a) /\ FitsOn(b) /\ FitsOn(c) /\ FitsOn(d)
  BY <1>1, <1>2, InputFits DEF Due, Quiet
<1>6. /\ Apart(closed', a, b) /\ Apart(closed', a, c) /\ Apart(closed', b, c)
      /\ Apart(closed', a, d) /\ Apart(closed', b, d) /\ Apart(closed', c, d)
  BY <1>2 DEF Apart, HeadOnly, NoWalk
<1>7. \A i \in 1..Len(calls) : FitsOn(calls[i])
  BY <1>4, <1>5
<1>8. \A i, j \in 1..Len(calls) : i < j => Apart(closed', calls[i], calls[j])
  BY <1>4, <1>6
<1>9. Ground /\ Whole(closed', sess', told', req')
  BY <1>1, QuietWhole
<1>10. /\ Stands' /\ Len(agenda') = Len(calls) + Len(agenda)
       /\ \A i \in 1..Len(calls) : agenda'[i] = calls[i]
  BY <1>4, <1>7, <1>8, <1>9, EnterSeq
<1>11. agenda'[1] = a
  BY <1>4, <1>10
<1>12. HeadDue'
  BY <1>2, <1>10, <1>11, HeadPlain DEF SpecialHead, Stands
<1> QED BY <1>1, <1>4, <1>10, <1>12, QuietEnter

LEMMA RulesOnStreamNativeId ==
    ASSUME Inv, role' = role, NEW r \in Requests, OnStreamNativeId(r)
    PROVE  Rules'
<1>1. Idle /\ AppMay /\ Quiet
  BY DEF OnStreamNativeId, AppMay, Quiet, connVars, sessVars
<1>2. Calmer
  BY SetCalm DEF OnStreamNativeId
<1> DEFINE a == On("client_maybe_establish", r)
<1>3. a \in Calls /\ a.op = "client_maybe_establish" /\ Enter(<<a>>)
  BY CallFacts DEF StreamOps, OnStreamNativeId
<1> HIDE DEF a
<1>4. FitsOn(a)
  BY <1>1, <1>3, InputFits DEF Due, Quiet
<1> QED BY <1>1, <1>2, <1>3, <1>4, QuietEnter1 DEF SpecialHead

-----------------------------------------------------------------------------
(* Steps that change the session or lose the connection.                   *)

\* The CONNECT streams of a step behind which the session is under way.
LEMMA LoudConnects ==
    ASSUME Inv, Calmer, UNCHANGED <<role, respOk>>, agenda # <<>>,
           This.op \notin {"fin_release", "reset_release"},
           NEW calls \in Seq(Calls), Then(calls),
           sess' \notin {"IDLE", "PENDING"}, closed => closed',
           \/ closed' \/ (sess # "SENT" /\ This.op # "conn_fatal")
           \/ \A r \in Requests : ~Waiting(r)'
    PROVE  Connects'
<1>1. AgendaTyped /\ \A op : At(op) <=> This.op = op
  BY HeadFacts
<1>2. ASSUME NEW r \in Requests, Waiting(r)'
      PROVE  \/ closed' \/ Pending(On("fin_release", r))' \/ Pending(On("reset_release", r))'
  <2>1. Waiting(r)
    BY <1>2 DEF Waiting, Calmer
  <2>2. CASE closed'
    BY <2>2
  <2>3. CASE ~closed' /\ sess # "SENT" /\ This.op # "conn_fatal"
    <3>1. Pending(On("fin_release", r)) \/ Pending(On("reset_release", r))
      BY <1>1, <2>1, <2>3 DEF Inv, Connects
    <3>2. This # On("fin_release", r) /\ This # On("reset_release", r)
      BY CallFacts
    <3>3. CASE Pending(On("fin_release", r))
      BY <1>1, <3>2, <3>3, StillPending
    <3>4. CASE Pending(On("reset_release", r))
      BY <1>1, <3>2, <3>4, StillPending
    <3> QED BY <3>1, <3>3, <3>4
  <2> QED BY <1>2, <2>2, <2>3
<1>3. ASSUME NEW r \in Requests, req'[r].kind = "CONNECT"
      PROVE  Perspective' = "client" /\ (respOk' => req'[r].headers)
  BY <1>3 DEF Inv, Connects, Calmer, Perspective
<1>4. \A r, q \in Requests : req'[r].kind = "CONNECT" /\ req'[q].kind = "CONNECT" => r = q
  BY DEF Inv, Connects, Calmer
<1>5. \A r \in Requests : req'[r].kind \in {"BTYPE", "REQUEST"} => Perspective' = "server"
  BY DEF Inv, Connects, Calmer, Perspective
<1> QED BY <1>2, <1>3, <1>4, <1>5 DEF Connects

\* A return that changes nothing else, in an ended or active session.
LEMMA RulesLateReturn ==
    ASSUME Inv, Quiet, UNCHANGED req, closed, agenda # <<>>,
           This.op \in {"conn_fatal", "session_conn_lost"},
           \/ sess \in Final /\ Then(<<>>)
           \/ sess \in Active /\ This.op # "conn_fatal" /\ Then(<<Do("session_closed")>>)
    PROVE  Rules'
<1>1. Calmer
  BY SameCalm
<1>2. Ground /\ Rest(closed', sess', told', req')
  BY <1>1, QuietGround
<1>3. sess' \notin {"IDLE", "PENDING"}
  BY DEF Final, Active, Quiet
<1>4. AgendaTyped
  BY HeadFacts
<1>5. ASSUME NEW calls \in Seq(Calls), Then(calls)
      PROVE  Story' /\ Connects'
  <2>1. This # Do("on_session_closed")
    BY CallFacts
  <2>2. Pending(Do("on_session_closed")) => Pending(Do("on_session_closed"))'
    BY <1>4, <1>5, <2>1, StillPending
  <2>3. Story'
    BY <2>2 DEF Inv, Story, Quiet, Perspective
  <2>4. Connects'
    BY <1>1, <1>3, <1>5, LoudConnects DEF Quiet
  <2> QED BY <2>3, <2>4
<1>6. CASE sess \in Final /\ Then(<<>>)
  <2>1. Stands' /\ (agenda' # <<>> => agenda'[1].op \notin HeadOnly)
    BY <1>2, <1>6, Then0
  <2>2. HeadDue'
    BY <2>1, HeadPlain DEF HeadOnly, SpecialHead, Stands
  <2>3. Lost'
    BY <1>6 DEF Lost, Quiet
  <2>4. <<>> \in Seq(Calls)
    OBVIOUS
  <2>5. Story' /\ Connects'
    BY <1>5, <1>6, <2>4
  <2> QED BY <2>1, <2>2, <2>3, <2>5 DEF Rules, Stack, Stands
<1>7. CASE sess \in Active /\ This.op # "conn_fatal" /\ Then(<<Do("session_closed")>>)
  <2> DEFINE a == Do("session_closed")
  <2>1. Fits(a) /\ a.op = "session_closed" /\ Then(<<a>>)
    <3>1. This.op \notin {"send_200", "conn_fatal"} /\ (closed => closed')
      BY <1>7 DEF Quiet
    <3> QED BY <1>7, <3>1, ConnFits
  <2> HIDE DEF a
  <2>2. Stands' /\ agenda' # <<>> /\ agenda'[1] = a
    BY <1>2, <2>1, Then1
  <2>3. HeadDue'
    BY <2>1, <2>2, HeadPlain DEF SpecialHead, Stands
  <2>4. Lost'
    <3>1. Head(agenda') = a
      BY <2>2 DEF Stands, AgendaTyped
    <3> QED BY <1>7, <2>1, <2>2, <3>1 DEF Lost, At, Quiet
  <2>5. <<a>> \in Seq(Calls)
    BY <2>1 DEF Fits
  <2>6. Story' /\ Connects'
    BY <1>5, <2>1, <2>5
  <2> QED BY <2>2, <2>3, <2>4, <2>6 DEF Rules, Stack, Stands
<1> QED BY <1>6, <1>7

LEMMA RulesConnFatal ==
    ASSUME Inv, ConnFatal, role' = role
    PROVE  Rules'
<1>1. agenda # <<>> /\ This.op = "conn_fatal"
  BY DEF ConnFatal, At, This
<1>2. UNCHANGED <<role, sess, everEst, told, drainRx, respOk, req>>
  BY DEF ConnFatal, sessVars
<1>3. /\ This = agenda[1] /\ Over(closed, This) /\ Rest(closed, sess, told, req)
      /\ AgendaTyped /\ Pairs(agenda, closed)
  BY <1>1, HeadFacts
<1>4. CASE closed /\ closed' = closed /\ Then(<<>>)
  <2>1. Quiet
    BY <1>2, <1>4 DEF Quiet
  <2>2. sess \in Final
    BY <1>1, <1>4 DEF Inv, Lost, At, This
  <2> QED BY <1>1, <1>2, <1>4, <2>1, <2>2, RulesLateReturn
<1>5. CASE ~closed /\ closed' = TRUE /\ Then(<<Do("session_conn_lost"), Do("on_conn_error")>>)
  <2> DEFINE a == Do("session_conn_lost")  b == Do("on_conn_error")
  <2>1. /\ a \in Calls /\ a.op = "session_conn_lost" /\ b \in Calls /\ b.op = "on_conn_error"
        /\ Then(<<a, b>>)
    BY <1>5, CallFacts DEF ConnOps
  <2> HIDE DEF a, b
  <2>2. Ground /\ Rest(closed', sess', told', req')
    BY <1>2, <1>3, <1>5 DEF Ground, Rest, Due
  <2>3. \A k \in 2..Len(agenda) : agenda[k].op # "on_conn_error"
    BY <1>3, <1>5 DEF Rest, Due
  <2>4. Over(closed', a) /\ Over(closed', b)
    BY <1>1, <1>3, <1>5, <2>1, <2>3 DEF Over, Apart, NoWalk, HeadOnly
  <2>5. Fits(a) /\ Fits(b)
    BY <1>2, <1>5, <2>1, <2>4 DEF Fits, Due, Inv, Story
  <2>6. Apart(closed', a, b)
    BY <2>1 DEF Apart, NoWalk, HeadOnly
  <2>7. Stands' /\ agenda' # <<>> /\ agenda'[1] = a
    BY <1>1, <2>1, <2>2, <2>5, <2>6, Then2
  <2>8. Head(agenda') = a
    BY <2>7 DEF Stands, AgendaTyped
  <2>9. At("session_conn_lost")'
    BY <2>1, <2>7, <2>8 DEF At
  <2>10. HeadDue'
    BY <1>5, <2>1, <2>8 DEF HeadDue, At
  <2>11. Lost'
    BY <2>9 DEF Lost
  <2>12. Story'
    <3>1. <<a, b>> \in Seq(Calls) /\ This # Do("on_session_closed")
      BY <1>1, <2>1, CallFacts
    <3>2. Pending(Do("on_session_closed")) => Pending(Do("on_session_closed"))'
      BY <1>1, <1>3, <2>1, <3>1, StillPending
    <3> QED BY <1>2, <1>5, <3>2 DEF Inv, Story, Perspective
  <2>13. Connects'
    <3>1. \A r \in Requests : req'[r].kind = "CONNECT" =>
             Perspective' = "client" /\ (respOk' => req'[r].headers)
      BY <1>2 DEF Inv, Connects, Perspective
    <3>2. \A r, q \in Requests : req'[r].kind = "CONNECT" /\ req'[q].kind = "CONNECT" => r = q
      BY <1>2 DEF Inv, Connects
    <3>3. \A r \in Requests : req'[r].kind \in {"BTYPE", "REQUEST"} => Perspective' = "server"
      BY <1>2 DEF Inv, Connects, Perspective
    <3>4. sess' \in {"IDLE", "PENDING"} => ~respOk'
      BY <1>2 DEF Inv, Connects
    <3> QED BY <1>5, <2>9, <3>1, <3>2, <3>3, <3>4 DEF Connects
  <2> QED BY <2>7, <2>10, <2>11, <2>12, <2>13 DEF Rules, Stack, Stands
<1> QED BY <1>4, <1>5 DEF ConnFatal

LEMMA RulesSessionConnLost ==
    ASSUME Inv, SessionConnLost, role' = role
    PROVE  Rules'
<1>1. agenda # <<>> /\ This.op = "session_conn_lost"
  BY DEF SessionConnLost, At, This
<1>2. UNCHANGED <<role, closed, everEst, drainRx, respOk, req>>
  BY DEF SessionConnLost
<1>3. closed
  BY <1>1 DEF Inv, Stack, HeadDue, At, This
<1>4. CASE sess \in Opening /\ SessionFailed(<<>>)
  <2>1. Calmer
    BY <1>2, SameCalm
  <2>2. Refused("failed") /\ Then(<<App>> \o <<>>)
    BY <1>2, <1>3, <1>4, RoleAssumption
       DEF Refused, SessionFailed
  <2> QED BY <1>1, <1>2, <1>3, <2>1, <2>2, RefusedThen
<1>5. CASE UNCHANGED <<sess, told>> /\ \/ sess \in Active /\ Then(<<Do("session_closed")>>)
                                       \/ sess \in Final /\ Then(<<>>)
  <2>1. Quiet
    BY <1>2, <1>5 DEF Quiet
  <2> QED BY <1>1, <1>2, <1>3, <1>5, <2>1, RulesLateReturn
<1>6. sess \in Opening \cup Active \cup Final
  BY DEF Inv, TypeOK
<1> QED BY <1>4, <1>5, <1>6 DEF SessionConnLost, LostStates

\* A callback is made, and the application runs.
LEMMA CalledBack ==
    ASSUME Inv, agenda # <<>>, This.op \notin {"send_200", "conn_fatal"}, role' = role,
           closed' = closed, Rest(closed', sess', told', req'),
           \/ Then(<<App>>)
           \/ Then(<<App, Do("session_draining")>>)
    PROVE  Stands' /\ HeadDue' /\ \E calls \in Seq(Calls) : Then(calls)
<1>1. Ground
  BY HeadFacts DEF Ground
<1> DEFINE b == Do("session_draining")
<1>2. Fits(App) /\ App.op = "app" /\ Fits(b) /\ b.op = "session_draining"
  BY AppFits, ConnFits
<1>3. Then(<<App>>) \/ Then(<<App, b>>)
  OBVIOUS
<1> HIDE DEF b
<1>4. Apart(closed', App, b)
  BY <1>2 DEF Apart, HeadOnly, NoWalk
<1>5. Stands' /\ agenda'[1] = App
  BY <1>1, <1>2, <1>3, <1>4, Then1, Then2
<1>6. HeadDue'
  BY <1>2, <1>5, HeadPlain DEF SpecialHead, Stands
<1>7. <<App>> \in Seq(Calls) /\ <<App, b>> \in Seq(Calls)
  BY <1>2 DEF Fits
<1> QED BY <1>3, <1>5, <1>6, <1>7

LEMMA RulesOnConnError ==
    ASSUME Inv, OnConnError, role' = role
    PROVE  Rules'
<1>1. agenda # <<>> /\ This.op = "on_conn_error" /\ Tell("conn_error") /\ Then(<<App>>)
  BY DEF OnConnError, At, This
<1>2. UNCHANGED <<role, closed, sess, everEst, drainRx, respOk, req>>
  BY DEF OnConnError, sessVars
<1>3. /\ This = agenda[1] /\ Over(closed, This) /\ Rest(closed, sess, told, req)
      /\ Due(This, closed, sess, told, req) /\ AgendaTyped /\ Pairs(agenda, closed)
  BY <1>1, HeadFacts
<1>4. closed /\ ~Heard(told, "conn_error")
  BY <1>1, <1>3 DEF Due
<1>5. sess \in Final
  BY <1>1, <1>4 DEF Inv, Lost, At, This
<1>6. told \in Seq(Callbacks) /\ "conn_error" \in Callbacks
  BY DEF Inv, TypeOK, Callbacks
<1>7. \A x : Heard(told', x) <=> Heard(told, x) \/ x = "conn_error"
  BY <1>1, <1>6, HeardMore
<1>8. Rest(closed', sess', told', req')
  BY <1>1, <1>2, <1>3, <1>7 DEF Rest, Over, Apart, Due
<1>9. Stands' /\ HeadDue' /\ \E calls \in Seq(Calls) : Then(calls)
  BY <1>1, <1>2, <1>8, CalledBack
<1>10. Once(told')
  BY <1>1, <1>4, <1>6, OnceMore DEF Inv, Story, Once, Ends
<1>11. Pending(Do("on_session_closed")) => Pending(Do("on_session_closed"))'
  BY <1>1, <1>3, <1>9, StillPending, CallFacts
<1>12. Story'
  <2>1. Once(told)'
    BY <1>10 DEF Once
  <2> QED BY <1>2, <1>4, <1>7, <1>11, <2>1 DEF Inv, Story, Once, Perspective
<1>13. Lost'
  BY <1>2, <1>5 DEF Lost
<1>14. Connects'
  <2>1. Calmer
    BY <1>2, SameCalm
  <2> QED BY <1>1, <1>2, <1>4, <1>5, <1>9, <2>1, LoudConnects DEF Final
<1> QED BY <1>9, <1>12, <1>13, <1>14 DEF Rules, Stack, Stands

LEMMA RulesOnSessionClosed ==
    ASSUME Inv, OnSessionClosed, role' = role
    PROVE  Rules'
<1>1. agenda # <<>> /\ This.op = "on_session_closed" /\ Tell("closed") /\ Then(<<App>>)
  BY DEF OnSessionClosed, At, This
<1>2. UNCHANGED <<role, closed, sess, everEst, drainRx, respOk, req>>
  BY DEF OnSessionClosed, sessVars
<1>3. /\ This = agenda[1] /\ Over(closed, This) /\ Rest(closed, sess, told, req)
      /\ Due(This, closed, sess, told, req) /\ AgendaTyped /\ Pairs(agenda, closed)
  BY <1>1, HeadFacts
<1>4. sess = "CLOSED" /\ ~Heard(told, "closed")
  BY <1>1, <1>3 DEF Due
<1>5. \A x \in Ends : ~Heard(told, x)
  BY <1>4 DEF Inv, Story, Ends
<1>6. told \in Seq(Callbacks) /\ "closed" \in Callbacks
  BY DEF Inv, TypeOK, Callbacks
<1>7. \A x : Heard(told', x) <=> Heard(told, x) \/ x = "closed"
  BY <1>1, <1>6, HeardMore
<1>8. Rest(closed', sess', told', req')
  BY <1>1, <1>2, <1>3, <1>7 DEF Rest, Over, Apart, Due
<1>9. Stands' /\ HeadDue' /\ \E calls \in Seq(Calls) : Then(calls)
  BY <1>1, <1>2, <1>8, CalledBack
<1>10. Once(told')
  BY <1>1, <1>4, <1>5, <1>6, OnceMore DEF Inv, Story, Once
<1>12. Story'
  <2>1. Once(told)'
    BY <1>10 DEF Once
  <2> QED BY <1>2, <1>4, <1>7, <2>1 DEF Inv, Story, Once, Perspective
<1>13. Lost'
  BY <1>2, <1>4 DEF Lost, Final
<1>14. Connects'
  <2>1. Calmer
    BY <1>2, SameCalm
  <2> QED BY <1>1, <1>2, <1>4, <1>9, <2>1, LoudConnects
<1> QED BY <1>9, <1>12, <1>13, <1>14 DEF Rules, Stack, Stands

LEMMA RulesSessionDraining ==
    ASSUME Inv, SessionDraining, role' = role
    PROVE  Rules'
<1>1. agenda # <<>> /\ This.op = "session_draining"
  BY DEF SessionDraining, At, This
<1>2. UNCHANGED <<role, closed, everEst, respOk, req>>
  BY DEF SessionDraining, connVars
<1>3. Calmer
  BY <1>2, SameCalm
<1>4. CASE UNCHANGED <<sess, drainRx, told>> /\ Then(<<>>)
  BY <1>1, <1>2, <1>3, <1>4, PlainHead, QuietThen0 DEF Quiet
<1>5. CASE /\ ~closed /\ ~drainRx /\ sess \in Active
           /\ drainRx' = TRUE /\ sess' = "DRAINING" /\ Tell("draining") /\ Then(<<App>>)
  <2>1. Rest(closed, sess, told, req)
    BY <1>1, HeadFacts
  <2>2. told \in Seq(Callbacks) /\ "draining" \in Callbacks
    BY DEF Inv, TypeOK, Callbacks
  <2>3. \A x : Heard(told', x) <=> Heard(told, x) \/ x = "draining"
    BY <1>5, <2>2, HeardMore
  <2>4. Rest(closed', sess', told', req')
    BY <1>2, <1>5, <2>1, <2>3 DEF Rest, Due, Active
  <2>5. Stands' /\ HeadDue' /\ \E calls \in Seq(Calls) : Then(calls)
    BY <1>1, <1>2, <1>5, <2>4, CalledBack
  <2>6. Once(told')
    BY <1>5, <2>2, OnceMore DEF Inv, Story, Once, Ends
  <2>7. Story'
    <3>1. Once(told)'
      BY <2>6 DEF Once
    <3>2. sess \in {"ESTABLISHED", "DRAINING"} /\ sess' \in Active
      BY <1>5 DEF Active
    <3> QED BY <1>2, <1>5, <2>3, <3>1, <3>2 DEF Inv, Story, Once, Perspective
  <2>8. Lost'
    BY <1>2, <1>5 DEF Lost
  <2>9. Connects'
    BY <1>1, <1>2, <1>3, <1>5, <2>5, LoudConnects DEF Active
  <2> QED BY <2>5, <2>7, <2>8, <2>9 DEF Rules, Stack, Stands
<1> QED BY <1>4, <1>5 DEF SessionDraining, DrainIgnored

LEMMA RulesSessionEstablished ==
    ASSUME Inv, SessionEstablished, role' = role
    PROVE  Rules'
<1>1. /\ agenda # <<>> /\ This.op = "session_established" /\ Tell("established")
      /\ sess' = "ESTABLISHED" /\ everEst' = TRUE /\ Set(This.r, "isSession", TRUE)
  BY DEF SessionEstablished, At, This
<1>2. UNCHANGED <<role, closed, respOk, drainRx>>
  BY DEF SessionEstablished, connVars
<1>3. /\ This = agenda[1] /\ This.r \in Requests /\ Over(closed, This)
      /\ Rest(closed, sess, told, req) /\ AgendaTyped /\ Pairs(agenda, closed)
  BY <1>1, HeadFacts, CallFacts DEF StreamOps
<1>4. /\ ~closed
      /\ Perspective = "client" => sess = "SENT" /\ respOk
      /\ Perspective = "server" => sess = "IDLE"
  BY <1>1 DEF Inv, Stack, HeadDue, At, This
<1>5. Perspective \in {"client", "server"} /\ sess \in Opening
  BY <1>4, RoleAssumption DEF Inv, TypeOK, Perspective, Opening
<1>6. Calmer
  BY <1>1, <1>3, SetCalm
<1>7. told \in Seq(Callbacks) /\ "established" \in Callbacks
  BY DEF Inv, TypeOK, Callbacks
<1>8. \A x : Heard(told', x) <=> Heard(told, x) \/ x = "established"
  BY <1>1, <1>7, HeardMore
<1>9. Rest(closed', sess', told', req')
  <2>1. ASSUME NEW k \in 2..Len(agenda) PROVE Due(agenda[k], closed', sess', told', req')
    <3>1. Due(agenda[k], closed, sess, told, req) /\ Apart(closed, This, agenda[k])
      BY <1>3 DEF Rest, Over
    <3>2. /\ agenda[k].op # "on_session_closed" /\ agenda[k].op # "on_conn_error"
          /\ agenda[k].op # "establish_unless_closed"
      BY <1>1, <1>4, <1>5, <3>1 DEF Due, Apart, Opening
    <3>3. agenda[k].op = "request_stream_bytes" => agenda[k].r \in Requests
      <4>1. agenda[k] \in Calls
        BY <1>3 DEF AgendaTyped
      <4> QED BY <4>1, CallFacts DEF StreamOps
    <3> QED BY <1>6, <3>1, <3>2, <3>3 DEF Due, Calmer
  <2> QED BY <2>1 DEF Rest
<1>10. Then(<<App>>) \/ Then(<<App, Do("session_draining")>>)
  <2> DEFINE d == Do("session_draining")
             q == IF goaway # NoId THEN <<d>> ELSE <<>>
  <2>1. App \in Calls /\ d \in Calls /\ Then(<<App>> \o q)
    BY CallFacts DEF ConnOps, SessionEstablished
  <2>2. q = <<d>> \/ q = <<>>
    OBVIOUS
  <2> HIDE DEF d, q
  <2>3. <<App>> \o q = <<App, d>> \/ <<App>> \o q = <<App>>
    BY <2>1, <2>2, Joined
  <2>4. Then(<<App>>) \/ Then(<<App, d>>)
    BY <2>1, <2>3
  <2> QED BY <2>4 DEF d
<1>11. Stands' /\ HeadDue' /\ \E calls \in Seq(Calls) : Then(calls)
  BY <1>1, <1>2, <1>9, <1>10, CalledBack
<1>12. ~everEst /\ \A x \in Ends : ~Heard(told, x)
  BY <1>5 DEF Inv, Story, Opening, Active, Ends
<1>13. Once(told')
  BY <1>1, <1>7, <1>12, OnceMore DEF Inv, Story, Once, Ends
<1>14. Story'
  <2>1. Once(told)'
    BY <1>13 DEF Once
  <2>2. /\ Heard(told', "established") /\ ~Heard(told', "failed")
        /\ ~Heard(told', "rejected") /\ ~Heard(told', "closed")
    BY <1>8, <1>12 DEF Ends
  <2>3. (Heard(told', "draining") => drainRx') /\ (Heard(told', "conn_error") => closed')
    BY <1>2, <1>8 DEF Inv, Story
  <2> QED BY <1>1, <2>1, <2>2, <2>3 DEF Story, Once, Active
<1>15. Lost'
  BY <1>2, <1>4 DEF Lost
<1>16. \A r \in Requests : ~Waiting(r)'
  BY <1>4, <1>6 DEF Inv, Connects, Calmer, Waiting
<1>17. Connects'
  BY <1>1, <1>2, <1>6, <1>11, <1>16, LoudConnects
<1> QED BY <1>11, <1>14, <1>15, <1>17 DEF Rules, Stack, Stands

LEMMA RulesSessionClosed ==
    ASSUME Inv, SessionClosed, role' = role
    PROVE  Rules'
<1>1. agenda # <<>> /\ This.op = "session_closed"
  BY DEF SessionClosed, At, This
<1>2. UNCHANGED <<role, closed, everEst, respOk, drainRx, told, req>>
  BY DEF SessionClosed, connVars
<1>3. Calmer
  BY <1>2, SameCalm
<1>4. CASE sess \notin Active /\ Then(<<>>) /\ UNCHANGED sess
  <2>1. QuietHead
    BY <1>1, <1>4, CallFacts DEF QuietHead
  <2> QED BY <1>2, <1>3, <1>4, <2>1, QuietThen0 DEF Quiet
<1>5. CASE /\ sess \in Active /\ sess' = "CLOSED"
           /\ \/ Then(<<Do("on_session_closed")>>)
              \/ ~closed /\ Then(<<Do("conn_fatal"), Do("on_session_closed")>>)
  <2> DEFINE a == Do("conn_fatal")  b == Do("on_session_closed")
  <2>1. /\ This = agenda[1] /\ Over(closed, This) /\ Rest(closed, sess, told, req)
        /\ AgendaTyped /\ Pairs(agenda, closed)
    BY <1>1, HeadFacts
  <2>2. /\ Fits(a) /\ a.op = "conn_fatal" /\ b \in Calls /\ b.op = "on_session_closed"
        /\ Then(<<b>>) \/ Then(<<a, b>>)
    BY <1>1, <1>2, <1>5, FatalFits, CallFacts DEF ConnOps
  <2>3. b = Do("on_session_closed")
    OBVIOUS
  <2> HIDE DEF a, b
  <2>4. sess \in {"ESTABLISHED", "DRAINING"} /\ ~Heard(told, "closed")
    BY <1>5 DEF Active, Inv, Story
  <2>5. \A k \in 2..Len(agenda) : agenda[k].op # "on_session_closed"
    BY <2>1, <2>4 DEF Rest, Due
  <2>6. Ground /\ Rest(closed', sess', told', req')
    BY <1>2, <2>1, <2>4, <2>5 DEF Ground, Rest, Due
  <2>7. Over(closed', b)
    BY <1>1, <1>2, <2>1, <2>2, <2>5 DEF Over, Apart, NoWalk
  <2>8. Fits(b)
    BY <1>2, <1>5, <2>2, <2>4, <2>7 DEF Fits, Due
  <2>9. Apart(closed', a, b)
    BY <2>2 DEF Apart, HeadOnly, NoWalk
  <2>10. ASSUME Then(<<b>>)
         PROVE  Stands' /\ HeadDue' /\ Pending(b)' /\ <<b>> \in Seq(Calls)
    <3>1. Stands' /\ agenda' # <<>> /\ agenda'[1] = b
      BY <1>1, <2>6, <2>8, <2>10, Then1
    <3>2. Pending(b)'
      <4>1. 1 \in 1..Len(agenda')
        BY <3>1 DEF Stands, AgendaTyped
      <4>2. \E i \in 1..Len(agenda') : agenda'[i] = Do("on_session_closed")
        BY <2>3, <3>1, <4>1
      <4> QED BY <2>3, <4>2 DEF Pending
    <3>3. HeadDue'
      BY <2>2, <3>1, HeadPlain DEF SpecialHead, Stands
    <3>4. <<b>> \in Seq(Calls)
      BY <2>2
    <3> QED BY <3>1, <3>2, <3>3, <3>4
  <2>11. ASSUME Then(<<a, b>>)
         PROVE  Stands' /\ HeadDue' /\ Pending(b)' /\ <<a, b>> \in Seq(Calls)
    <3>1. Stands' /\ agenda' # <<>> /\ agenda'[1] = a /\ Len(agenda') >= 2 /\ agenda'[2] = b
      BY <1>1, <2>2, <2>6, <2>8, <2>9, <2>11, Then2
    <3>2. Pending(b)'
      <4>1. 2 \in 1..Len(agenda')
        BY <3>1 DEF Stands, AgendaTyped
      <4>2. \E i \in 1..Len(agenda') : agenda'[i] = Do("on_session_closed")
        BY <2>3, <3>1, <4>1
      <4> QED BY <2>3, <4>2 DEF Pending
    <3>3. HeadDue'
      BY <2>2, <3>1, HeadPlain DEF SpecialHead, Stands
    <3>4. <<a, b>> \in Seq(Calls)
      BY <2>2 DEF Fits
    <3> QED BY <3>1, <3>2, <3>3, <3>4
  <2>12. Stands' /\ HeadDue' /\ Pending(b)' /\ \E calls \in Seq(Calls) : Then(calls)
    BY <2>2, <2>10, <2>11
  <2>13. Story'
    <3>1. Pending(Do("on_session_closed"))'
      BY <2>3, <2>12
    <3> QED BY <1>2, <1>5, <2>4, <3>1 DEF Inv, Story, Perspective, Active
  <2>14. Lost'
    BY <1>5 DEF Lost, Final
  <2>15. Connects'
    BY <1>1, <1>2, <1>3, <1>5, <2>4, <2>12, LoudConnects
  <2> QED BY <2>12, <2>13, <2>14, <2>15 DEF Rules, Stack, Stands
<1> QED BY <1>4, <1>5 DEF SessionClosed

LEMMA RulesOnStreamReset ==
    ASSUME Inv, role' = role, NEW r \in Requests, OnStreamReset(r)
    PROVE  Rules'
<1>1. Idle /\ AppMay /\ ~closed /\ UNCHANGED <<role, closed, everEst, drainRx, respOk>>
  BY DEF OnStreamReset, AppMay
<1>2. CASE UNCHANGED <<sess, told>> /\ Release(r) /\ Enter(<<Do("session_closed")>>)
  BY <1>1, <1>2, ReleaseCalm, QuietEnterFatal DEF Quiet
<1>3. CASE UNCHANGED <<sess, told, agenda>> /\ Release(r)
  BY <1>1, <1>3, RulesQuietRelease DEF Quiet
<1>4. CASE /\ req[r].kind = "CONNECT" /\ sess = "SENT" /\ ~everEst
           /\ sess' = "FAILED" /\ Tell("failed") /\ UNCHANGED req
           /\ Enter(<<App, On("reset_release", r)>>)
  <2>1. Perspective = "client"
    BY <1>4 DEF Inv, Connects
  <2>2. Refused("failed")
    BY <1>1, <1>4, <2>1 DEF Refused, Opening
  <2>3. Calmer
    BY <1>4, SameCalm
  <2> DEFINE b == On("reset_release", r)
  <2>4. /\ App \in Calls /\ App.op = "app" /\ b \in Calls /\ b.op = "reset_release"
        /\ Enter(<<App, b>>)
    BY <1>4, CallFacts DEF StreamOps
  <2> HIDE DEF b
  <2>5. FitsOn(App) /\ FitsOn(b)
    BY <1>1, <2>4, InputFits DEF Due
  <2>6. Apart(closed', App, b)
    BY <2>4 DEF Apart, HeadOnly, NoWalk
  <2>7. Ground /\ Whole(closed', sess', told', req')
    BY <1>1, MayFacts DEF Ground, Whole, Idle
  <2>8. Stands' /\ agenda' # <<>> /\ agenda'[1] = App /\ Len(agenda') >= 2 /\ agenda'[2] = b
    BY <2>4, <2>5, <2>6, <2>7, Enter2
  <2>9. HeadDue'
    BY <2>4, <2>8, HeadPlain DEF SpecialHead, Stands
  <2>10. Pending(b)'
    <3>1. 2 \in 1..Len(agenda')
      BY <2>8 DEF Stands, AgendaTyped
    <3>2. \E i \in 1..Len(agenda') : agenda'[i] = On("reset_release", r)
      BY <2>8, <3>1 DEF b
    <3> QED BY <3>2 DEF Pending, b
  <2>11. \A q \in Requests : Waiting(q)' => Pending(On("reset_release", q))'
    <3>1. \A q \in Requests : Waiting(q)' => q = r
      BY <1>4, <2>3 DEF Inv, Connects, Calmer, Waiting
    <3> QED BY <2>10, <3>1 DEF b
  <2>12. Lost' /\ Story' /\ Connects'
    BY <2>2, <2>3, <2>11, RefusedStory
  <2> QED BY <2>8, <2>9, <2>12 DEF Rules, Stack, Stands
<1> QED BY <1>2, <1>3, <1>4 DEF OnStreamReset, SessionReset

LEMMA RulesOnConnClosed ==
    ASSUME Inv, role' = role, OnConnClosed
    PROVE  Rules'
<1>1. /\ Idle /\ AppMay /\ ~closed /\ closed' = TRUE
      /\ UNCHANGED <<role, sess, everEst, drainRx, respOk, told, req>>
  BY DEF OnConnClosed, AppMay, sessVars
<1> DEFINE a == Do("session_conn_lost")  b == Do("on_conn_error")
<1>2. /\ a \in Calls /\ a.op = "session_conn_lost" /\ b \in Calls /\ b.op = "on_conn_error"
      /\ Enter(<<a, b>>)
  BY CallFacts DEF ConnOps, OnConnClosed
<1> HIDE DEF a, b
<1>3. ~Heard(told, "conn_error") /\ (sess = "CLOSED" => Heard(told, "closed"))
  BY <1>1 DEF Inv, Story, Pending, Idle
<1>4. FitsOn(a) /\ FitsOn(b)
  BY <1>1, <1>2, <1>3, InputFits DEF Due
<1>5. Apart(closed', a, b)
  BY <1>2 DEF Apart, HeadOnly, NoWalk
<1>6. Ground /\ Whole(closed', sess', told', req')
  BY <1>1, MayFacts DEF Ground, Whole, Idle
<1>7. Stands' /\ agenda' # <<>> /\ agenda'[1] = a
  BY <1>2, <1>4, <1>5, <1>6, Enter2
<1>8. Head(agenda') = a
  BY <1>7 DEF Stands, AgendaTyped
<1>9. At("session_conn_lost")' /\ HeadDue'
  BY <1>1, <1>2, <1>7, <1>8 DEF At, HeadDue
<1>10. Lost'
  BY <1>9 DEF Lost
<1>11. Story'
  BY <1>1, <1>3 DEF Inv, Story, Perspective
<1>12. Connects'
  <2>1. \A r \in Requests : req'[r].kind = "CONNECT" =>
           Perspective' = "client" /\ (respOk' => req'[r].headers)
    BY <1>1 DEF Inv, Connects, Perspective
  <2>2. \A r, q \in Requests : req'[r].kind = "CONNECT" /\ req'[q].kind = "CONNECT" => r = q
    BY <1>1 DEF Inv, Connects
  <2>3. \A r \in Requests : req'[r].kind \in {"BTYPE", "REQUEST"} => Perspective' = "server"
    BY <1>1 DEF Inv, Connects, Perspective
  <2>4. sess' \in {"IDLE", "PENDING"} => ~respOk'
    BY <1>1 DEF Inv, Connects
  <2> QED BY <1>1, <1>9, <2>1, <2>2, <2>3, <2>4 DEF Connects
<1> QED BY <1>7, <1>9, <1>10, <1>11, <1>12 DEF Rules, Stack, Stands

\* The client's CONNECT: from IDLE to PENDING, or refused at once.
LEMMA RulesClientConnect ==
    ASSUME Inv, ClientConnect, role' = role
    PROVE  Rules'
<1>1. /\ AppMay /\ Perspective = "client" /\ ~closed /\ sess = "IDLE" /\ respOk' = FALSE
      /\ UNCHANGED <<role, closed, everEst, drainRx, req>>
  BY DEF ClientConnect
<1>2. /\ \A op : op # "app" => ~At(op)
      /\ AgendaTyped /\ Pairs(agenda, closed) /\ Whole(closed, sess, told, req)
  BY <1>1, MayFacts
<1>3. Calmer /\ \A q \in Requests : req'[q].kind # "CONNECT"
  BY <1>1, <1>2, SameCalm, NoneYet
<1>4. \A k \in 1..Len(agenda) :
        /\ agenda[k].op # "on_session_closed" /\ agenda[k].op # "on_conn_error"
        /\ agenda[k].op # "establish_unless_closed"
  BY <1>1, <1>2 DEF Whole, Due, Perspective
<1>5. Ground /\ Whole(closed', sess', told', req')
  <2>1. ASSUME NEW k \in 1..Len(agenda) PROVE Due(agenda[k], closed', sess', told', req')
    BY <1>1, <1>2, <1>4 DEF Whole, Due
  <2> QED BY <1>1, <1>2, <2>1 DEF Ground, Whole
<1>6. ASSUME sess' = "PENDING", told' = told
      PROVE  Lost' /\ Story' /\ Connects'
  <2>1. Lost'
    BY <1>1 DEF Lost
  <2>2. Story'
    BY <1>1, <1>6 DEF Inv, Story, Perspective, Active
  <2>3. Connects'
    BY <1>1, <1>3 DEF Inv, Connects, Waiting, Perspective
  <2> QED BY <2>1, <2>2, <2>3
<1>7. CASE sess' = "PENDING" /\ UNCHANGED <<agenda, told>>
  <2> DEFINE calls == <<>>
  <2>1. calls \in Seq(Calls) /\ Enter(calls) /\ Len(calls) = 0
    BY <1>2, <1>7 DEF Enter, AgendaTyped
  <2> HIDE DEF calls
  <2>2. /\ \A i \in 1..Len(calls) : FitsOn(calls[i])
        /\ \A i, j \in 1..Len(calls) : i < j => Apart(closed', calls[i], calls[j])
    BY <2>1
  <2>3. Stands'
    BY <1>5, <2>1, <2>2, EnterSeq
  <2>4. HeadDue'
    <3>1. agenda' # <<>> => Head(agenda').op = "app"
      BY <1>1, <1>7 DEF AppMay, Idle, At
    <3> QED BY <3>1 DEF HeadDue, At
  <2> QED BY <1>6, <1>7, <2>3, <2>4 DEF Rules, Stack, Stands
<1>8. CASE sess' = "FAILED" /\ Tell("failed") /\ Enter(<<App>>)
  <2>1. Refused("failed")
    BY <1>1, <1>8 DEF Refused, Opening
  <2>2. \A q \in Requests : ~Waiting(q)'
    BY <1>3 DEF Waiting
  <2>3. Lost' /\ Story' /\ Connects'
    BY <1>3, <2>1, <2>2, RefusedStory
  <2>4. App \in Calls /\ App.op = "app"
    BY CallFacts
  <2>5. FitsOn(App)
    BY <1>1, <2>4, FitsAbove DEF Due
  <2>6. Stands' /\ agenda' # <<>> /\ agenda'[1] = App
    BY <1>5, <1>8, <2>5, Enter1
  <2>7. HeadDue'
    BY <2>4, <2>6, HeadPlain DEF SpecialHead, Stands
  <2> QED BY <2>3, <2>6, <2>7 DEF Rules, Stack, Stands
<1>9. CASE sess' = "PENDING" /\ told' = told /\ Enter(<<Do("client_send_connect")>>)
  <2> DEFINE a == Do("client_send_connect")
  <2>1. a \in Calls /\ a.op = "client_send_connect" /\ Enter(<<a>>)
    BY <1>9, CallFacts DEF ConnOps
  <2> HIDE DEF a
  <2>2. FitsOn(a)
    BY <1>1, <2>1, FitsAbove DEF Due
  <2>3. Stands' /\ agenda' # <<>> /\ agenda'[1] = a
    BY <1>5, <2>1, <2>2, Enter1
  <2>4. HeadDue'
    <3>1. Head(agenda') = a
      BY <2>3 DEF Stands, AgendaTyped
    <3> QED BY <1>1, <1>9, <2>1, <3>1 DEF HeadDue, At, Perspective
  <2> QED BY <1>6, <1>9, <2>3, <2>4 DEF Rules, Stack, Stands
<1> QED BY <1>7, <1>8, <1>9 DEF ClientConnect

LEMMA RulesClientSendConnect ==
    ASSUME Inv, ClientSendConnect, role' = role
    PROVE  Rules'
<1>1. agenda # <<>> /\ This.op = "client_send_connect"
  BY DEF ClientSendConnect, At, This
<1>2. UNCHANGED <<role, closed, everEst, drainRx, respOk>>
  BY DEF ClientSendConnect
<1>3. /\ Rest(closed, sess, told, req) /\ AgendaTyped /\ Pairs(agenda, closed)
      /\ \A op : At(op) <=> This.op = op
  BY <1>1, HeadFacts
<1>4. Perspective = "client" /\ sess = "PENDING"
  BY <1>1 DEF Inv, Stack, HeadDue, At, This
<1>5. ~closed
  BY <1>1, <1>3, <1>4 DEF Inv, Lost, Final
<1>6. \A q \in Requests : req[q].kind # "CONNECT"
  BY <1>1, <1>3, <1>4, NoneYet
<1>7. QuietHead
  BY <1>1, PlainHead
<1>8. CASE SessionFailed(<<>>) /\ UNCHANGED req
  <2>1. Refused("failed") /\ Then(<<App>> \o <<>>)
    BY <1>2, <1>4, <1>8 DEF Refused, SessionFailed, Opening
  <2>2. Calmer /\ \A q \in Requests : ~Waiting(q)'
    BY <1>6, <1>8, SameCalm DEF Waiting
  <2> QED BY <1>1, <2>1, <2>2, RefusedThen
<1>9. ASSUME NEW r \in role.requests, req[r].kind = "UNOPENED", UNCHANGED <<told, sess>>,
             Then(<<Do("conn_fatal")>>), Set(r, "kind", "FREE")
      PROVE  Rules'
  <2>1. r \in Requests
    BY RoleRequests DEF Inv, TypeOK
  <2>2. /\ \A q \in Requests : q # r => req'[q] = req[q]
        /\ req'[r].kind = "FREE"
    BY <1>9, <2>1 DEF Set, Inv, TypeOK, Streams
  <2>3. Calmer /\ Quiet
    BY <1>2, <1>9, <2>2 DEF Calmer, Quiet
  <2> QED BY <1>7, <1>9, <2>3, QuietFatal
<1>10. ASSUME NEW r \in role.requests, NEW pending \in BOOLEAN, req[r].kind = "UNOPENED",
              UNCHANGED told,
              req' = [req EXCEPT ![r].kind = "CONNECT", ![r].idPending = pending],
              \/ Then(<<Do("conn_fatal")>>) /\ UNCHANGED sess
              \/ Then(<<>>) /\ sess' = "SENT"
       PROVE  Rules'
  <2>1. r \in Requests
    BY RoleRequests DEF Inv, TypeOK
  <2>2. \A q \in Requests : q # r => req'[q] = req[q]
    BY <1>10, <2>1 DEF Inv, TypeOK
  <2>3. req'[r].kind = "CONNECT"
    BY <1>10, <2>1 DEF Inv, TypeOK, Streams
  <2>4. \A q \in Requests : req'[q].kind = "CONNECT" => q = r
    BY <1>6, <2>2
  <2>5. Rest(closed', sess', told', req')
    <3>1. ASSUME NEW k \in 2..Len(agenda) PROVE Due(agenda[k], closed', sess', told', req')
      <4>1. Due(agenda[k], closed, sess, told, req)
        BY <1>3 DEF Rest
      <4>2. agenda[k].op = "request_stream_bytes" => agenda[k].r \in Requests
        <5>1. agenda[k] \in Calls
          BY <1>3 DEF AgendaTyped
        <5> QED BY <5>1, CallFacts DEF StreamOps
      <4> QED BY <1>2, <1>4, <1>5, <1>10, <2>2, <2>3, <4>1, <4>2 DEF Due, Perspective
    <3> QED BY <3>1 DEF Rest
  <2>6. Ground
    BY <1>2, <1>3 DEF Ground
  <2>7. Lost'
    BY <1>2, <1>5 DEF Lost
  <2>8. Story'
    BY <1>2, <1>4, <1>10 DEF Inv, Story, Perspective, Active
  <2>9. ASSUME sess' = "SENT" \/ At("conn_fatal")'
        PROVE  Connects'
    <3>1. \A q \in Requests : req'[q].kind = "CONNECT" =>
             Perspective' = "client" /\ (respOk' => req'[q].headers)
      BY <1>2, <1>4 DEF Inv, Connects, Perspective
    <3>2. \A q \in Requests : req'[q].kind \in {"BTYPE", "REQUEST"} => Perspective' = "server"
      BY <1>2, <2>2, <2>3 DEF Inv, Connects, Perspective
    <3>3. ~respOk'
      BY <1>2, <1>4 DEF Inv, Connects
    <3>4. sess' \in {"IDLE", "PENDING"} => At("conn_fatal")'
      BY <2>9
    <3> QED BY <2>4, <2>9, <3>1, <3>2, <3>3, <3>4 DEF Connects
  <2>10. CASE Then(<<Do("conn_fatal")>>) /\ UNCHANGED sess
    <3> DEFINE a == Do("conn_fatal")
    <3>1. Fits(a) /\ a.op = "conn_fatal" /\ Then(<<a>>)
      BY <1>1, <1>2, <2>10, FatalFits
    <3> HIDE DEF a
    <3>2. Stands' /\ agenda' # <<>> /\ agenda'[1] = a
      BY <1>1, <2>5, <2>6, <3>1, Then1
    <3>3. HeadDue'
      BY <3>1, <3>2, HeadPlain DEF SpecialHead, Stands
    <3>4. At("conn_fatal")'
      <4>1. Head(agenda') = a
        BY <3>2 DEF Stands, AgendaTyped
      <4> QED BY <3>1, <3>2, <4>1 DEF At
    <3> QED BY <2>7, <2>8, <2>9, <3>2, <3>3, <3>4 DEF Rules, Stack, Stands
  <2>11. CASE Then(<<>>) /\ sess' = "SENT"
    <3>1. Stands' /\ (agenda' # <<>> => agenda'[1].op \notin HeadOnly)
      BY <1>1, <2>5, <2>6, <2>11, Then0
    <3>2. HeadDue'
      BY <3>1, HeadPlain DEF HeadOnly, SpecialHead, Stands
    <3> QED BY <2>7, <2>8, <2>9, <2>11, <3>1, <3>2 DEF Rules, Stack, Stands
  <2> QED BY <1>10, <2>10, <2>11
<1> QED BY <1>8, <1>9, <1>10 DEF ClientSendConnect

-----------------------------------------------------------------------------
(* The invariant, and what follows from it.                                *)

\* Nothing has happened yet.
LEMMA Initially ==
    Init => Inv
<1> SUFFICES ASSUME Init PROVE Inv
  OBVIOUS
<1>1. AgendaTyped /\ Len(agenda) = 0 /\ Len(told) = 0
  BY DEF Init, AgendaTyped
<1>2. TypeOK
  <2>1. ConnTyped /\ SessTyped
    BY DEF Init, ConnTyped, SessTyped, Opening
  <2>2. ParkedTyped /\ HistoryTyped
    BY DEF Init, ParkedTyped, HistoryTyped, NotParked
  <2>3. ReqTyped
    BY DEF Init, ReqTyped, NewStream, Streams, OpenFrames
  <2> QED BY <1>1, <2>1, <2>2, <2>3, TypeParts
<1>3. Stack
  BY <1>1 DEF Init, Stack, Pairs, Each, HeadDue, At
<1>4. Lost
  BY DEF Init, Lost
<1>5. Story
  BY <1>1 DEF Init, Story, Heard, Active
<1>6. Connects
  BY DEF Init, Connects, Waiting, NewStream
<1> QED BY <1>2, <1>3, <1>4, <1>5, <1>6 DEF Inv

\* Every step keeps the rules of the stack and of the story.
LEMMA RulesKept ==
    ASSUME Inv, Next
    PROVE  Rules'
<1>1. role' = role
  BY DEF Next
<1>2. CASE EngineStep
  BY <1>1, <1>2, RulesAppReturns, RulesConnFatal, RulesSessionConnLost, RulesOnConnError,
     RulesShutdownRaw, RulesSessionClosed, RulesOnSessionClosed, RulesSessionDraining,
     RulesSessionEstablished, RulesClientSendConnect, RulesClientMaybeEstablish,
     RulesShutdownUnlessClosed, RulesClientResponseDone, RulesMarkDead,
     RulesServerSendResponse, RulesServerRequestDone, RulesEstablishUnlessClosed,
     RulesRequestStreamFailed, RulesReleases, RulesSessionCapsule, RulesRequestStreamBytes,
     RulesParkedRequestCancel, RulesRequestStreamFin, RulesStreamBytesEnd,
     RulesControlBytes, RulesSettingsLatched, RulesDeferredFin DEF EngineStep
<1>3. CASE BackendInput
  <2>1. role.requests \subseteq Requests
    BY RoleRequests DEF Inv, TypeOK
  <2> QED BY <1>1, <1>3, <2>1, RulesPlainInputs, RulesOnPeerBidiOpened, RulesOnStreamBytes,
          RulesOnStreamFin, RulesOnStreamReset, RulesOnStopSending, RulesOnStreamTerminal,
          RulesOnStreamNativeId, RulesOnConnClosed DEF BackendInput
<1>4. CASE AppOperation
  BY <1>1, <1>4, RulesSessionOperations, RulesClientConnect DEF AppOperation
<1> QED BY <1>2, <1>3, <1>4 DEF Next

\* Inv is inductive.
THEOREM Inductive ==
    Spec => []Inv
<1>1. Inv /\ [Next]_vars => Inv'
  <2>1. ASSUME Inv, Next PROVE Inv'
    <3>1. Rules'
      BY <2>1, RulesKept
    <3>2. AgendaTyped'
      BY <3>1 DEF Rules, Stack
    <3>3. /\ ConnTyped /\ SessTyped /\ ParkedTyped /\ ReqTyped /\ HistoryTyped /\ AgendaTyped
      BY <2>1, TypeParts DEF Inv
    <3>4. ConnTyped' /\ SessTyped' /\ ParkedTyped' /\ ReqTyped' /\ HistoryTyped'
      BY <2>1, <3>3, ConnKeeps, SessKeeps, ParkedKeeps, ReqKeeps, HistoryKeeps
    <3>5. TypeOK'
      BY <3>2, <3>4, TypeParts, PTL
    <3> QED BY <3>1, <3>5 DEF Inv, Rules
  <2>2. ASSUME Inv, UNCHANGED vars PROVE Inv'
    <3> USE <2>2 DEF vars, connVars, sessVars
    <3>1. TypeOK'
      BY DEF Inv, TypeOK
    <3>2. Stack'
      BY DEF Inv, Stack, AgendaTyped, Pairs, Each, Due, HeadDue, At, This, Perspective
    <3>3. Lost'
      BY DEF Inv, Lost, At
    <3>4. Story'
      BY DEF Inv, Story, Pending, Perspective
    <3>5. Connects'
      BY DEF Inv, Connects, Waiting, Pending, At, Perspective
    <3> QED BY <3>1, <3>2, <3>3, <3>4, <3>5 DEF Inv
  <2> QED BY <2>1, <2>2
<1> QED BY Initially, <1>1, PTL DEF Spec

\* TypeOK: every continuation that names a stream names a real one, so no
\* function of conn.c runs on a NULL estream.
THEOREM TypeCorrect ==
    Spec => []TypeOK
  BY Inductive, PTL DEF Inv

-----------------------------------------------------------------------------
(* The error record.                                                       *)

Announced == {"failed", "rejected", "closed", "conn_error"}
Fixed == (\E cb \in Announced : Heard(told, cb)) => err # "unset"

\* The error record is latched once, before each callback that shows it.
LEMMA ErrorSteps ==
    ASSUME Next
    PROVE  /\ err # "unset" => err' = err
           /\ \/ told' = told /\ (err' = err \/ err' # "unset")
              \/ Tell("established") \/ Tell("draining")
              \/ err' # "unset"
<1>1. \/ UNCHANGED <<told, err>>
      \/ (Tell("established") \/ Tell("draining")) /\ UNCHANGED err
      \/ \E origin \in {"sealed", "engine", "backend", "terminal_input"} : Latch(origin)
  <2>1. CASE EngineStep
    <3>1. CASE AppReturns \/ ShutdownRaw \/ SessionClosed \/ ShutdownUnlessClosed \/ MarkDead
                \/ ServerSendResponse \/ ServerRequestDone \/ EstablishUnlessClosed
                \/ RequestStreamFailed \/ SessionStreamPoisoned \/ SessionCapsule
                \/ RequestStreamBytes \/ ParkedRequestCancel \/ FinRelease
                \/ StreamBytesEnd \/ ResetRelease \/ DeferredFin
      BY <3>1 DEF AppReturns, ShutdownRaw, SessionClosed, ShutdownUnlessClosed, MarkDead,
         ServerSendResponse, ServerRequestDone, EstablishUnlessClosed, RequestStreamFailed,
         SessionStreamPoisoned, SessionCapsule, RequestStreamBytes, ParkedRequestCancel,
         FinRelease, StreamBytesEnd, ResetRelease, DeferredFin, connVars
    <3>2. CASE SessionDraining \/ SessionEstablished
      BY <3>2 DEF SessionDraining, SessionEstablished, connVars
    <3>3. CASE ConnFatal \/ SessionConnLost \/ OnConnError \/ OnSessionClosed
      BY <3>3 DEF ConnFatal, SessionConnLost, OnConnError, OnSessionClosed, SessionFailed
    <3>4. CASE ClientSendConnect \/ ClientMaybeEstablish \/ ClientResponseDone
      BY <3>4 DEF ClientSendConnect, ClientMaybeEstablish, ClientResponseDone, SessionFailed
    <3>5. CASE RequestStreamFin \/ ControlBytes \/ SettingsLatched
      BY <3>5 DEF RequestStreamFin, ControlBytes, SettingsLatched, SessionFailed
    <3> QED BY <2>1, <3>1, <3>2, <3>3, <3>4, <3>5 DEF EngineStep
  <2>2. CASE BackendInput
    BY <2>2 DEF BackendInput, OpenDeferredLocals, OnPeerBidiOpened, OnStreamBytes,
       OnStreamFin, OnStreamReset, OnStopSending, OnStreamTerminal, OnStreamNativeId,
       OnPeerControlOpened, OnCriticalViolation, OnControlBytes, OnConnClosed,
       SetTransportError, connVars
  <2>3. CASE AppOperation
    BY <2>3 DEF AppOperation, Start, ClientConnect, SessionClose, SessionDrain, WtStreams,
       connVars
  <2> QED BY <2>1, <2>2, <2>3 DEF Next
<1> QED BY <1>1 DEF Latch

LEMMA FixedKept ==
    ASSUME Inv, Fixed, Next
    PROVE  Fixed'
<1>1. CASE err # "unset" \/ err' # "unset"
  BY <1>1, ErrorSteps DEF Fixed
<1>2. CASE err = "unset" /\ err' = "unset"
  <2>1. told' = told \/ Tell("established") \/ Tell("draining")
    BY <1>2, ErrorSteps
  <2>2. told \in Seq(Callbacks) /\ "established" \in Callbacks /\ "draining" \in Callbacks
    BY DEF Inv, TypeOK, Callbacks
  <2>3. \A cb \in Announced : Heard(told', cb) => Heard(told, cb)
    BY <2>1, <2>2, HeardMore DEF Announced
  <2> QED BY <1>2, <2>3 DEF Fixed
<1> QED BY <1>1, <1>2

LEMMA AlwaysFixed ==
    Spec => []Fixed
<1>1. Init => Fixed
  BY DEF Init, Fixed, Heard
<1>2. Inv /\ Fixed /\ [Next]_vars => Fixed'
  <2>1. ASSUME Fixed, UNCHANGED vars PROVE Fixed'
    BY <2>1 DEF Fixed, vars, connVars
  <2> QED BY <2>1, FixedKept
<1> QED BY <1>1, <1>2, Inductive, PTL DEF Spec

\* How often a callback was made: not at all, or once.
LEMMA HowOften ==
    ASSUME told \in Seq(Callbacks), Once(told), NEW cb
    PROVE  /\ Heard(told, cb) => Times(cb) = 1
           /\ ~Heard(told, cb) => Times(cb) = 0
<1> DEFINE S == {i \in DOMAIN told : told[i] = cb}
<1>1. DOMAIN told = 1..Len(told)
  OBVIOUS
<1>2. ASSUME Heard(told, cb) PROVE Cardinality(S) = 1
  <2>1. PICK i \in 1..Len(told) : told[i] = cb
    BY <1>2 DEF Heard
  <2>2. ASSUME NEW j \in S PROVE j = i
    <3>1. j \in 1..Len(told) /\ told[j] = cb
      BY <1>1, <2>2
    <3>2. ~(i < j) /\ ~(j < i)
      BY <2>1, <3>1 DEF Once
    <3> QED BY <2>1, <3>1, <3>2
  <2>3. S = {i}
    BY <1>1, <2>1, <2>2
  <2> QED BY <2>3, FS_Singleton
<1>3. ASSUME ~Heard(told, cb) PROVE Cardinality(S) = 0
  <2>1. S = {}
    BY <1>1, <1>3 DEF Heard
  <2> QED BY <2>1, FS_EmptySet
<1> QED BY <1>2, <1>3 DEF Times

\* ErrorFixed: what the application saw of the error record when it heard of
\* an outcome is what every later reader sees, whichever later cause wants to
\* record its own.
THEOREM ErrorStays ==
    Spec => ErrorFixed
<1>1. Inv /\ Fixed /\ [Next]_vars =>
        [Outcomes + Times("conn_error") > 0 => err' = err]_vars
  <2> SUFFICES ASSUME Inv, Fixed, Next, Outcomes + Times("conn_error") > 0
               PROVE  err' = err
    OBVIOUS
  <2>1. told \in Seq(Callbacks) /\ Once(told)
    BY DEF Inv, TypeOK, Story, Once
  <2>2. CASE \E cb \in Announced : Heard(told, cb)
    BY <2>2, ErrorSteps DEF Fixed
  <2>3. CASE \A cb \in Announced : ~Heard(told, cb)
    <3>1. /\ Times("failed") = 0 /\ Times("rejected") = 0 /\ Times("closed") = 0
          /\ Times("conn_error") = 0
      BY <2>1, <2>3, HowOften DEF Announced
    <3>2. FALSE
      BY <3>1 DEF Outcomes
    <3> QED BY <3>2
  <2> QED BY <2>2, <2>3
<1> QED BY <1>1, Inductive, AlwaysFixed, PTL DEF ErrorFixed, Spec

-----------------------------------------------------------------------------
(* One outcome.                                                            *)

\* OneOutcome: exactly one end of the story, whatever order GOAWAY, response,
\* reset, close and transport loss take, and at rest none is missing.
THEOREM OneStory ==
    Spec => []OneOutcome
<1>1. Inv => OneOutcome
  <2> SUFFICES ASSUME Inv PROVE OneOutcome
    OBVIOUS
  <2>1. told \in Seq(Callbacks) /\ Once(told)
    BY DEF Inv, TypeOK, Story, Once
  <2>2. \A cb : IF Heard(told, cb) THEN Times(cb) = 1 ELSE Times(cb) = 0
    BY <2>1, HowOften
  <2> DEFINE f == Heard(told, "failed")  j == Heard(told, "rejected")
             c == Heard(told, "closed")  e == Heard(told, "established")
  <2>3. \A x, y \in Ends : Heard(told, x) /\ Heard(told, y) => x = y
    <3>1. ASSUME NEW x \in Ends, NEW y \in Ends, Heard(told, x), Heard(told, y)
          PROVE  x = y
      <4>1. PICK m \in 1..Len(told) : told[m] = x
        BY <3>1 DEF Heard
      <4>2. PICK n \in 1..Len(told) : told[n] = y
        BY <3>1 DEF Heard
      <4>3. ~(m < n) /\ ~(n < m)
        BY <2>1, <3>1, <4>1, <4>2 DEF Once
      <4> QED BY <4>1, <4>2, <4>3
    <3> QED BY <3>1
  <2>4. ~(f /\ j) /\ ~(f /\ c) /\ ~(j /\ c)
    BY <2>3 DEF Ends
  <2>5. (c => e) /\ ~(f /\ e) /\ ~(j /\ e)
    BY DEF Inv, Story, Active
  <2>6. Idle => (f \/ j \/ c <=> sess \in Final)
    BY DEF Inv, Story, Pending, Idle, Final
  <2>7. /\ Times("failed") = IF f THEN 1 ELSE 0
        /\ Times("rejected") = IF j THEN 1 ELSE 0
        /\ Times("closed") = IF c THEN 1 ELSE 0
        /\ Times("established") = IF e THEN 1 ELSE 0
    BY <2>2
  <2> HIDE DEF f, j, c, e
  <2> QED BY <2>4, <2>5, <2>6, <2>7 DEF OneOutcome, Outcomes
<1> QED BY <1>1, Inductive, PTL

-----------------------------------------------------------------------------
(* The promise of SessionContract.                                         *)

Phase == CASE sess \in Opening -> "opening"
           [] sess \in Active -> "open"
           [] OTHER -> "ended"

\* What a step of the engine is to its user: nothing, an end of the attempt,
\* the session, its draining, its end, the callback of the end, the loss of
\* the connection, or the callback of the loss.
Hidden == UNCHANGED <<closed, told, Phase>>
Refuses(cb) == sess \in Opening /\ sess' \in Final /\ Tell(cb) /\ closed' = closed
Establishes ==
    /\ At("session_established") /\ sess' \in Active
    /\ Tell("established") /\ closed' = closed
Drains ==
    /\ ~DrainIgnored /\ sess' \in Active
    /\ Tell("draining") /\ closed' = closed
EndsIt == sess \in Active /\ sess' \in Final /\ UNCHANGED <<closed, told>>
TellsClosed ==
    /\ At("on_session_closed") /\ Tell("closed") /\ UNCHANGED <<closed, sess>>
LosesIt == ~closed /\ closed' = TRUE /\ UNCHANGED <<told, sess>>
TellsConnError ==
    /\ At("on_conn_error") /\ Tell("conn_error") /\ UNCHANGED <<closed, sess>>
Visible ==
    \/ Refuses("failed") \/ Refuses("rejected") \/ Establishes \/ Drains
    \/ EndsIt \/ TellsClosed \/ LosesIt \/ TellsConnError

\* Every step of the engine is one of these.
LEMMA Moves ==
    ASSUME Inv, Next
    PROVE  Hidden \/ Visible
<1>1. ASSUME UNCHANGED <<closed, told, sess>> PROVE Hidden
  BY <1>1 DEF Hidden, Phase
<1>2. ASSUME sess \in Opening, sess' \in Opening, UNCHANGED <<closed, told>> PROVE Hidden
  BY <1>2 DEF Hidden, Phase, Opening, Active
<1>3. /\ {"IDLE", "PENDING", "SENT"} \subseteq Opening
      /\ {"CLOSED", "REJECTED", "FAILED"} \subseteq Final
      /\ {"ESTABLISHED", "DRAINING"} \subseteq Active
  BY DEF Opening, Final, Active
<1>4. HeadDue
  BY DEF Inv, Stack
<1>5. ASSUME NEW rest, sess \in Opening, SessionFailed(rest), closed' = closed
      PROVE  Refuses("failed")
  BY <1>3, <1>5 DEF SessionFailed, Refuses
<1>6. CASE SessionConnLost
  BY <1>1, <1>5, <1>6 DEF SessionConnLost, LostStates, Visible
<1>7. CASE ConnFatal
  BY <1>1, <1>7 DEF ConnFatal, sessVars, LosesIt, Visible
<1>8. CASE OnConnError \/ OnSessionClosed
  BY <1>8 DEF OnConnError, OnSessionClosed, sessVars, TellsConnError, TellsClosed, Visible
<1>9. CASE SessionClosed
  BY <1>1, <1>3, <1>9 DEF SessionClosed, connVars, EndsIt, Visible
<1>10. CASE SessionDraining
  BY <1>1, <1>3, <1>10 DEF SessionDraining, connVars, Drains, Visible
<1>11. CASE SessionEstablished
  BY <1>3, <1>11 DEF SessionEstablished, connVars, Establishes, Visible
<1>12. CASE ClientSendConnect
  <2>1. sess = "PENDING"
    BY <1>4, <1>12 DEF ClientSendConnect, HeadDue
  <2>2. /\ closed' = closed
        /\ \/ SessionFailed(<<>>)
           \/ UNCHANGED <<told, sess>>
           \/ UNCHANGED told /\ sess' = "SENT"
    BY <1>12 DEF ClientSendConnect
  <2> QED BY <1>1, <1>2, <1>3, <1>5, <2>1, <2>2 DEF Visible
<1>13. CASE ClientMaybeEstablish
  <2>1. /\ closed' = closed
        /\ \/ UNCHANGED <<told, sess>>
           \/ sess = "SENT" /\ SessionFailed(<<On("shutdown_unless_closed", This.r)>>)
    BY <1>13 DEF ClientMaybeEstablish
  <2> QED BY <1>1, <1>3, <1>5, <2>1 DEF Visible
<1>14. CASE ClientResponseDone
  <2>1. sess = "SENT"
    BY <1>4, <1>14 DEF ClientResponseDone, HeadDue
  <2>2. /\ closed' = closed
        /\ \/ SessionFailed(<<>>) \/ SessionFailed(<<Do("conn_fatal")>>)
           \/ UNCHANGED <<told, sess>>
           \/ sess' = "REJECTED" /\ Tell("rejected")
    BY <1>14 DEF ClientResponseDone
  <2> QED BY <1>1, <1>3, <1>5, <2>1, <2>2 DEF Visible, Refuses
<1>15. CASE RequestStreamFin
  <2>1. /\ closed' = closed
        /\ \/ UNCHANGED <<told, sess>>
           \/ sess = "SENT" /\ \E rest : SessionFailed(rest)
    BY <1>15 DEF RequestStreamFin
  <2> QED BY <1>1, <1>3, <1>5, <2>1 DEF Visible
<1>16. CASE ControlBytes
  <2>1. /\ closed' = closed
        /\ \/ UNCHANGED <<told, sess>>
           \/ sess = "SENT" /\ \E rest : SessionFailed(rest)
    BY <1>16 DEF ControlBytes
  <2> QED BY <1>1, <1>3, <1>5, <2>1 DEF Visible
<1>17. CASE SettingsLatched
  <2>1. /\ closed' = closed
        /\ \/ UNCHANGED <<told, sess>>
           \/ sess = "PENDING" /\ SessionFailed(<<>>)
    BY <1>17 DEF SettingsLatched
  <2> QED BY <1>1, <1>3, <1>5, <2>1 DEF Visible
<1>18. CASE \E r \in role.requests : OnStreamReset(r)
  <2>1. /\ closed' = closed
        /\ \/ UNCHANGED <<told, sess>>
           \/ sess = "SENT" /\ sess' = "FAILED" /\ Tell("failed")
    BY <1>18 DEF OnStreamReset
  <2> QED BY <1>1, <1>3, <2>1 DEF Visible, Refuses
<1>19. CASE OnConnClosed
  BY <1>19 DEF OnConnClosed, sessVars, LosesIt, Visible
<1>20. CASE ClientConnect
  <2>1. /\ closed' = closed /\ sess = "IDLE"
        /\ \/ UNCHANGED told /\ sess' = "PENDING"
           \/ sess' = "FAILED" /\ Tell("failed")
    BY <1>20 DEF ClientConnect
  <2> QED BY <1>2, <1>3, <2>1 DEF Visible, Refuses
<1>21. \/ UNCHANGED <<closed, told, sess>>
       \/ SessionConnLost \/ ConnFatal \/ OnConnError \/ OnSessionClosed
       \/ SessionClosed \/ SessionDraining \/ SessionEstablished
       \/ ClientSendConnect \/ ClientMaybeEstablish \/ ClientResponseDone
       \/ RequestStreamFin \/ ControlBytes \/ SettingsLatched
       \/ \E r \in role.requests : OnStreamReset(r)
       \/ OnConnClosed \/ ClientConnect
  <2> USE DEF connVars, sessVars
  <2>1. CASE EngineStep
    BY <2>1 DEF EngineStep, AppReturns, ShutdownRaw, ShutdownUnlessClosed, MarkDead,
       ServerSendResponse, ServerRequestDone, EstablishUnlessClosed,
       RequestStreamFailed, SessionStreamPoisoned, SessionCapsule,
       RequestStreamBytes, ParkedRequestCancel, FinRelease, StreamBytesEnd,
       ResetRelease, DeferredFin
  <2>2. CASE BackendInput
    BY <2>2 DEF BackendInput, OpenDeferredLocals, OnPeerBidiOpened, OnStreamBytes,
       OnStreamFin, OnStopSending, OnStreamTerminal, OnStreamNativeId,
       OnPeerControlOpened, OnCriticalViolation, OnControlBytes, SetTransportError
  <2>3. CASE AppOperation
    BY <2>3 DEF AppOperation, Start, SessionClose, SessionDrain, WtStreams
  <2> QED BY <2>1, <2>2, <2>3 DEF Next
<1> QED BY <1>1, <1>6, <1>7, <1>8, <1>9, <1>10, <1>11, <1>12, <1>13, <1>14, <1>15, <1>16,
       <1>17, <1>18, <1>19, <1>20, <1>21

\* The history of SessionContract is the history here.
LEMMA SameHistory ==
    ASSUME told \in Seq(Callbacks), NEW cb
    PROVE  Contract!Told(cb) <=> Heard(told, cb)
<1>1. DOMAIN told = 1..Len(told)
  OBVIOUS
<1> QED BY <1>1 DEF Heard, Contract!Told

\* ImplementsContract without its fairness: the engine opens a session at
\* most once, ends it once and for good, and its callbacks tell the user so
\* in order.
THEOREM KeepsContract ==
    Spec => Contract!Init /\ [][Contract!Next]_(Contract!vars)
<1> USE DEF Tell, Contract!Say
<1>1. Init => Contract!Init
  BY DEF Init, Contract!Init, Opening, Active
<1>2. ASSUME Inv, Next PROVE [Contract!Next]_(Contract!vars)
  <2>1. told \in Seq(Callbacks) /\ sess \in Opening \cup Active \cup Final
    BY <1>2 DEF Inv, TypeOK
  <2>2. \A x \in Active : x \notin Opening
    BY DEF Opening, Active
  <2>3. \A x \in Final : x \notin Opening /\ x \notin Active
    BY DEF Opening, Active, Final
  <2>4. ASSUME NEW a \in ConnOps, At(a), agenda \in Seq(Calls)
        PROVE  1 \in 1..Len(agenda) /\ agenda[1].op = a
    BY <2>4 DEF At
  <2>5. CASE Hidden
    BY <2>5 DEF Hidden, Phase, Contract!vars
  <2>6. ASSUME NEW cb \in {"failed", "rejected"}, Refuses(cb) PROVE Contract!Next
    BY <2>2, <2>3, <2>6 DEF Refuses, Contract!Next, Contract!Refuse
  <2>7. CASE Establishes
    <3>1. ~closed /\ sess \in Opening
      <4>1. Perspective \in {"client", "server"}
        BY <1>2, RoleAssumption DEF Inv, TypeOK, Perspective
      <4> QED BY <1>2, <2>7, <4>1 DEF Establishes, Inv, Stack, HeadDue, Opening
    <3> QED BY <2>2, <2>7, <3>1 DEF Establishes, Contract!Next, Contract!Establish
  <2>8. CASE Drains
    <3>1. ~closed /\ ~drainRx /\ sess \in Active
      BY <2>8 DEF Drains, DrainIgnored
    <3>2. ~Contract!Told("draining")
      BY <1>2, <2>1, <3>1, SameHistory DEF Inv, Story
    <3> QED BY <2>2, <2>8, <3>1, <3>2 DEF Drains, Contract!Next, Contract!Drain
  <2>9. CASE EndsIt
    BY <2>2, <2>3, <2>9 DEF EndsIt, Contract!Next, Contract!End
  <2>10. CASE TellsClosed
    <3>1. 1 \in 1..Len(agenda) /\ agenda[1].op = "on_session_closed"
      BY <1>2, <2>4, <2>10 DEF TellsClosed, ConnOps, Inv, TypeOK
    <3>2. sess = "CLOSED" /\ ~Heard(told, "closed")
      BY <1>2, <3>1 DEF Inv, Stack, Each, Due
    <3>3. Heard(told, "established")
      BY <1>2, <3>2 DEF Inv, Story
    <3>4. Contract!Told("established") /\ ~Contract!Told("closed")
      BY <2>1, <3>2, <3>3, SameHistory
    <3>5. sess \notin Opening /\ sess \notin Active
      BY <3>2 DEF Opening, Active
    <3> QED BY <2>10, <3>4, <3>5 DEF TellsClosed, Contract!Next, Contract!SayClosed
  <2>11. CASE LosesIt
    BY <2>11 DEF LosesIt, Contract!Next, Contract!GoDown
  <2>12. CASE TellsConnError
    <3>1. 1 \in 1..Len(agenda) /\ agenda[1].op = "on_conn_error"
      BY <1>2, <2>4, <2>12 DEF TellsConnError, ConnOps, Inv, TypeOK
    <3>2. closed /\ ~Heard(told, "conn_error")
      BY <1>2, <3>1 DEF Inv, Stack, Each, Due
    <3>3. ~Contract!Told("conn_error")
      BY <2>1, <3>2, SameHistory
    <3> QED BY <2>12, <3>2, <3>3 DEF TellsConnError, Contract!Next, Contract!SayConnError
  <2> QED BY <1>2, <2>5, <2>6, <2>7, <2>8, <2>9, <2>10, <2>11, <2>12, Moves DEF Visible
<1>3. ASSUME UNCHANGED vars PROVE UNCHANGED Contract!vars
  BY <1>3 DEF vars, connVars, sessVars, Contract!vars
<1> QED BY <1>1, <1>2, <1>3, Inductive, PTL DEF Spec

=============================================================================
