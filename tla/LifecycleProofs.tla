-------------------------- MODULE LifecycleProofs --------------------------
(***************************************************************************)
(* Theorems about the life cycle of the connections of WebServer, for any  *)
(* number of clients and any interleaving of the handlers: what is left of *)
(* a session after disconnect(), the accept loop, the reads, and that the  *)
(* server implements ConnectionService.                                    *)
(***************************************************************************)
EXTENDS WebServerProofs

LivesInv == \A s \in SessionId : Life(session[s])

(* Sessions are registered under the ids given out so far, and the socket  *)
(* of an accepted session stays open until its handler runs.               *)
OrderInv ==
  /\ sessions \subseteq 1..lastId
  /\ \A s \in SessionId : s > lastId => session[s].expiry = "none"
  /\ acceptOp = "ok" => session[accepting].sock = "open"

(* AcceptLoopArmed for a server that was stopped as well: its last accept  *)
(* is still pending, and after a restart it is the one that waits.         *)
LoopInv ==
  acceptor = "listening" /\ Lost = {} /\ "server_not_started" \notin reported =>
    accepting # 0

(* In the Debug build an I/O thread that has ended is never replaced, so   *)
(* the handlers an exception cut short are the last ones.                  *)
ArmedInv ==
  AssertsEnabled /\ InitFlags = {FALSE} =>
    /\ caller = "idle"
    /\ ioThread # "exited" => \A s \in SessionId : Armed(session[s])

LifeInv ==
  /\ LivesInv
  /\ OrderInv
  /\ LoopInv
  /\ ArmedInv

-----------------------------------------------------------------------------
USE InitFlagsAssumption, ServerAssumption

(* The sessions satisfy what the lemmas about one session ask for.         *)
LEMMA EachSession ==
  ASSUME IInv, LivesInv, NEW s \in SessionId
  PROVE  SessionInv(session[s]) /\ session[s] \in SessionState /\ Life(session[s])
BY DEF IInv, SessionsInv, SessionInv, LivesInv

(* A session that nobody connected yet has no handler, and the one that    *)
(* waits for a client is such a session.                                   *)
LEMMA NotYetConnected ==
  ASSUME IInv, LivesInv, accepting # 0
  PROVE  /\ accepting \in SessionId /\ accepting \in sessions /\ accepting = lastId
         /\ session[accepting].expiry = "none" /\ ~session[accepting].connected
BY DEF IInv, TypeOK, CountInv, AcceptingInv, RegistryExact

(* The handler of a read that has data, run on a session somebody holds,   *)
(* finds it connected: once the expiry has disconnected a session no one   *)
(* holds it on any more.                                                   *)
LEMMA DataMeansConnected ==
  ASSUME IInv, LivesInv, NEW s \in SessionId, session[s].read = "data", Alive(s)
  PROVE  session[s].connected
<1> SUFFICES ASSUME ~session[s].connected PROVE FALSE
  OBVIOUS
<1>1. session[s].expiry = "ran" /\ session[s].write = "none"
  BY EachSession DEF Life, Orderly
<1>2. s \notin sessions
  BY <1>1 DEF IInv, RegistryExact
<1>3. accepting # s
  <2>1. s # 0
    BY DEF SessionId
  <2> QED
    BY <1>2, <2>1 DEF IInv, AcceptingInv
<1> QED
  BY <1>1, <1>2, <1>3 DEF Alive, Held

(* A session that nobody holds was disconnected.                           *)
LEMMA UnheldMeansDisconnected ==
  ASSUME IInv, NEW s \in SessionId, ~Alive(s)
  PROVE  ~session[s].connected
BY DEF IInv, RegistryExact, Alive, Held

-----------------------------------------------------------------------------
(* What a step on session s may do to it: take it through its life without *)
(* connecting it, answer it at most once and only while it is connected,   *)
(* and leave it armed unless an exception ends the thread.                 *)
StepOn(s, tt) ==
  /\ session' = [session EXCEPT ![s] = tt]
  /\ sessions' = Registered(s, tt)
  /\ Life(tt)
  /\ tt.connected => session[s].connected
  /\ tt.expiry = "none" <=> session[s].expiry = "none"
  /\ session[s].expiry = "none" => tt.sock = session[s].sock
  /\ AnsweredOnce(session[s], tt)
  /\ tt.answers # session[s].answers => session[s].connected
  /\ ioThread' # "exited" => ioThread # "exited" /\ (Armed(session[s]) => Armed(tt))

(* Whatever the kernel, a client or a handler does to a session is such a  *)
(* step.                                                                   *)
LEMMA SessionStep ==
  ASSUME IInv, LivesInv, NEW s \in SessionId,
         ReadCompletes(s) \/ SessionHandler(s) \/ Client(s)
  PROVE  /\ \E tt : StepOn(s, tt)
         /\ UNCHANGED <<acceptVars, reported, caller, started>>
<1> DEFINE ss == session[s]
<1>1. SessionInv(ss) /\ ss \in SessionState /\ Life(ss)
  BY EachSession
<1>2. UNCHANGED <<acceptVars, reported, caller, started>>
  BY DEF ReadCompletes, SessionHandler, ReceiveHandler, ReceiveThrows, DanglingReceive,
         SendHandler, ExpirySession, HandlerOf, Client, ClientSends, ClientLeaves, lifeVars
<1>3. ASSUME NEW tt, session' = [session EXCEPT ![s] = tt], sessions' = sessions,
             ioThread' = ioThread,
             \/ tt = [ss EXCEPT !.unread = TRUE]
             \/ tt = [ss EXCEPT !.peer = "gone"]
             \/ ss.read = "pending" /\ tt = [ss EXCEPT !.read = "failed"]
             \/ ss.read = "pending" /\ tt = [ss EXCEPT !.read = "data", !.unread = FALSE]
             \/ ss.read # "none" /\ ~ss.connected /\ tt = [ss EXCEPT !.read = "none"]
      PROVE  StepOn(s, tt)
  <2>1. Life(tt) /\ tt.answers = ss.answers /\ (Armed(ss) => Armed(tt))
    BY <1>1, <1>3, OutsideLife
  <2>2. tt.connected = ss.connected /\ tt.expiry = ss.expiry /\ tt.sock = ss.sock
    BY <1>1, <1>3 DEF SessionState
  <2>3. sessions' = Registered(s, tt)
    BY <1>3, <2>2 DEF Registered
  <2> QED
    BY <1>3, <2>1, <2>2, <2>3 DEF StepOn, AnsweredOnce
<1>4. CASE ReadCompletes(s)
  <2>1. \/ session' = [session EXCEPT ![s] = [ss EXCEPT !.read = "data", !.unread = FALSE]]
        \/ session' = [session EXCEPT ![s] = [ss EXCEPT !.read = "failed"]]
    BY <1>4 DEF ReadCompletes, IInv, TypeOK
  <2>2. ss.read = "pending" /\ sessions' = sessions /\ ioThread' = ioThread
    BY <1>4 DEF ReadCompletes, lifeVars
  <2> QED
    BY <1>2, <1>3, <2>1, <2>2
<1>5. CASE ReceiveHandler(s)
  <2>1. PICK verdict \in Verdicts, n \in 1..MaxResponse, k \in 0..MaxResponse,
             closes \in BOOLEAN : HandlerOf(s, ReadHandler(ss, verdict, n, k, closes))
    BY <1>5 DEF ReceiveHandler
  <2> DEFINE tt == ReadHandler(ss, verdict, n, k, closes)
  <2>2. n \in Nat /\ k \in Nat
    OBVIOUS
  <2>3. ss.read \in {"data", "failed"} /\ (ss.read = "data" => ss.connected)
    BY <1>5, DataMeansConnected DEF ReceiveHandler
  <2>4. /\ Life(tt) /\ Armed(tt) /\ AnsweredOnce(ss, tt)
        /\ tt.answers # ss.answers => ss.connected
    BY <1>1, <2>2, <2>3, ReadHandlerLife
  <2>5. (tt.connected => ss.connected) /\ tt.expiry = ss.expiry
    BY <1>1, <2>2, ReadHandlerKeeps DEF Keeps
  <2>6. ss.expiry # "none"
    BY <1>1, <2>3 DEF Life, Fresh
  <2>7. ioThread' # "exited" => ioThread # "exited"
    BY <1>5 DEF ReceiveHandler, IoRuns
  <2> HIDE DEF tt
  <2>8. StepOn(s, tt)
    BY <2>1, <2>4, <2>5, <2>6, <2>7 DEF StepOn, HandlerOf, tt
  <2> QED
    BY <1>2, <2>8
<1>6. CASE ReceiveThrows(s)
  <2>1. PICK parsed \in BOOLEAN : session' = [session EXCEPT ![s] = ReadThrows(ss, parsed)]
    BY <1>6 DEF ReceiveThrows, IInv, TypeOK
  <2> DEFINE tt == ReadThrows(ss, parsed)
  <2>2. ss.connected /\ ss.expiry # "none"
    BY <1>1, <1>6, DataMeansConnected DEF ReceiveThrows, Life, Fresh
  <2>3. Life(tt) /\ AnsweredOnce(ss, tt)
    BY <1>1, <1>6, <2>2, ReadThrowsLife DEF ReceiveThrows
  <2>4. tt.connected = ss.connected /\ tt.expiry = ss.expiry
    BY <1>1, ReadThrowsKeeps DEF Keeps
  <2>5. sessions' = sessions /\ ioThread' = "exited"
    BY <1>6 DEF ReceiveThrows
  <2> HIDE DEF tt
  <2>6. StepOn(s, tt)
    BY <2>1, <2>2, <2>3, <2>4, <2>5 DEF StepOn, Registered, tt
  <2> QED
    BY <1>2, <2>6
<1>7. CASE DanglingReceive(s)
  <2>1. /\ session' = [session EXCEPT ![s] = [ss EXCEPT !.read = "none"]]
        /\ ss.read # "none" /\ sessions' = sessions /\ ioThread' = ioThread
    BY <1>7 DEF DanglingReceive, lifeVars, IInv, TypeOK
  <2>2. ~ss.connected
    BY <1>7, UnheldMeansDisconnected DEF DanglingReceive
  <2> QED
    BY <1>2, <1>3, <2>1, <2>2
<1>8. CASE SendHandler(s)
  <2>1. PICK k \in 0..MaxResponse : HandlerOf(s, WriteHandler(ss, k))
    BY <1>8 DEF SendHandler
  <2> DEFINE tt == WriteHandler(ss, k)
  <2>2. k \in Nat /\ ss.write \in {"done", "failed"} /\ (ioThread' = ioThread)
    BY <1>8, <2>1 DEF SendHandler, HandlerOf, lifeVars
  <2>3. Life(tt) /\ tt.answers = ss.answers /\ (Armed(ss) => Armed(tt))
    BY <1>1, <2>2, WriteHandlerLife
  <2>4. (tt.connected => ss.connected) /\ tt.expiry = ss.expiry
    BY <1>1, <2>2, WriteHandlerKeeps DEF Keeps
  <2>5. ss.expiry # "none"
    BY <1>1, <2>2 DEF Life, Fresh
  <2> HIDE DEF tt
  <2>6. StepOn(s, tt)
    BY <2>1, <2>2, <2>3, <2>4, <2>5 DEF StepOn, HandlerOf, AnsweredOnce, tt
  <2> QED
    BY <1>2, <2>6
<1>9. CASE ExpirySession(s)
  <2>1. PICK closes \in BOOLEAN : HandlerOf(s, ExpireHandler(ss, closes))
    BY <1>9 DEF ExpirySession
  <2> DEFINE tt == ExpireHandler(ss, closes)
  <2>2. ss.expiry = "aborted" /\ (ioThread' = ioThread)
    BY <1>9, <2>1 DEF ExpirySession, HandlerOf, lifeVars
  <2>3. Life(tt) /\ tt.answers = ss.answers /\ (Armed(ss) => Armed(tt))
    BY <1>1, <2>2, ExpireHandlerLife
  <2>4. tt.connected => ss.connected
    BY <1>1, ExpireHandlerKeeps
  <2>5. tt.expiry = "ran"
    <3>1. Disconnect(ss, closes) \in SessionState
      BY <1>1, DisconnectKeeps DEF Keeps, SessionInv
    <3> QED
      BY <3>1 DEF ExpireHandler, SessionState
  <2> HIDE DEF tt
  <2>6. StepOn(s, tt)
    BY <2>1, <2>2, <2>3, <2>4, <2>5 DEF StepOn, HandlerOf, AnsweredOnce, tt
  <2> QED
    BY <1>2, <2>6
<1>10. CASE Client(s)
  <2>1. \/ session' = [session EXCEPT ![s] = [ss EXCEPT !.unread = TRUE]]
        \/ session' = [session EXCEPT ![s] = [ss EXCEPT !.peer = "gone"]]
    BY <1>10 DEF Client, ClientSends, ClientLeaves, IInv, TypeOK
  <2>2. sessions' = sessions /\ ioThread' = ioThread
    BY <1>10 DEF Client, ClientSends, ClientLeaves, lifeVars
  <2> QED
    BY <1>2, <1>3, <2>1, <2>2
<1> QED
  BY <1>4, <1>5, <1>6, <1>7, <1>8, <1>9, <1>10 DEF SessionHandler

-----------------------------------------------------------------------------
(* The strengthening holds in the initial state.                           *)
LEMMA InitLife == Init => LifeInv
<1> SUFFICES ASSUME Init PROVE LifeInv
  OBVIOUS
<1> DEFINE new == NewSession(FALSE, FALSE)
<1>1. Life(new) /\ Armed(new)
  BY NewSessionLife
<1>2. new.expiry = "none"
  BY NewSessionInv
<1> HIDE DEF new
<1>3. \A s \in SessionId : session[s] = new
  BY DEF Init, new
<1>4. LivesInv /\ ArmedInv
  BY <1>1, <1>3 DEF LivesInv, ArmedInv, Init
<1>5. OrderInv
  BY <1>2, <1>3 DEF OrderInv, Init
<1>6. LoopInv
  BY DEF LoopInv, Init
<1> QED
  BY <1>4, <1>5, <1>6 DEF LifeInv

(* A step on a session never makes room in the accept loop: a session that *)
(* was lost stays registered.                                              *)
LEMMA SessionStepLife ==
  ASSUME IInv, LifeInv, NEW s \in SessionId, NEW tt, StepOn(s, tt),
         UNCHANGED <<acceptVars, reported, caller>>
  PROVE  LifeInv'
<1>1. /\ session' = [session EXCEPT ![s] = tt] /\ sessions' = Registered(s, tt)
      /\ Life(tt) /\ (tt.connected => session[s].connected)
      /\ tt.expiry = "none" <=> session[s].expiry = "none"
      /\ session[s].expiry = "none" => tt.sock = session[s].sock
      /\ ioThread' # "exited" => ioThread # "exited" /\ (Armed(session[s]) => Armed(tt))
  BY DEF StepOn
<1>2. /\ session'[s] = tt
      /\ \A t \in SessionId : t # s => session'[t] = session[t]
  BY <1>1 DEF IInv, TypeOK
<1>3. LivesInv'
  BY <1>1, <1>2 DEF LifeInv, LivesInv
<1>4. sessions' \subseteq sessions /\ \A t \in sessions : t # s => t \in sessions'
  BY <1>1 DEF Registered
<1>5. OrderInv'
  <2>1. sessions' \subseteq 1..lastId'
    BY <1>4 DEF LifeInv, OrderInv, acceptVars
  <2>2. \A t \in SessionId : t > lastId' => session'[t].expiry = "none"
    BY <1>1, <1>2 DEF LifeInv, OrderInv, acceptVars
  <2>3. ASSUME acceptOp' = "ok" PROVE session'[accepting'].sock = "open"
    <3>1. acceptOp = "ok" /\ accepting' = accepting
      BY <2>3 DEF acceptVars
    <3>2. accepting # 0
      BY <3>1 DEF IInv, CountInv
    <3>3. accepting \in SessionId /\ session[accepting].expiry = "none"
      BY <3>2, NotYetConnected DEF LifeInv
    <3> QED
      BY <1>1, <1>2, <3>1, <3>3 DEF LifeInv, OrderInv
  <2> QED
    BY <2>1, <2>2, <2>3 DEF OrderInv
<1>6. Lost \subseteq Lost'
  <2> SUFFICES ASSUME NEW t \in Lost PROVE t \in Lost'
    OBVIOUS
  <2>1. t \in sessions /\ accepting # t /\ ~session[t].connected /\ t \in SessionId
    BY DEF Lost, IInv, TypeOK
  <2>2. t \in sessions'
    BY <1>1, <2>1 DEF Registered
  <2>3. ~session'[t].connected
    BY <1>1, <1>2, <2>1
  <2> QED
    BY <2>1, <2>2, <2>3 DEF Lost, acceptVars
<1>7. LoopInv'
  <2>1. acceptor' = acceptor /\ reported' = reported /\ accepting' = accepting
    BY DEF acceptVars
  <2> QED
    BY <1>6, <2>1 DEF LifeInv, LoopInv
<1>8. ArmedInv'
  BY <1>1, <1>2 DEF LifeInv, ArmedInv
<1> QED
  BY <1>3, <1>5, <1>7, <1>8 DEF LifeInv

(* accept(), called by a handler that leaves the sessions at "table".      *)
LEMMA AcceptLife ==
  ASSUME IInv, LifeInv, NEW table \in [SessionId -> SessionState],
         \A s \in SessionId : Life(table[s]),
         \A s \in SessionId : s > lastId => table[s].expiry = "none",
         (\A s \in SessionId : Armed(session[s])) => \A s \in SessionId : Armed(table[s]),
         ioThread = "running", lastId \in 0..MaxClients,
         Accept(table), UNCHANGED <<ioThread, caller>>
  PROVE  LifeInv'
<1>1. CASE started
  <2>1. PICK receiving, sending \in InitFlags :
          session' = [table EXCEPT ![lastId + 1] = NewSession(receiving, sending)]
    BY <1>1 DEF Accept
  <2>2. /\ lastId' = lastId + 1 /\ accepting' = lastId + 1 /\ acceptOp' = "pending"
        /\ sessions' = sessions \cup {lastId + 1}
    BY <1>1 DEF Accept
  <2> DEFINE new == NewSession(receiving, sending)
  <2>3. Life(new) /\ (~receiving => Armed(new)) /\ new.expiry = "none"
    BY NewSessionLife, NewSessionInv
  <2> HIDE DEF new
  <2>4. lastId + 1 \in SessionId /\ lastId \in Nat
    BY DEF SessionId
  <2>5. /\ session'[lastId + 1] = new
        /\ \A t \in SessionId : t # lastId + 1 => session'[t] = table[t]
    BY <2>1, <2>4 DEF new
  <2>6. LivesInv'
    BY <2>3, <2>5 DEF LivesInv
  <2>7. OrderInv'
    <3>1. sessions' \subseteq 1..lastId'
      <4>1. sessions \subseteq 1..lastId
        BY DEF LifeInv, OrderInv
      <4>2. 1..lastId \subseteq 1..(lastId + 1) /\ lastId + 1 \in 1..(lastId + 1)
        BY <2>4
      <4> QED
        BY <2>2, <4>1, <4>2
    <3>2. \A t \in SessionId : t > lastId + 1 => t > lastId /\ t # lastId + 1
      BY <2>4 DEF SessionId
    <3> QED
      BY <2>2, <2>5, <3>1, <3>2 DEF OrderInv
  <2>8. LoopInv'
    BY <2>2, <2>4 DEF LoopInv
  <2>9. ArmedInv'
    BY <2>3, <2>5 DEF LifeInv, ArmedInv
  <2> QED
    BY <2>6, <2>7, <2>8, <2>9 DEF LifeInv
<1>2. CASE ~started
  <2>1. ~AssertsEnabled
    BY <1>2 DEF IInv, AssertInv
  <2>2. /\ acceptOp' = "none" /\ session' = table /\ "server_not_started" \in reported'
        /\ UNCHANGED <<lastId, sessions>>
    BY <1>2, <2>1 DEF Accept
  <2>3. LivesInv' /\ OrderInv' /\ LoopInv' /\ ArmedInv'
    BY <2>1, <2>2 DEF LifeInv, LivesInv, OrderInv, LoopInv, ArmedInv
  <2> QED
    BY <2>3 DEF LifeInv
<1> QED
  BY <1>1, <1>2

(* Every step keeps the strengthening.                                     *)
LEMMA NextLife == IInv /\ LifeInv /\ [Next]_vars => LifeInv'
<1> SUFFICES ASSUME IInv, LifeInv, [Next]_vars PROVE LifeInv'
  OBVIOUS
<1>1. \A s \in SessionId : SessionInv(session[s]) /\ Life(session[s])
  BY EachSession DEF LifeInv
<1>2. ASSUME UNCHANGED <<sessions, session, lastId, accepting>>,
             acceptOp' = acceptOp \/ acceptOp' # "ok",
             acceptor' = acceptor \/ acceptor' # "listening",
             reported \subseteq reported',
             AssertsEnabled /\ InitFlags = {FALSE} =>
               caller' = "idle" /\ (ioThread' # "exited" => ioThread # "exited")
      PROVE  LifeInv'
  <2>1. LivesInv' /\ ArmedInv'
    BY <1>2 DEF LifeInv, LivesInv, ArmedInv
  <2>2. OrderInv'
    BY <1>2 DEF LifeInv, OrderInv
  <2>3. Lost' = Lost
    BY <1>2 DEF Lost
  <2>4. LoopInv'
    BY <1>2, <2>3 DEF LifeInv, LoopInv
  <2> QED
    BY <2>1, <2>2, <2>4 DEF LifeInv
<1>3. ASSUME UNCHANGED <<sessions, session, lastId>>, accepting # 0, accepting' = 0,
             acceptOp' # "ok",
             AssertsEnabled /\ InitFlags = {FALSE} =>
               caller' = "idle" /\ (ioThread' # "exited" => ioThread # "exited")
      PROVE  LifeInv'
  <2>1. LivesInv' /\ ArmedInv' /\ OrderInv'
    BY <1>3 DEF LifeInv, LivesInv, ArmedInv, OrderInv
  <2>2. accepting \in Lost'
    BY <1>3, NotYetConnected DEF Lost, LifeInv
  <2>3. LoopInv'
    BY <2>2 DEF LoopInv
  <2> QED
    BY <2>1, <2>3 DEF LifeInv
<1>4. AssertsEnabled /\ InitFlags = {FALSE} => caller = "idle"
  BY DEF LifeInv, ArmedInv
<1>5. CASE User
  <2>1. CASE Start
    <3>1. AssertsEnabled /\ ioThread = "exited" => started
      BY DEF IInv, AssertInv
    <3>2. AssertsEnabled => caller' = caller /\ (ioThread' # "exited" => ioThread # "exited")
      BY <2>1, <3>1 DEF Start, lifeVars
    <3> QED
      BY <1>2, <1>4, <2>1, <3>2 DEF Start, acceptVars
  <2>2. CASE Stop
    <3>1. AssertsEnabled => caller' = caller /\ ioThread' = ioThread
      BY <2>2 DEF Stop, lifeVars
    <3>2. reported \subseteq reported'
      BY <2>2 DEF Stop
    <3> QED
      BY <1>2, <1>4, <2>2, <3>1, <3>2 DEF Stop, acceptVars
  <2>3. CASE StopReturns
    BY <1>2, <1>4, <2>3 DEF StopReturns, acceptVars
  <2> QED
    BY <1>5, <2>1, <2>2, <2>3 DEF User
<1>6. CASE StartFails \/ ListenThrows \/ AcceptFails \/ ClientConnects
  <2>1. reported \subseteq reported'
    BY <1>6 DEF StartFails, ListenThrows, AcceptFails, ClientConnects
  <2>2. caller' = caller /\ (ioThread' # "exited" => ioThread # "exited")
    BY <1>6 DEF StartFails, ListenThrows, AcceptFails, ClientConnects, lifeVars, IoRuns
  <2>3. /\ UNCHANGED <<sessions, session, lastId, accepting>>
        /\ acceptOp' = acceptOp \/ acceptOp' # "ok"
        /\ acceptor' = acceptor \/ acceptor' # "listening"
    BY <1>6 DEF StartFails, ListenThrows, AcceptFails, ClientConnects, acceptVars
  <2> QED
    BY <1>2, <1>4, <2>1, <2>2, <2>3
<1>7. CASE AcceptError \/ ConnectThrows
  <2>1. acceptOp # "none" /\ accepting # 0
    BY <1>7 DEF AcceptError, ConnectThrows, IInv, CountInv
  <2>2. caller' = caller /\ (ioThread' # "exited" => ioThread # "exited")
    BY <1>7 DEF AcceptError, ConnectThrows, lifeVars, IoRuns
  <2>3. UNCHANGED <<sessions, session, lastId>> /\ accepting' = 0 /\ acceptOp' # "ok"
    BY <1>7 DEF AcceptError, ConnectThrows
  <2> QED
    BY <1>3, <1>4, <2>1, <2>2, <2>3
<1>8. CASE Listen
  <2>1. lastId = 0 /\ Accept(session) /\ UNCHANGED <<ioThread, caller>>
    BY <1>8 DEF Listen, IInv, CountInv
  <2>2. ioThread = "running" /\ session \in [SessionId -> SessionState]
    BY <1>8 DEF Listen, IoRuns, IInv, TypeOK
  <2>3. \A s \in SessionId : s > lastId => session[s].expiry = "none"
    BY DEF LifeInv, OrderInv
  <2> QED
    BY <1>1, <2>1, <2>2, <2>3, AcceptLife
<1>9. CASE AcceptHandler
  <2> DEFINE tt == StartExpiry(Connect(session[accepting]))
             table == [session EXCEPT ![accepting] = tt]
  <2>1. acceptOp = "ok" /\ accepting # 0
    BY <1>9 DEF AcceptHandler, IInv, CountInv
  <2>2. /\ accepting \in SessionId /\ accepting = lastId
        /\ session[accepting].expiry = "none" /\ session[accepting].sock = "open"
    BY <2>1, NotYetConnected DEF LifeInv, OrderInv
  <2>3. Life(tt) /\ (~session[accepting].receiving => Armed(tt))
    BY <1>1, <2>2, ConnectLife
  <2>4. SessionInv(tt)
    BY <1>1, <2>2, ConnectInv
  <2>5. Armed(session[accepting]) => ~session[accepting].receiving
    BY <1>1, <2>2 DEF Armed, Life, Fresh
  <2>6. Accept(table) /\ ioThread = "running" /\ UNCHANGED <<ioThread, caller>>
    BY <1>9 DEF AcceptHandler, IoRuns, lifeVars
  <2> HIDE DEF tt
  <2>7. table \in [SessionId -> SessionState]
    BY <2>2, <2>4 DEF IInv, TypeOK, SessionInv
  <2>8. table[accepting] = tt /\ \A s \in SessionId : s # accepting => table[s] = session[s]
    BY <2>2 DEF IInv, TypeOK
  <2> HIDE DEF table
  <2>9. \A s \in SessionId : Life(table[s])
    BY <1>1, <2>3, <2>8
  <2>10. \A s \in SessionId : s > lastId => table[s].expiry = "none"
    <3>1. \A s \in SessionId : s > lastId => s # accepting
      BY <2>2 DEF SessionId
    <3> QED
      BY <2>8, <3>1 DEF LifeInv, OrderInv
  <2>11. (\A s \in SessionId : Armed(session[s])) => \A s \in SessionId : Armed(table[s])
    BY <2>2, <2>3, <2>5, <2>8
  <2>12. lastId \in 0..MaxClients
    BY <2>1, <2>2 DEF IInv, CountInv, TypeOK, SessionId
  <2> QED
    BY <2>6, <2>7, <2>9, <2>10, <2>11, <2>12, AcceptLife
<1>10. CASE AcceptCompletes
  <2>1. PICK peer \in {"up", "gone"}, unread \in BOOLEAN :
          session' = [session EXCEPT ![accepting] = Accepted(session[accepting], peer, unread)]
    BY <1>10 DEF AcceptCompletes, IInv, TypeOK
  <2> DEFINE tt == Accepted(session[accepting], peer, unread)
  <2>2. accepting # 0
    BY <1>10 DEF AcceptCompletes, IInv, CountInv
  <2>3. accepting \in SessionId /\ session[accepting].expiry = "none"
    BY <2>2, NotYetConnected DEF LifeInv
  <2>4. Life(tt) /\ tt.sock = "open" /\ (Armed(session[accepting]) => Armed(tt))
    BY <1>1, <2>3, AcceptedLife
  <2>5. tt.connected = session[accepting].connected /\ tt.expiry = session[accepting].expiry
    <3>1. session[accepting] \in SessionState
      BY <2>3, EachSession DEF LifeInv
    <3> QED
      BY <3>1 DEF Accepted, SessionState
  <2>6. session'[accepting] = tt /\ \A s \in SessionId : s # accepting => session'[s] = session[s]
    BY <2>1, <2>3 DEF IInv, TypeOK
  <2> HIDE DEF tt
  <2>7. UNCHANGED <<accepting, lastId, sessions, ioThread, caller>>
    BY <1>10 DEF AcceptCompletes, lifeVars
  <2>8. LivesInv' /\ ArmedInv'
    BY <2>4, <2>6, <2>7 DEF LifeInv, LivesInv, ArmedInv
  <2>9. OrderInv'
    BY <2>3, <2>4, <2>5, <2>6, <2>7 DEF LifeInv, OrderInv
  <2>10. LoopInv'
    BY <2>2, <2>7 DEF LoopInv
  <2> QED
    BY <2>8, <2>9, <2>10 DEF LifeInv
<1>11. ASSUME NEW s \in SessionId, ReadCompletes(s) \/ SessionHandler(s) \/ Client(s)
       PROVE  LifeInv'
  <2>1. /\ \E tt : StepOn(s, tt)
        /\ UNCHANGED <<acceptVars, reported, caller, started>>
    BY <1>11, SessionStep DEF LifeInv
  <2> QED
    BY <2>1, SessionStepLife
<1>12. CASE UNCHANGED vars
  BY <1>2, <1>4, <1>12 DEF vars, lifeVars, acceptVars
<1> QED
  BY <1>5, <1>6, <1>7, <1>8, <1>9, <1>10, <1>11, <1>12
  DEF Next, StartHandler, AcceptDone

(* It holds in every state, with the invariant of the server.              *)
LEMMA LifeInvariance == Spec => [](IInv /\ LifeInv)
BY InitInv, NextInv, InitLife, NextLife, PTL DEF Spec

-----------------------------------------------------------------------------
(* disconnect() leaves nothing under way, however the read, write and      *)
(* expiry handlers are interleaved and whatever the uninitialised flags    *)
(* held (impl/webserver.cpp:56-105).                                       *)
THEOREM QuietOnceDisconnected == Spec => []DisconnectedIsQuiet
<1>1. IInv /\ LifeInv => DisconnectedIsQuiet
  <2> SUFFICES ASSUME IInv, LifeInv, NEW s \in SessionId,
                      session[s].expiry # "none", ~session[s].connected
               PROVE  Quiet(session[s])
    BY DEF DisconnectedIsQuiet, Quiet
  <2> QED
    BY EachSession DEF LifeInv, Life
<1> QED
  BY <1>1, LifeInvariance, PTL

(* The accept loop of a started server goes on: only a failed accept, an   *)
(* exception in connect() or a stop() that ran under it breaks the chain.  *)
THEOREM AcceptLoopStaysArmed == Spec => []AcceptLoopArmed
<1>1. IInv /\ LifeInv => AcceptLoopArmed
  BY DEF LifeInv, LoopInv, AcceptLoopArmed
<1> QED
  BY <1>1, LifeInvariance, PTL

(* A connected session is always being read until its request is parsed,   *)
(* in the Debug build with flags that start out clear.  In the Release     *)
(* build stop() and start() can replace a thread that an exception ended,  *)
(* and the session whose handler threw is then deaf.                       *)
THEOREM ReadsStayArmed ==
  ASSUME AssertsEnabled, InitFlags = {FALSE}
  PROVE  Spec => []ReadArmed
<1>1. IInv /\ LifeInv => ReadArmed
  BY DEF LifeInv, ArmedInv, Armed, ReadArmed
<1> QED
  BY <1>1, LifeInvariance, PTL

-----------------------------------------------------------------------------
(* The server implements ConnectionService.  The phase of a connection is  *)
(* read off the registry, the accept that is pending and connected_.       *)

PhaseOf(s) ==
  IF s > lastId THEN "absent"
  ELSE IF s \notin sessions THEN "closed"
  ELSE IF s = accepting THEN "listening"
  ELSE IF session[s].connected THEN "open" ELSE "lost"

LEMMA PhasePointwise ==
  /\ Phase = [s \in SessionId |-> PhaseOf(s)]
  /\ Phase' = [s \in SessionId |-> PhaseOf(s)']
BY DEF Phase, PhaseOf

LEMMA AnswersPointwise ==
  /\ Answers = [s \in SessionId |-> session[s].answers]
  /\ Answers' = [s \in SessionId |-> session'[s].answers]
BY DEF Answers

(* No connection has begun.                                                *)
LEMMA InitRefines == Init => Service!Init
<1> SUFFICES ASSUME Init PROVE Service!Init
  OBVIOUS
<1>1. \A s \in SessionId : PhaseOf(s) = "absent"
  BY DEF Init, PhaseOf, SessionId
<1>2. \A s \in SessionId : session[s].answers = 0
  BY DEF Init, NewSession
<1> QED
  BY <1>1, <1>2, PhasePointwise, AnswersPointwise DEF Service!Init

(* A step that touches no session and no accept is a stutter.              *)
LEMMA StutterRefines ==
  ASSUME UNCHANGED <<sessions, session, accepting, lastId>>
  PROVE  UNCHANGED Service!vars
BY DEF Service!vars, Phase, Answers

(* A step on a session answers it, closes it, or is a stutter.             *)
LEMMA SessionStepRefines ==
  ASSUME IInv, LifeInv, NEW s \in SessionId, NEW tt, StepOn(s, tt),
         UNCHANGED acceptVars
  PROVE  [Service!Next]_(Service!vars)
<1> DEFINE ss == session[s]
           next == IF ss.connected /\ ~tt.connected THEN "closed" ELSE PhaseOf(s)
<1>1. /\ session' = [session EXCEPT ![s] = tt] /\ sessions' = Registered(s, tt)
      /\ (tt.connected => ss.connected)
      /\ tt.expiry = "none" <=> ss.expiry = "none"
      /\ AnsweredOnce(ss, tt)
      /\ tt.answers # ss.answers => ss.connected
      /\ lastId' = lastId /\ accepting' = accepting
  BY DEF StepOn, acceptVars
<1>2. /\ session'[s] = tt
      /\ \A d \in SessionId : d # s => session'[d] = session[d]
  BY <1>1 DEF IInv, TypeOK
<1>3. ss.connected => s \in sessions /\ s # accepting /\ ~(s > lastId)
  <2>1. ss.connected => s \in sessions
    BY DEF IInv, RegistryExact
  <2>2. ss.connected => s # accepting
    <3>1. s # 0
      BY DEF SessionId
    <3> QED
      BY <3>1 DEF IInv, AcceptingInv
  <2>3. s \in sessions => ~(s > lastId)
    BY DEF LifeInv, OrderInv, IInv, TypeOK
  <2> QED
    BY <2>1, <2>2, <2>3
<1>4. ss.connected => PhaseOf(s) = "open"
  BY <1>3 DEF PhaseOf
<1>5. PhaseOf(s)' = next
  <2>1. CASE ss.connected /\ ~tt.connected
    BY <1>1, <1>3, <2>1 DEF PhaseOf, Registered
  <2>2. CASE ~(ss.connected /\ ~tt.connected)
    BY <1>1, <1>2, <2>2 DEF PhaseOf, Registered
  <2> QED
    BY <2>1, <2>2
<1>6. \A d \in SessionId : d # s => PhaseOf(d)' = PhaseOf(d)
  BY <1>1, <1>2 DEF PhaseOf, Registered
<1> HIDE DEF next
<1>7. Phase' = [Phase EXCEPT ![s] = next]
  BY <1>5, <1>6, PhasePointwise
<1>8. Answers' = [Answers EXCEPT ![s] = tt.answers]
  BY <1>2, AnswersPointwise
<1>9. Phase[s] = PhaseOf(s) /\ Answers[s] = ss.answers
  BY PhasePointwise, AnswersPointwise
<1>10. CASE tt.answers = ss.answers
  <2>1. Answers' = Answers
    BY <1>8, <1>9, <1>10, AnswersPointwise
  <2>2. CASE ss.connected /\ ~tt.connected
    <3>1. next = "closed"
      BY <2>2 DEF next
    <3>2. Service!Close(s)
      BY <1>4, <1>7, <1>9, <2>1, <2>2, <3>1 DEF Service!Close
    <3> QED
      BY <3>2 DEF Service!Next
  <2>3. CASE ~(ss.connected /\ ~tt.connected)
    <3>1. next = Phase[s]
      BY <1>9, <2>3 DEF next
    <3>2. Phase' = Phase
      BY <1>7, <3>1, PhasePointwise
    <3> QED
      BY <2>1, <3>2 DEF Service!vars
  <2> QED
    BY <2>2, <2>3
<1>11. CASE tt.answers # ss.answers
  <2>1. ss.connected /\ ~ss.parsed /\ tt.answers = ss.answers + 1
    BY <1>1, <1>11 DEF AnsweredOnce
  <2>2. ss.answers = 0
    BY <2>1, EachSession DEF LifeInv, Life, Orderly
  <2>3. next \in {"open", "closed"}
    BY <1>4, <2>1 DEF next
  <2>4. tt.answers = 1
    BY <2>1, <2>2
  <2>5. Phase[s] = "open" /\ Answers[s] = 0
    BY <1>4, <1>9, <2>1, <2>2
  <2>6. Service!Answer(s)
    BY <1>7, <1>8, <2>3, <2>4, <2>5 DEF Service!Answer
  <2> QED
    BY <2>6 DEF Service!Next
<1> QED
  BY <1>10, <1>11

(* The end of an accept takes the connection or loses it, and may arm the  *)
(* next.                                                                   *)
LEMMA TakeRefines ==
  ASSUME IInv, LifeInv, NEW c \in SessionId, c = accepting,
         NEW taken \in {"open", "lost"}, NEW next \in {"absent", "listening"},
         PhaseOf(c)' = taken,
         \A d \in SessionId : d = c + 1 => PhaseOf(d)' = next,
         \A d \in SessionId : d # c /\ d # c + 1 => PhaseOf(d)' = PhaseOf(d),
         \A d \in SessionId : session'[d].answers = session[d].answers
  PROVE  [Service!Next]_(Service!vars)
<1>1. c \in sessions /\ c = lastId /\ c \in Int
  <2>1. accepting # 0
    BY DEF SessionId
  <2> QED
    BY <2>1, NotYetConnected DEF LifeInv, SessionId
<1>2. Phase[c] = "listening"
  <2>1. ~(c > lastId)
    BY <1>1
  <2>2. PhaseOf(c) = "listening"
    BY <1>1, <2>1 DEF PhaseOf
  <2> QED
    BY <2>2, PhasePointwise
<1>3. Answers' = Answers
  BY AnswersPointwise
<1>4. Phase' = [d \in SessionId |-> IF d = c THEN taken
                                   ELSE IF d = c + 1 THEN next ELSE Phase[d]]
  BY <1>1, PhasePointwise
<1>5. Service!Take(c)
  BY <1>2, <1>3, <1>4 DEF Service!Take
<1> QED
  BY <1>1, <1>5 DEF Service!Next

(* accept(), called with a table in which the connections stand as before, *)
(* except that the one accepted is open.                                   *)
LEMMA AcceptRefines ==
  ASSUME IInv, LifeInv, NEW table \in [SessionId -> SessionState],
         \A s \in SessionId : table[s].answers = session[s].answers,
         \A s \in SessionId : s # accepting => table[s].connected = session[s].connected,
         accepting # 0 => table[accepting].connected,
         accepting = 0 => lastId = 0, lastId \in 0..MaxClients,
         ioThread = "running", Accept(table)
  PROVE  [Service!Next]_(Service!vars)
<1>0. sessions \subseteq 1..lastId /\ lastId + 1 \in SessionId /\ lastId \in Nat
  BY DEF LifeInv, OrderInv, SessionId
<1>1. CASE started
  <2>1. PICK receiving, sending \in InitFlags :
          session' = [table EXCEPT ![lastId + 1] = NewSession(receiving, sending)]
    BY <1>1 DEF Accept
  <2>2. /\ lastId' = lastId + 1 /\ accepting' = lastId + 1
        /\ sessions' = sessions \cup {lastId + 1}
    BY <1>1 DEF Accept
  <2> DEFINE new == NewSession(receiving, sending)
  <2>3. new.answers = 0 /\ ~new.connected
    BY DEF NewSession
  <2> HIDE DEF new
  <2>4. /\ session'[lastId + 1] = new
        /\ \A d \in SessionId : d # lastId + 1 => session'[d] = table[d]
    BY <1>0, <2>1 DEF new
  <2>5. \A d \in SessionId : session'[d].answers = session[d].answers
    <3>1. session[lastId + 1].answers = 0
      <4>1. session[lastId + 1].expiry = "none"
        BY <1>0 DEF LifeInv, OrderInv
      <4> QED
        BY <1>0, <4>1, EachSession DEF LifeInv, Life, Fresh, Orderly
    <3> QED
      BY <2>3, <2>4, <3>1
  <2>6. \A d \in SessionId : d = lastId + 1 => PhaseOf(d)' = "listening"
    BY <1>0, <2>2 DEF PhaseOf
  <2>7. CASE accepting = 0
    <3>1. lastId = 0 /\ sessions = {}
      BY <1>0, <2>7
    <3>2. \A d \in SessionId : PhaseOf(d) = "absent"
      BY <3>1 DEF PhaseOf, SessionId
    <3>3. \A d \in SessionId : d # 1 => PhaseOf(d)' = "absent"
      BY <2>2, <3>1 DEF PhaseOf, SessionId
    <3>4. Phase' = [d \in SessionId |-> IF d = 1 THEN "listening" ELSE "absent"]
      BY <2>6, <3>1, <3>3, PhasePointwise
    <3>5. \A d \in SessionId : Phase[d] = "absent"
      BY <3>2, PhasePointwise
    <3>6. Answers' = Answers
      BY <2>5, AnswersPointwise
    <3>7. Service!Begin
      BY <3>4, <3>5, <3>6 DEF Service!Begin
    <3> QED
      BY <3>7 DEF Service!Next
  <2>8. CASE accepting # 0
    <3>1. accepting = lastId /\ accepting \in sessions /\ accepting \in SessionId
      BY <2>8, NotYetConnected DEF LifeInv
    <3>2. \A d \in SessionId : d = accepting => PhaseOf(d)' = "open"
      BY <1>0, <2>2, <2>4, <2>8, <3>1 DEF PhaseOf
    <3>3. ASSUME NEW d \in SessionId, d # accepting, d # accepting + 1
          PROVE  PhaseOf(d)' = PhaseOf(d)
      <4>1. d \in Nat /\ session'[d] = table[d] /\ d # lastId + 1
        BY <2>4, <3>1, <3>3 DEF SessionId
      <4>2. d \in sessions' <=> d \in sessions
        BY <2>2, <4>1
      <4>3. d > lastId' <=> d > lastId
        BY <1>0, <2>2, <4>1
      <4> QED
        BY <2>2, <3>3, <4>1, <4>2, <4>3 DEF PhaseOf
    <3> QED
      BY <2>5, <2>6, <2>8, <3>1, <3>2, <3>3, TakeRefines
  <2> QED
    BY <2>7, <2>8
<1>2. CASE ~started
  <2>1. ~AssertsEnabled
    BY <1>2 DEF IInv, AssertInv
  <2>2. accepting' = 0 /\ session' = table /\ UNCHANGED <<lastId, sessions>>
    BY <1>2, <2>1 DEF Accept
  <2>3. CASE accepting = 0
    <3>1. Answers' = Answers
      BY <2>2, AnswersPointwise
    <3>2. \A d \in SessionId : PhaseOf(d)' = PhaseOf(d)
      BY <1>0, <2>2, <2>3 DEF PhaseOf, SessionId
    <3>3. Phase' = Phase
      BY <3>2, PhasePointwise
    <3> QED
      BY <3>1, <3>3 DEF Service!vars
  <2>4. CASE accepting # 0
    <3>1. accepting = lastId /\ accepting \in sessions /\ accepting \in SessionId
      BY <2>4, NotYetConnected DEF LifeInv
    <3>2. \A d \in SessionId : d = accepting => PhaseOf(d)' = "open"
      BY <1>0, <2>2, <2>4, <3>1 DEF PhaseOf, SessionId
    <3>3. \A d \in SessionId : d # accepting => PhaseOf(d)' = PhaseOf(d)
      BY <2>2 DEF PhaseOf, SessionId
    <3>4. \A d \in SessionId : d = accepting + 1 => PhaseOf(d)' = "absent"
      BY <1>0, <2>2, <3>1 DEF PhaseOf
    <3>5. PICK c \in SessionId : c = accepting
      BY <3>1
    <3>6. /\ PhaseOf(c)' = "open"
          /\ \A d \in SessionId : d = c + 1 => PhaseOf(d)' = "absent"
          /\ \A d \in SessionId : d # c /\ d # c + 1 => PhaseOf(d)' = PhaseOf(d)
      BY <3>2, <3>3, <3>4, <3>5
    <3>7. \A d \in SessionId : session'[d].answers = session[d].answers
      BY <2>2
    <3> QED
      BY <3>5, <3>6, <3>7, TakeRefines
  <2> QED
    BY <2>3, <2>4
<1> QED
  BY <1>1, <1>2

(* Every step of the server is a step of the service or a stutter.         *)
LEMMA NextRefines ==
  IInv /\ LifeInv /\ [Next]_vars => [Service!Next]_(Service!vars)
<1> SUFFICES ASSUME IInv, LifeInv, [Next]_vars PROVE [Service!Next]_(Service!vars)
  OBVIOUS
<1>1. CASE User \/ StartFails \/ ListenThrows \/ AcceptFails \/ ClientConnects
           \/ UNCHANGED vars
  <2>1. UNCHANGED <<sessions, session, accepting, lastId>>
    BY <1>1 DEF User, Start, Stop, StopReturns, StartFails, ListenThrows, AcceptFails,
                ClientConnects, vars, acceptVars
  <2> QED
    BY <2>1, StutterRefines
<1>2. CASE Listen
  <2>1. /\ Accept(session) /\ ioThread = "running" /\ session \in [SessionId -> SessionState]
        /\ lastId = 0
    BY <1>2 DEF Listen, IoRuns, IInv, TypeOK, CountInv
  <2>2. accepting = 0
    BY <2>1 DEF IInv, CountInv
  <2> QED
    BY <2>1, <2>2, AcceptRefines
<1>3. CASE AcceptCompletes
  <2>1. PICK peer \in {"up", "gone"}, unread \in BOOLEAN :
          session' = [session EXCEPT ![accepting] = Accepted(session[accepting], peer, unread)]
    BY <1>3 DEF AcceptCompletes, IInv, TypeOK
  <2> DEFINE tt == Accepted(session[accepting], peer, unread)
  <2>2. accepting \in SessionId /\ session[accepting].expiry = "none"
    BY <1>3, NotYetConnected DEF AcceptCompletes, IInv, CountInv, LifeInv
  <2>3. tt.answers = session[accepting].answers
    BY <2>2, EachSession, AcceptedLife DEF LifeInv
  <2>4. tt.connected = session[accepting].connected
    BY <2>2, EachSession, AcceptedKeeps DEF LifeInv
  <2>5. session'[accepting] = tt /\ \A s \in SessionId : s # accepting => session'[s] = session[s]
    BY <2>1, <2>2 DEF IInv, TypeOK
  <2> HIDE DEF tt
  <2>6. UNCHANGED <<accepting, lastId, sessions>>
    BY <1>3 DEF AcceptCompletes
  <2>7. \A s \in SessionId : PhaseOf(s)' = PhaseOf(s)
    BY <2>4, <2>5, <2>6 DEF PhaseOf
  <2>8. \A s \in SessionId : session'[s].answers = session[s].answers
    BY <2>3, <2>5
  <2>9. Phase' = Phase /\ Answers' = Answers
    BY <2>7, <2>8, PhasePointwise, AnswersPointwise
  <2> QED
    BY <2>9 DEF Service!vars
<1>4. CASE AcceptError \/ ConnectThrows
  <2>1. UNCHANGED <<sessions, session, lastId>> /\ accepting' = 0 /\ accepting # 0
    BY <1>4 DEF AcceptError, ConnectThrows, IInv, CountInv
  <2>2. PICK c \in SessionId : c = accepting
    BY <2>1, NotYetConnected DEF LifeInv
  <2>3. /\ c \in sessions /\ c = lastId /\ ~session[c].connected
        /\ sessions \subseteq 1..lastId
    BY <2>1, <2>2, NotYetConnected DEF LifeInv, OrderInv
  <2>4. PhaseOf(c)' = "lost"
    BY <2>1, <2>3 DEF PhaseOf, SessionId
  <2>5. \A d \in SessionId : d # c => PhaseOf(d)' = PhaseOf(d)
    BY <2>1, <2>2 DEF PhaseOf, SessionId
  <2>6. \A d \in SessionId : d = c + 1 => PhaseOf(d)' = "absent"
    BY <2>1, <2>3 DEF PhaseOf, SessionId
  <2>7. \A d \in SessionId : session'[d].answers = session[d].answers
    BY <2>1
  <2>8. \A d \in SessionId : d # c /\ d # c + 1 => PhaseOf(d)' = PhaseOf(d)
    BY <2>5
  <2> QED
    BY <2>2, <2>4, <2>6, <2>7, <2>8, TakeRefines
<1>5. CASE AcceptHandler
  <2> DEFINE tt == StartExpiry(Connect(session[accepting]))
             table == [session EXCEPT ![accepting] = tt]
  <2>1. acceptOp = "ok" /\ accepting # 0 /\ ioThread = "running" /\ Accept(table)
    BY <1>5 DEF AcceptHandler, IoRuns, IInv, CountInv
  <2>2. /\ accepting \in SessionId /\ accepting = lastId
        /\ session[accepting].expiry = "none" /\ session[accepting].sock = "open"
    BY <2>1, NotYetConnected DEF LifeInv, OrderInv
  <2>3. tt.answers = session[accepting].answers
    BY <2>2, EachSession, ConnectLife DEF LifeInv
  <2>4. SessionInv(tt) /\ tt.connected
    BY <2>2, EachSession, ConnectInv DEF LifeInv
  <2> HIDE DEF tt
  <2>5. table \in [SessionId -> SessionState]
    BY <2>2, <2>4 DEF IInv, TypeOK, SessionInv
  <2>6. table[accepting] = tt /\ \A s \in SessionId : s # accepting => table[s] = session[s]
    BY <2>2 DEF IInv, TypeOK
  <2> HIDE DEF table
  <2>7. \A s \in SessionId : table[s].answers = session[s].answers
    BY <2>3, <2>6
  <2>8. \A s \in SessionId : s # accepting => table[s].connected = session[s].connected
    BY <2>6
  <2>9. lastId \in 0..MaxClients
    BY <2>1, <2>2 DEF IInv, CountInv, TypeOK, SessionId
  <2> QED
    BY <2>1, <2>4, <2>5, <2>6, <2>7, <2>8, <2>9, AcceptRefines
<1>6. ASSUME NEW s \in SessionId, ReadCompletes(s) \/ SessionHandler(s) \/ Client(s)
      PROVE  [Service!Next]_(Service!vars)
  <2>1. (\E tt : StepOn(s, tt)) /\ UNCHANGED acceptVars
    BY <1>6, SessionStep DEF LifeInv
  <2> QED
    BY <2>1, SessionStepRefines
<1> QED
  BY <1>1, <1>2, <1>3, <1>4, <1>5, <1>6 DEF Next, StartHandler, AcceptDone

(* The server keeps the promise of ConnectionService: connections are taken *)
(* one at a time and in order, each is answered at most once and only while *)
(* it is open, and one that is closed or lost stays so.                     *)
THEOREM ServiceIsImplemented == Spec => ServiceSpec
BY InitRefines, NextRefines, LifeInvariance, PTL DEF Spec, ServiceSpec, Service!Spec
=============================================================================
