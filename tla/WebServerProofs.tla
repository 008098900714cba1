-------------------------- MODULE WebServerProofs --------------------------
(***************************************************************************)
(* Theorems about WebServer, for every number of clients, every size of a  *)
(* response, both builds and every value of the uninitialised flags.       *)
(***************************************************************************)
EXTENDS WebServer, WebSessionProofs

SessionsInv ==
  /\ session \in [SessionId -> SessionState]
  /\ \A s \in SessionId : SessionInv(session[s])

(* Each session but the first was created by the handler of an accept that *)
(* took a client out of the backlog: this is what bounds last_session_id_. *)
CountInv ==
  /\ backlog <= connects
  /\ acceptor # "listening" => lastId = 0
  /\ accepting \in {0, lastId}
  /\ accepting = 0 <=> acceptOp = "none"
  /\ lastId <= connects - backlog + 1
  /\ acceptOp = "ok" => lastId <= connects - backlog

(* The session that waits for a client is registered and not connected.    *)
AcceptingInv ==
  accepting # 0 => accepting \in sessions /\ ~session[accepting].connected

(* With assertions enabled stop() never clears started_ under the thread.   *)
AssertInv ==
  /\ proc # "accept_assert"
  /\ AssertsEnabled /\ ioThread # "none" => started

IInv ==
  /\ TypeOK
  /\ SessionsInv
  /\ CountInv
  /\ RegistryExact
  /\ AcceptingInv
  /\ AssertInv

-----------------------------------------------------------------------------
USE InitFlagsAssumption, ServerAssumption

(* The inductive invariant holds in the initial state.                     *)
LEMMA InitInv == Init => IInv
<1> SUFFICES ASSUME Init PROVE IInv
  OBVIOUS
<1> DEFINE new == NewSession(FALSE, FALSE)
<1>1. SessionInv(new) /\ ~new.connected /\ new.expiry = "none"
  BY NewSessionInv
<1> HIDE DEF new
<1>2. session = [s \in SessionId |-> new]
  BY DEF Init, new
<1>3. SessionsInv /\ RegistryExact
  BY <1>1, <1>2 DEF SessionsInv, SessionInv, RegistryExact
<1>4. TypeOK
  <2>1. session \in [SessionId -> SessionState]
    BY <1>3 DEF SessionsInv
  <2>2. 0 \in 0..MaxClients /\ 0 \in 0..(MaxClients + 1)
    OBVIOUS
  <2> QED
    BY <2>1, <2>2 DEF TypeOK, Init
<1>5. CountInv /\ AcceptingInv /\ AssertInv
  BY DEF CountInv, AcceptingInv, AssertInv, Init
<1> QED
  BY <1>3, <1>4, <1>5 DEF IInv

(* A handler of session s, which leaves the session in a state its methods *)
(* allow and connected only if it was.                                     *)
LEMMA HandlerInv ==
  ASSUME IInv, NEW s \in SessionId, NEW ss, SessionInv(ss),
         ss.connected => session[s].connected,
         session[s].expiry = "none" => ss.expiry = "none",
         HandlerOf(s, ss), proc' \in {proc, "dangling"}
  PROVE  IInv'
<1>1. /\ session' = [session EXCEPT ![s] = ss]
      /\ sessions' = IF session[s].connected /\ ~ss.connected
                     THEN sessions \ {s} ELSE sessions
      /\ UNCHANGED <<lifeVars, acceptVars, reported, clientVars>>
  BY DEF HandlerOf, Registered
<1>2. SessionsInv'
  BY <1>1 DEF IInv, SessionsInv, SessionInv
<1>3. TypeOK'
  BY <1>1, <1>2 DEF IInv, TypeOK, SessionsInv, lifeVars, acceptVars, clientVars, Failures
<1>4. CountInv'
  BY <1>1 DEF IInv, CountInv, acceptVars, clientVars
<1>5. RegistryExact'
  BY <1>1 DEF IInv, RegistryExact, SessionsInv
<1>6. AcceptingInv'
  BY <1>1 DEF IInv, AcceptingInv, SessionsInv, acceptVars
<1>7. AssertInv'
  BY <1>1 DEF IInv, AssertInv, lifeVars
<1> QED
  BY <1>2, <1>3, <1>4, <1>5, <1>6, <1>7 DEF IInv

(* accept(), called by a handler that leaves the sessions at "table" and   *)
(* has taken a client for the session the last accept was for.             *)
LEMMA AcceptInv ==
  ASSUME IInv, NEW table \in [SessionId -> SessionState],
         \A s \in SessionId : SessionInv(table[s]),
         \A s \in SessionId : table[s].connected => s \in sessions,
         \A s \in SessionId :
           s \in sessions /\ table[s].expiry # "none" => table[s].connected,
         ioThread = "running", lastId <= connects - backlog,
         Accept(table), UNCHANGED <<started, ioThread, caller, clientVars>>,
         acceptor' = "listening", startOps' \in Nat
  PROVE  IInv'
<1>1. CASE started
  <2> DEFINE next == lastId + 1
  <2>1. PICK receiving, sending \in InitFlags :
          session' = [table EXCEPT ![next] = NewSession(receiving, sending)]
    BY <1>1 DEF Accept
  <2>2. /\ lastId' = next /\ accepting' = next /\ acceptOp' = "pending"
        /\ sessions' = sessions \cup {next} /\ UNCHANGED <<proc, reported>>
    BY <1>1 DEF Accept
  <2>3. next \in SessionId /\ next # 0 /\ next \in 0..(MaxClients + 1)
    BY DEF IInv, TypeOK, SessionId
  <2> DEFINE new == NewSession(receiving, sending)
  <2>4. SessionInv(new) /\ ~new.connected /\ new.expiry = "none"
    BY NewSessionInv
  <2> HIDE DEF new, next
  <2>5. session' = [table EXCEPT ![next] = new]
    BY <2>1 DEF new
  <2>6. SessionsInv'
    BY <2>3, <2>4, <2>5 DEF SessionsInv, SessionInv
  <2>7. TypeOK'
    BY <2>2, <2>3, <2>6 DEF IInv, TypeOK, SessionsInv, clientVars
  <2>8. CountInv'
    BY <2>2, <2>3 DEF IInv, CountInv, TypeOK, clientVars, next
  <2>9. RegistryExact'
    BY <2>2, <2>4, <2>5 DEF RegistryExact
  <2>10. AcceptingInv'
    BY <2>2, <2>3, <2>4, <2>5 DEF AcceptingInv
  <2>11. AssertInv'
    BY <2>2 DEF IInv, AssertInv
  <2> QED
    BY <2>6, <2>7, <2>8, <2>9, <2>10, <2>11 DEF IInv
<1>2. CASE ~started
  <2>1. ~AssertsEnabled
    BY <1>2 DEF IInv, AssertInv
  <2>2. /\ accepting' = 0 /\ acceptOp' = "none" /\ session' = table
        /\ proc' = proc /\ reported' = reported \cup {"server_not_started"}
        /\ UNCHANGED <<lastId, sessions>>
    BY <1>2, <2>1 DEF Accept
  <2>3. SessionsInv'
    BY <2>2 DEF SessionsInv
  <2>4. TypeOK'
    BY <2>2, <2>3 DEF IInv, TypeOK, SessionsInv, clientVars
  <2>5. CountInv'
    BY <2>2 DEF IInv, CountInv, TypeOK, clientVars
  <2>6. RegistryExact' /\ AcceptingInv'
    BY <2>2 DEF RegistryExact, AcceptingInv
  <2>7. AssertInv'
    BY <2>1, <2>2 DEF IInv, AssertInv
  <2> QED
    BY <2>3, <2>4, <2>5, <2>6, <2>7 DEF IInv
<1> QED
  BY <1>1, <1>2

-----------------------------------------------------------------------------
(* One step per action; the actions of the user, of clients and of the     *)
(* kernel leave sessions_ alone, the handlers fall under the lemmas above. *)
LEMMA NextInv == IInv /\ [Next]_vars => IInv'
<1> SUFFICES ASSUME IInv, [Next]_vars PROVE IInv'
  OBVIOUS
<1> USE DEF lifeVars, acceptVars, clientVars
<1>1. \A s \in SessionId : SessionInv(session[s]) /\ session[s] \in SessionState
  BY DEF IInv, SessionsInv, SessionInv
<1>2. ASSUME UNCHANGED <<sessions, session, acceptVars, clientVars, ioThread, started>>,
             startOps' \in Nat, caller' \in {"idle", "joining"},
             proc' \in {proc, "start_twice", "stop_assert"},
             reported' \subseteq StartErrors \cup
                        {"accept", "server_not_started", "service_not_started"}
      PROVE  IInv'
  <2>1. TypeOK' /\ SessionsInv'
    BY <1>2 DEF IInv, TypeOK, SessionsInv, Failures
  <2>2. CountInv' /\ RegistryExact' /\ AcceptingInv' /\ AssertInv'
    BY <1>2 DEF IInv, CountInv, RegistryExact, AcceptingInv, AssertInv
  <2> QED
    BY <2>1, <2>2 DEF IInv
<1>3. CASE Start
  <2>1. CASE started
    BY <1>2, <1>3, <2>1 DEF Start, IInv, TypeOK
  <2>2. CASE ~started
    <3>1. TypeOK' /\ SessionsInv'
      BY <1>3, <2>2 DEF Start, IInv, TypeOK, SessionsInv
    <3>2. CountInv' /\ RegistryExact' /\ AcceptingInv' /\ AssertInv'
      BY <1>3, <2>2 DEF Start, IInv, CountInv, RegistryExact, AcceptingInv, AssertInv
    <3> QED
      BY <3>1, <3>2 DEF IInv
  <2> QED
    BY <2>1, <2>2
<1>4. CASE Stop
  <2>1. CASE ~started \/ AssertsEnabled
    BY <1>2, <1>4, <2>1 DEF Stop, IInv, TypeOK
  <2>2. CASE started /\ ~AssertsEnabled
    <3>1. TypeOK' /\ SessionsInv'
      BY <1>4, <2>2 DEF Stop, IInv, TypeOK, SessionsInv
    <3>2. CountInv' /\ RegistryExact' /\ AcceptingInv' /\ AssertInv'
      BY <1>4, <2>2 DEF Stop, IInv, CountInv, RegistryExact, AcceptingInv, AssertInv
    <3> QED
      BY <3>1, <3>2 DEF IInv
  <2> QED
    BY <2>1, <2>2
<1>5. CASE StopReturns
  <2>1. TypeOK' /\ SessionsInv'
    BY <1>5 DEF StopReturns, IInv, TypeOK, SessionsInv
  <2>2. CountInv' /\ RegistryExact' /\ AcceptingInv' /\ AssertInv'
    BY <1>5 DEF StopReturns, IInv, CountInv, RegistryExact, AcceptingInv, AssertInv
  <2> QED
    BY <2>1, <2>2 DEF IInv
<1>6. CASE StartFails
  <2>1. TypeOK' /\ SessionsInv'
    BY <1>6 DEF StartFails, IoRuns, StartErrors, IInv, TypeOK, SessionsInv
  <2>2. CountInv' /\ RegistryExact' /\ AcceptingInv' /\ AssertInv'
    BY <1>6 DEF StartFails, IInv, CountInv, RegistryExact, AcceptingInv, AssertInv
  <2> QED
    BY <2>1, <2>2 DEF IInv
<1>7. CASE ListenThrows
  <2>1. TypeOK' /\ SessionsInv'
    BY <1>7 DEF ListenThrows, IInv, TypeOK, SessionsInv
  <2>2. CountInv' /\ RegistryExact' /\ AcceptingInv' /\ AssertInv'
    BY <1>7 DEF ListenThrows, IoRuns, IInv, CountInv, RegistryExact, AcceptingInv, AssertInv
  <2> QED
    BY <2>1, <2>2 DEF IInv
<1>8. CASE Listen
  <2>1. lastId <= connects - backlog
    BY <1>8 DEF Listen, IInv, CountInv, TypeOK
  <2>2. startOps' \in Nat
    BY <1>8 DEF Listen, IInv, TypeOK
  <2>3. /\ session \in [SessionId -> SessionState]
        /\ \A s \in SessionId : session[s].connected => s \in sessions
        /\ \A s \in SessionId :
             s \in sessions /\ session[s].expiry # "none" => session[s].connected
    BY DEF IInv, TypeOK, RegistryExact
  <2> QED
    BY <1>1, <1>8, <2>1, <2>2, <2>3, AcceptInv DEF Listen, IoRuns
<1>9. CASE AcceptCompletes
  <2>1. PICK peer \in {"up", "gone"}, unread \in BOOLEAN :
          session' = [session EXCEPT ![accepting] = Accepted(@, peer, unread)]
    BY <1>9 DEF AcceptCompletes
  <2>2. accepting \in SessionId /\ accepting = lastId
    BY <1>9 DEF AcceptCompletes, IInv, TypeOK, CountInv
  <2> DEFINE ss == Accepted(session[accepting], peer, unread)
  <2>3. Keeps(session[accepting], ss) /\ ss.connected = session[accepting].connected
    BY <1>1, <2>2, AcceptedKeeps
  <2>4. session' = [session EXCEPT ![accepting] = ss]
    BY <2>1
  <2> HIDE DEF ss
  <2>5. SessionsInv'
    BY <2>2, <2>3, <2>4 DEF IInv, SessionsInv, Keeps, SessionInv
  <2>6. TypeOK'
    BY <1>9, <2>5 DEF AcceptCompletes, IInv, TypeOK, SessionsInv
  <2>7. CountInv'
    BY <1>9, <2>2 DEF AcceptCompletes, IInv, TypeOK, CountInv
  <2>8. RegistryExact' /\ AcceptingInv'
    <3>1. sessions' = sessions /\ accepting' = accepting
      BY <1>9 DEF AcceptCompletes
    <3>2. \A s \in SessionId : /\ session'[s].connected = session[s].connected
                              /\ session'[s].expiry = session[s].expiry
      BY <2>2, <2>3, <2>4 DEF IInv, TypeOK, Keeps
    <3> QED
      BY <2>2, <3>1, <3>2 DEF IInv, RegistryExact, AcceptingInv
  <2>9. AssertInv'
    BY <1>9 DEF AcceptCompletes, IInv, AssertInv
  <2> QED
    BY <2>5, <2>6, <2>7, <2>8, <2>9 DEF IInv
<1>10. CASE AcceptFails
  <2>1. TypeOK' /\ SessionsInv'
    BY <1>10 DEF AcceptFails, IInv, TypeOK, SessionsInv
  <2>2. CountInv' /\ RegistryExact' /\ AcceptingInv' /\ AssertInv'
    BY <1>10 DEF AcceptFails, IInv, CountInv, RegistryExact, AcceptingInv, AssertInv
  <2> QED
    BY <2>1, <2>2 DEF IInv
<1>11. CASE AcceptError
  <2>1. TypeOK' /\ SessionsInv'
    BY <1>11 DEF AcceptError, IInv, TypeOK, SessionsInv
  <2>2. CountInv' /\ RegistryExact' /\ AcceptingInv' /\ AssertInv'
    BY <1>11 DEF AcceptError, IInv, CountInv, RegistryExact, AcceptingInv, AssertInv
  <2> QED
    BY <2>1, <2>2 DEF IInv
<1>12. CASE ConnectThrows
  <2>1. TypeOK' /\ SessionsInv'
    BY <1>12 DEF ConnectThrows, IInv, TypeOK, SessionsInv
  <2>2. CountInv' /\ RegistryExact' /\ AcceptingInv' /\ AssertInv'
    BY <1>12 DEF ConnectThrows, IoRuns, IInv, CountInv, RegistryExact, AcceptingInv, AssertInv
  <2> QED
    BY <2>1, <2>2 DEF IInv
<1>13. CASE AcceptHandler
  <2> DEFINE ss == StartExpiry(Connect(session[accepting]))
             table == [session EXCEPT ![accepting] = ss]
  <2>1. accepting \in SessionId /\ accepting \in sessions
    BY <1>13 DEF AcceptHandler, IInv, TypeOK, CountInv, AcceptingInv
  <2>2. SessionInv(ss) /\ ss.connected /\ ss.expiry = "aborted"
    BY <1>1, <2>1, ConnectInv
  <2>3. Accept(table)
    BY <1>13 DEF AcceptHandler
  <2> HIDE DEF ss
  <2>4. /\ table \in [SessionId -> SessionState]
        /\ \A s \in SessionId : SessionInv(table[s])
        /\ \A s \in SessionId : table[s].connected => s \in sessions
        /\ \A s \in SessionId :
             s \in sessions /\ table[s].expiry # "none" => table[s].connected
    BY <1>1, <2>1, <2>2 DEF IInv, TypeOK, RegistryExact, SessionInv
  <2> HIDE DEF table
  <2>5. lastId <= connects - backlog /\ startOps' \in Nat /\ acceptor' = "listening"
    BY <1>13, <2>1 DEF AcceptHandler, IInv, CountInv, TypeOK, SessionId
  <2> QED
    BY <1>13, <2>3, <2>4, <2>5, AcceptInv DEF AcceptHandler, IoRuns
<1>14. CASE ClientConnects
  <2>1. TypeOK' /\ SessionsInv'
    BY <1>14 DEF ClientConnects, IInv, TypeOK, SessionsInv, CountInv
  <2>2. CountInv' /\ RegistryExact' /\ AcceptingInv' /\ AssertInv'
    BY <1>14
    DEF ClientConnects, IInv, TypeOK, CountInv, RegistryExact, AcceptingInv, AssertInv
  <2> QED
    BY <2>1, <2>2 DEF IInv
<1>15. ASSUME NEW s \in SessionId, NEW ss, SessionInv(ss),
              ss.connected = session[s].connected, ss.expiry = session[s].expiry,
              session' = [session EXCEPT ![s] = ss],
              UNCHANGED <<started, caller, startOps, acceptVars, sessions, reported,
                          clientVars>>,
              ioThread' \in {ioThread, "exited"}, ioThread # "none" \/ UNCHANGED ioThread,
              proc' \in {proc, "dangling"}
       PROVE  IInv'
  <2>1. SessionsInv'
    BY <1>15 DEF IInv, SessionsInv, SessionInv
  <2>2. TypeOK'
    BY <1>15, <2>1 DEF IInv, TypeOK, SessionsInv, Failures
  <2>3. CountInv' /\ AssertInv'
    BY <1>15 DEF IInv, CountInv, AssertInv
  <2>4. RegistryExact' /\ AcceptingInv'
    BY <1>15 DEF IInv, TypeOK, RegistryExact, AcceptingInv
  <2> QED
    BY <2>1, <2>2, <2>3, <2>4 DEF IInv
<1>16. ASSUME NEW s \in SessionId, ReadCompletes(s) PROVE IInv'
  <2> DEFINE data == [session[s] EXCEPT !.read = "data", !.unread = FALSE]
             failed == [session[s] EXCEPT !.read = "failed"]
  <2>1. Keeps(session[s], data) /\ data.connected = session[s].connected
    BY <1>1, OutsideKeeps
  <2>2. Keeps(session[s], failed) /\ failed.connected = session[s].connected
    BY <1>1, OutsideKeeps
  <2>3. session' = [session EXCEPT ![s] = data] \/ session' = [session EXCEPT ![s] = failed]
    BY <1>16 DEF ReadCompletes, IInv, TypeOK
  <2> HIDE DEF data, failed
  <2> QED
    BY <1>15, <1>16, <2>1, <2>2, <2>3 DEF ReadCompletes, Keeps
<1>17. ASSUME NEW s \in SessionId, ReceiveHandler(s) PROVE IInv'
  <2>1. PICK verdict \in Verdicts, n \in 1..MaxResponse, k \in 0..MaxResponse,
             closes \in BOOLEAN :
          /\ HandlerOf(s, ReadHandler(session[s], verdict, n, k, closes))
          /\ proc' \in {proc, "dangling"}
    BY <1>17 DEF ReceiveHandler
  <2>2. n \in Nat /\ k \in Nat
    OBVIOUS
  <2>3. Keeps(session[s], ReadHandler(session[s], verdict, n, k, closes))
    BY <1>1, <2>2, ReadHandlerKeeps
  <2> QED
    BY <2>1, <2>3, HandlerInv DEF Keeps
<1>18. ASSUME NEW s \in SessionId, ReceiveThrows(s) PROVE IInv'
  <2>0. PICK parsed \in BOOLEAN : session' = [session EXCEPT ![s] = ReadThrows(@, parsed)]
    BY <1>18 DEF ReceiveThrows
  <2> DEFINE ss == ReadThrows(session[s], parsed)
  <2>1. SessionInv(ss) /\ ss.connected = session[s].connected
          /\ ss.expiry = session[s].expiry
    BY <1>1, ReadThrowsKeeps DEF Keeps
  <2>2. session' = [session EXCEPT ![s] = ss]
    BY <2>0
  <2> HIDE DEF ss
  <2> QED
    BY <1>15, <1>18, <2>1, <2>2 DEF ReceiveThrows, IoRuns
<1>19. ASSUME NEW s \in SessionId, DanglingReceive(s) PROVE IInv'
  <2> DEFINE ss == [session[s] EXCEPT !.read = "none"]
  <2>1. SessionInv(ss) /\ ss.connected = session[s].connected
          /\ ss.expiry = session[s].expiry
    BY <1>1, OutsideKeeps DEF Keeps
  <2>2. session' = [session EXCEPT ![s] = ss]
    BY <1>19 DEF DanglingReceive
  <2> HIDE DEF ss
  <2> QED
    BY <1>15, <1>19, <2>1, <2>2 DEF DanglingReceive
<1>20. ASSUME NEW s \in SessionId, SendHandler(s) PROVE IInv'
  <2>1. PICK k \in 0..MaxResponse : HandlerOf(s, WriteHandler(session[s], k))
    BY <1>20 DEF SendHandler
  <2>2. k \in Nat
    OBVIOUS
  <2>3. Keeps(session[s], WriteHandler(session[s], k))
    BY <1>1, <2>2, WriteHandlerKeeps
  <2> QED
    BY <1>20, <2>1, <2>3, HandlerInv DEF Keeps, SendHandler
<1>21. ASSUME NEW s \in SessionId, ExpirySession(s) PROVE IInv'
  <2>1. PICK closes \in BOOLEAN : HandlerOf(s, ExpireHandler(session[s], closes))
    BY <1>21 DEF ExpirySession
  <2>2. SessionInv(ExpireHandler(session[s], closes))
    BY <1>1, ExpireHandlerKeeps
  <2>3. ExpireHandler(session[s], closes).connected => session[s].connected
    BY <1>1, ExpireHandlerKeeps
  <2> QED
    BY <1>21, <2>1, <2>2, <2>3, HandlerInv DEF ExpirySession
<1>22. ASSUME NEW s \in SessionId, Client(s) PROVE IInv'
  <2> DEFINE sent == [session[s] EXCEPT !.unread = TRUE]
             left == [session[s] EXCEPT !.peer = "gone"]
  <2>1. Keeps(session[s], sent) /\ sent.connected = session[s].connected
    BY <1>1, OutsideKeeps
  <2>2. Keeps(session[s], left) /\ left.connected = session[s].connected
    BY <1>1, OutsideKeeps
  <2>3. session' = [session EXCEPT ![s] = sent] \/ session' = [session EXCEPT ![s] = left]
    BY <1>22 DEF Client, ClientSends, ClientLeaves, IInv, TypeOK
  <2> HIDE DEF sent, left
  <2> QED
    BY <1>15, <1>22, <2>1, <2>2, <2>3 DEF Client, ClientSends, ClientLeaves, Keeps
<1>23. CASE UNCHANGED vars
  BY <1>2, <1>23 DEF vars, IInv, TypeOK
<1> QED
  BY <1>3, <1>4, <1>5, <1>6, <1>7, <1>8, <1>9, <1>10, <1>11, <1>12, <1>13, <1>14,
     <1>16, <1>17, <1>18, <1>19, <1>20, <1>21, <1>22, <1>23
  DEF Next, User, StartHandler, AcceptDone, SessionHandler

(* It holds in every state.                                                *)
LEMMA Invariance == Spec => []IInv
BY InitInv, NextInv, PTL DEF Spec

(* Every variable keeps its type; in particular last_session_id_ never      *)
(* runs ahead of the clients that came.                                     *)
THEOREM TypeCorrect == Spec => []TypeOK
<1>1. IInv => TypeOK
  BY DEF IInv
<1> QED
  BY <1>1, Invariance, PTL

(* The registry holds the connected sessions and those never connected, and *)
(* no other.                                                                *)
THEOREM RegistryIsExact == Spec => []RegistryExact
<1>1. IInv => RegistryExact
  BY DEF IInv
<1> QED
  BY <1>1, Invariance, PTL

(* try_receive() never meets a session that was disconnected.               *)
THEOREM ErrorsAreReal == Spec => []NoSpuriousError
<1>1. IInv => NoSpuriousError
  BY DEF IInv, SessionsInv, SessionInv, NoSpuriousError
<1> QED
  BY <1>1, Invariance, PTL

(* accept() never meets its assertion: in the build that has it, stop()     *)
(* ends the process before it could clear started_.                         *)
THEOREM AcceptAssertHolds == Spec => []NoAcceptAssert
<1>1. IInv => NoAcceptAssert
  BY DEF IInv, AssertInv, NoAcceptAssert
<1> QED
  BY <1>1, Invariance, PTL
=============================================================================
