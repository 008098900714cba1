----------------------------- MODULE WebServer -----------------------------
(***************************************************************************)
(* The server: class WebServer of webserver.hpp and impl/webserver.cpp,    *)
(* with the sessions it owns (module WebSession), the one I/O thread that  *)
(* runs every completion handler, the user thread that calls start() and   *)
(* stop(), the kernel that completes the asynchronous operations, and the  *)
(* clients.                                                                *)
(*                                                                         *)
(* One action is one handler, run from its first to its last line: all     *)
(* handlers run on the I/O thread, where dispatch() calls its argument     *)
(* inline.  Handlers that are ready run in any order, which is all that    *)
(* asio promises.                                                          *)
(***************************************************************************)
EXTENDS Integers, WebSession

CONSTANTS
  MaxClients,      \* bound: clients that ever connect
  MaxResponse,     \* bound: bytes of a response
  AssertsEnabled   \* TRUE in the Debug build, FALSE under NDEBUG

ASSUME ServerAssumption ==
  /\ MaxClients \in Nat
  /\ MaxResponse \in Nat \ {0}
  /\ AssertsEnabled \in BOOLEAN

VARIABLES
  started,     \* started_
  ioThread,    \* context_worker_thread_: "none", "running" or "exited" (joinable)
  caller,      \* the user thread: "idle", or "joining" inside stop()
  proc,        \* "up", or what ended the process
  startOps,    \* start_handlers in the queue of io_context_
  acceptor,    \* socket_acceptor_
  accepting,   \* the session async_accept was called for, or 0
  acceptOp,    \* the state of that operation
  lastId,      \* last_session_id_
  sessions,    \* the keys of sessions_
  session,     \* every session that was ever created, by id
  reported,    \* the server errors passed to on_error_
  backlog,     \* connections waiting in the kernel's accept queue
  connects     \* clients that have connected

lifeVars   == <<started, ioThread, caller, startOps>>
acceptVars == <<acceptor, accepting, acceptOp, lastId>>
clientVars == <<backlog, connects>>
vars == <<lifeVars, proc, acceptVars, sessions, session, reported, clientVars>>

\* One session is created ahead of the client it will serve.
SessionId == 1..(MaxClients + 1)

Failures == {"dangling", "start_twice", "stop_assert", "accept_assert"}

StartErrors == {"address", "open", "bind"}

TypeOK ==
  /\ started \in BOOLEAN
  /\ ioThread \in {"none", "running", "exited"}
  /\ caller \in {"idle", "joining"}
  /\ proc \in {"up"} \cup Failures
  /\ startOps \in Nat
  /\ acceptor \in {"closed", "open", "listening"}
  /\ accepting \in SessionId \cup {0}
  /\ acceptOp \in {"none", "pending", "ok", "failed"}
  /\ lastId \in 0..(MaxClients + 1)
  /\ sessions \subseteq SessionId
  /\ session \in [SessionId -> SessionState]
  /\ reported \subseteq StartErrors \cup
                        {"accept", "server_not_started", "service_not_started"}
  /\ backlog \in 0..MaxClients
  /\ connects \in 0..MaxClients

Init ==
  /\ started = FALSE
  /\ ioThread = "none"
  /\ caller = "idle"
  /\ proc = "up"
  /\ startOps = 0
  /\ acceptor = "closed"
  /\ accepting = 0
  /\ acceptOp = "none"
  /\ lastId = 0
  /\ sessions = {}
  /\ session = [s \in SessionId |-> NewSession(FALSE, FALSE)]
  /\ reported = {}
  /\ backlog = 0
  /\ connects = 0

-----------------------------------------------------------------------------
(* start(): called again while started it fails the assertion, and under   *)
(* NDEBUG it assigns to a joinable std::thread; either ends the process.   *)
Start ==
  /\ proc = "up" /\ caller = "idle"
  /\ IF started
     THEN proc' = "start_twice" /\ UNCHANGED lifeVars
     ELSE /\ started' = TRUE
          /\ ioThread' = "running"
          /\ startOps' = startOps + 1
          /\ UNCHANGED <<caller, proc>>
  /\ UNCHANGED <<acceptVars, sessions, session, reported, clientVars>>

\* Mutant: the assertion the message of stop() describes.
StopAssertsStarted ==
  /\ proc = "up" /\ caller = "idle"
  /\ IF ~started
     THEN proc' = "stop_assert" /\ UNCHANGED <<lifeVars, reported>>
     ELSE /\ started' = FALSE
          /\ caller' = "joining"
          /\ UNCHANGED <<ioThread, startOps, proc, reported>>
  /\ UNCHANGED <<acceptVars, sessions, session, clientVars>>

(* stop(): the assertion is inverted, so with assertions enabled it ends   *)
(* the process exactly when the server is started.                         *)
Stop ==
  /\ proc = "up" /\ caller = "idle"
  /\ IF ~started
     THEN reported' = reported \cup {"service_not_started"} /\ UNCHANGED <<lifeVars, proc>>
     ELSE IF AssertsEnabled
     THEN proc' = "stop_assert" /\ UNCHANGED <<lifeVars, reported>>
     ELSE /\ started' = FALSE
          /\ caller' = "joining"
          /\ UNCHANGED <<ioThread, startOps, proc, reported>>
  /\ UNCHANGED <<acceptVars, sessions, session, clientVars>>

(* join() returns when context_handler has: that takes an exception, since *)
(* io_context::run() never returns while the work object exists.           *)
StopReturns ==
  /\ proc = "up" /\ caller = "joining" /\ ioThread = "exited"
  /\ caller' = "idle"
  /\ ioThread' = "none"
  /\ UNCHANGED <<started, startOps, proc, acceptVars, sessions, session,
                 reported, clientVars>>

-----------------------------------------------------------------------------
IoRuns == proc = "up" /\ ioThread = "running"

(* accept(), called by a handler that leaves the session table at "table": *)
(* it creates and registers the session the next client will get.          *)
Accept(table) ==
  IF started
  THEN /\ lastId' = lastId + 1
       /\ accepting' = lastId + 1
       /\ acceptOp' = "pending"
       /\ sessions' = sessions \cup {lastId + 1}
       /\ \E receiving, sending \in InitFlags :
            session' = [table EXCEPT ![lastId + 1] = NewSession(receiving, sending)]
       /\ UNCHANGED <<proc, reported>>
  ELSE /\ accepting' = 0
       /\ acceptOp' = "none"
       /\ session' = table
       /\ proc' = IF AssertsEnabled THEN "accept_assert" ELSE proc
       /\ reported' = IF AssertsEnabled THEN reported
                                        ELSE reported \cup {"server_not_started"}
       /\ UNCHANGED <<lastId, sessions>>

(* start_handler.  Each of its steps may fail; an error leaves started_     *)
(* set, an exception from listen() ends the I/O thread.  After a restart    *)
(* the acceptor is open already and open() fails.                           *)
StartFails ==
  /\ IoRuns /\ startOps > 0
  /\ startOps' = startOps - 1
  /\ \E error \in StartErrors :
       /\ error = "bind" => acceptor = "closed"
       /\ reported' = reported \cup {error}
       /\ acceptor' = IF error = "bind" THEN "open" ELSE acceptor
  /\ UNCHANGED <<started, ioThread, caller, proc, accepting, acceptOp, lastId,
                 sessions, session, clientVars>>

ListenThrows ==
  /\ IoRuns /\ startOps > 0 /\ acceptor = "closed"
  /\ startOps' = startOps - 1
  /\ acceptor' = "open"
  /\ ioThread' = "exited"
  /\ UNCHANGED <<started, caller, proc, accepting, acceptOp, lastId, sessions,
                 session, reported, clientVars>>

Listen ==
  /\ IoRuns /\ startOps > 0 /\ acceptor = "closed"
  /\ startOps' = startOps - 1
  /\ acceptor' = "listening"
  /\ Accept(session)
  /\ UNCHANGED <<started, ioThread, caller, clientVars>>

-----------------------------------------------------------------------------
(* The kernel completes the accept; it may find the client gone already.    *)
AcceptCompletes ==
  /\ proc = "up" /\ acceptOp = "pending" /\ backlog > 0
  /\ acceptOp' = "ok"
  /\ backlog' = backlog - 1
  /\ \E peer \in {"up", "gone"}, unread \in BOOLEAN :
       session' = [session EXCEPT ![accepting] = Accepted(@, peer, unread)]
  /\ UNCHANGED <<lifeVars, proc, acceptor, accepting, lastId, sessions, reported,
                 connects>>

(* Or fails it, for want of a file descriptor.                               *)
AcceptFails ==
  /\ proc = "up" /\ acceptOp = "pending" /\ backlog > 0
  /\ acceptOp' = "failed"
  /\ UNCHANGED <<lifeVars, proc, acceptor, accepting, lastId, sessions, session,
                 reported, clientVars>>

\* Mutant: an accept that failed is repeated at once.
AcceptErrorRetries ==
  /\ IoRuns /\ acceptOp = "failed"
  /\ Accept(session)
  /\ UNCHANGED <<lifeVars, acceptor, clientVars>>

(* async_accept_handler on an error: it returns before the next accept().    *)
AcceptError ==
  /\ IoRuns /\ acceptOp = "failed"
  /\ accepting' = 0
  /\ acceptOp' = "none"
  /\ reported' = reported \cup {"accept"}
  /\ UNCHANGED <<lifeVars, proc, acceptor, lastId, sessions, session, clientVars>>

(* connect() sets and reads socket options with the throwing overloads.      *)
ConnectThrows ==
  /\ IoRuns /\ acceptOp = "ok" /\ session[accepting].peer = "gone"
  /\ accepting' = 0
  /\ acceptOp' = "none"
  /\ ioThread' = "exited"
  /\ UNCHANGED <<started, caller, startOps, proc, acceptor, lastId, sessions,
                 session, reported, clientVars>>

\* Mutant: no next accept.
AcceptHandlerOnce ==
  /\ IoRuns /\ acceptOp = "ok"
  /\ session' = [session EXCEPT ![accepting] = StartExpiry(Connect(@))]
  /\ accepting' = 0
  /\ acceptOp' = "none"
  /\ UNCHANGED <<lifeVars, proc, acceptor, lastId, sessions, reported, clientVars>>

(* async_accept_handler: the session connects, its expiry starts, and the    *)
(* next accept is armed.                                                     *)
AcceptHandler ==
  /\ IoRuns /\ acceptOp = "ok"
  /\ Accept([session EXCEPT ![accepting] = StartExpiry(Connect(@))])
  /\ UNCHANGED <<lifeVars, acceptor, clientVars>>

-----------------------------------------------------------------------------
(* Who holds a shared_ptr to the session: sessions_, the accept handler, the *)
(* handler of the wait, and the handler of a write.  The read handler holds  *)
(* only `this`.                                                              *)
Held(s, ss, registered) ==
  \/ s \in registered
  \/ accepting = s
  \/ ss.expiry = "aborted"
  \/ ss.write # "none"

Alive(s) == Held(s, session[s], sessions)

\* Mutant: a session whose close() failed is unregistered too.
UnregisteredOnClose(s, ss) ==
  IF session[s].sock = "open" /\ ss.sock = "closed" THEN sessions \ {s} ELSE sessions

(* A handler that took session s to ss has called unregister_session() if    *)
(* and only if disconnect() got that far.                                    *)
Registered(s, ss) ==
  IF session[s].connected /\ ~ss.connected THEN sessions \ {s} ELSE sessions

HandlerOf(s, ss) ==
  /\ session' = [session EXCEPT ![s] = ss]
  /\ sessions' = Registered(s, ss)
  /\ UNCHANGED <<lifeVars, acceptVars, reported, clientVars>>

(* The kernel completes a read with bytes, or fails it once the client left. *)
ReadCompletes(s) ==
  /\ proc = "up" /\ session[s].read = "pending"
  /\ \/ /\ session[s].unread
        /\ session' = [session EXCEPT ![s].read = "data", ![s].unread = FALSE]
     \/ /\ session[s].peer = "gone"
        /\ session' = [session EXCEPT ![s].read = "failed"]
  /\ UNCHANGED <<lifeVars, proc, acceptVars, sessions, reported, clientVars>>

(* The read handler.  After on_receive() it goes on to use the session, whose *)
(* last owner may be gone by then: undefined behaviour.                       *)
ReceiveHandler(s) ==
  /\ IoRuns /\ session[s].read \in {"data", "failed"} /\ Alive(s)
  /\ \E verdict \in Verdicts, n \in 1..MaxResponse, k \in 0..MaxResponse,
        closes \in BOOLEAN :
       LET after == ReadHandler(session[s], verdict, n, k, closes)
       IN /\ HandlerOf(s, after)
          /\ \/ proc' = proc
             \/ /\ session[s].read = "data"
                /\ ~Held(s, after, Registered(s, after))
                /\ proc' = "dangling"

(* The parser throws (module HttpParser), or a middleware or the matching of  *)
(* the routes does.                                                           *)
ReceiveThrows(s) ==
  /\ IoRuns /\ session[s].read = "data" /\ ~session[s].parsed /\ Alive(s)
  /\ \E parsed \in BOOLEAN : session' = [session EXCEPT ![s] = ReadThrows(@, parsed)]
  /\ ioThread' = "exited"
  /\ UNCHANGED <<started, caller, startOps, proc, acceptVars, sessions, reported,
                 clientVars>>

(* The read handler of a destroyed session is undefined behaviour: it may     *)
(* find the old memory intact and return from disconnect(), or crash.         *)
DanglingReceive(s) ==
  /\ IoRuns /\ session[s].read \in {"data", "failed"} /\ ~Alive(s)
  /\ session' = [session EXCEPT ![s].read = "none"]
  /\ proc' \in {proc, "dangling"}
  /\ UNCHANGED <<lifeVars, acceptVars, sessions, reported, clientVars>>

SendHandler(s) ==
  /\ IoRuns /\ session[s].write \in {"done", "failed"}
  /\ \E k \in 0..MaxResponse : HandlerOf(s, WriteHandler(session[s], k))
  /\ UNCHANGED proc

ExpirySession(s) ==
  /\ IoRuns /\ session[s].expiry = "aborted"
  /\ \E closes \in BOOLEAN : HandlerOf(s, ExpireHandler(session[s], closes))
  /\ UNCHANGED proc

-----------------------------------------------------------------------------
ClientConnects ==
  /\ proc = "up" /\ acceptor = "listening" /\ connects < MaxClients
  /\ connects' = connects + 1
  /\ backlog' = backlog + 1
  /\ UNCHANGED <<lifeVars, proc, acceptVars, sessions, session, reported>>

ClientSends(s) ==
  /\ proc = "up" /\ session[s].sock = "open" /\ session[s].peer = "up"
  /\ session' = [session EXCEPT ![s].unread = TRUE]
  /\ UNCHANGED <<lifeVars, proc, acceptVars, sessions, reported, clientVars>>

ClientLeaves(s) ==
  /\ proc = "up" /\ session[s].sock = "open"
  /\ session' = [session EXCEPT ![s].peer = "gone"]
  /\ UNCHANGED <<lifeVars, proc, acceptVars, sessions, reported, clientVars>>

-----------------------------------------------------------------------------
User == Start \/ Stop \/ StopReturns

StartHandler == StartFails \/ ListenThrows \/ Listen

AcceptDone == AcceptError \/ ConnectThrows \/ AcceptHandler

SessionHandler(s) ==
  \/ ReceiveHandler(s)
  \/ ReceiveThrows(s)
  \/ DanglingReceive(s)
  \/ SendHandler(s)
  \/ ExpirySession(s)

Client(s) == ClientSends(s) \/ ClientLeaves(s)

Next ==
  \/ User
  \/ StartHandler
  \/ AcceptCompletes
  \/ AcceptFails
  \/ AcceptDone
  \/ ClientConnects
  \/ \E s \in SessionId : ReadCompletes(s) \/ SessionHandler(s) \/ Client(s)

Spec == Init /\ [][Next]_vars

(* A running io_context runs every handler that is ready: its queue starves *)
(* none.  The kernel completes a read that has bytes or whose client left,  *)
(* and an accept somebody waits for.  Clients and the user owe nothing.     *)
SessionFairness(s) ==
  /\ WF_vars(ReadCompletes(s))
  /\ WF_vars(ReceiveHandler(s) \/ ReceiveThrows(s) \/ DanglingReceive(s))
  /\ WF_vars(SendHandler(s))
  /\ WF_vars(ExpirySession(s))

Fairness ==
  /\ WF_vars(StartHandler)
  /\ WF_vars(AcceptCompletes)
  /\ WF_vars(AcceptDone)
  /\ WF_vars(StopReturns)
  /\ \A s \in SessionId : SessionFairness(s)

FairSpec == Spec /\ Fairness

-----------------------------------------------------------------------------
(* Properties *)

(* A connected session is always in the registry, and a session that was     *)
(* connected once is in it only while it still is: disconnect(), the expiry  *)
(* of the session and a failing close() together neither leak a session nor  *)
(* unregister one that goes on.                                              *)
RegistryExact ==
  \A s \in SessionId :
    /\ session[s].connected => s \in sessions
    /\ s \in sessions /\ session[s].expiry # "none" => session[s].connected

(* After disconnect() nothing of the session is under way: no operation      *)
(* waits on the closed socket, no byte is left in its buffers, and neither   *)
(* receiving_ nor sending_ is left set, however the read, write and expiry   *)
(* handlers were interleaved.                                                *)
DisconnectedIsQuiet ==
  \A s \in SessionId :
    session[s].expiry # "none" /\ ~session[s].connected =>
      /\ session[s].sock = "closed"
      /\ session[s].read # "pending" /\ session[s].write # "pending"
      /\ session[s].main = 0 /\ session[s].flush = 0
      /\ ~session[s].receiving /\ ~session[s].sending

(* try_receive() is never called on a session that was disconnected, as the  *)
(* check at the end of the read handler (webserver.cpp:164) intends.         *)
NoSpuriousError ==
  \A s \in SessionId : "not_connected" \notin session[s].errors

(* While the server is started and listens it also waits for the next        *)
(* client, unless an accept failed or connect() threw (a registered session  *)
(* that never connected is what is left of that), or accept() was reached    *)
(* after stop().                                                             *)
Lost == {s \in sessions : accepting # s /\ ~session[s].connected}

AcceptLoopArmed ==
  started /\ acceptor = "listening" /\ Lost = {}
    /\ "server_not_started" \notin reported => accepting # 0

(* A connected session whose flags started out clear always has a read under *)
(* way: no sequence of partial requests leaves it deaf.  Once a close()      *)
(* failed under the read handler, the handler of the expiry is still to come *)
(* and closes it.  (A session whose handler threw is not read again; nor is  *)
(* anything else, the I/O thread having ended.)                              *)
ReadArmed ==
  \A s \in SessionId :
    ioThread = "running" /\ session[s].connected /\ ~session[s].parsed =>
      \/ session[s].read # "none"
      \/ session[s].sock = "closed" /\ session[s].expiry = "aborted"

(* accept() never meets its assertion (webserver.cpp:446).                   *)
NoAcceptAssert == proc # "accept_assert"

(* The connections behave as ConnectionService says: taken in order, never   *)
(* reopened, answered at most once and only while open.                      *)
Phase ==
  [s \in SessionId |->
     IF s > lastId THEN "absent"
     ELSE IF s \notin sessions THEN "closed"
     ELSE IF s = accepting THEN "listening"
     ELSE IF session[s].connected THEN "open" ELSE "lost"]

Answers == [s \in SessionId |-> session[s].answers]

Service == INSTANCE ConnectionService
             WITH Id <- SessionId, phase <- Phase, answers <- Answers

ServiceSpec == Service!Spec

Down == proc # "up" \/ ioThread # "running"

(* Every connected session is disconnected in the end, even if its client    *)
(* stays and says nothing, which is what the expiry is for, and even if the  *)
(* first attempt to close its socket fails.                                  *)
SessionsEnd ==
  \A s \in SessionId :
    session[s].connected ~> (~session[s].connected \/ Down)

(* Clients that wait are accepted, unless the server was stopped or its      *)
(* accept loop was lost.                                                     *)
ClientsAccepted ==
  backlog > 0 ~> (backlog = 0 \/ Down \/ ~started \/ Lost # {}
                    \/ "server_not_started" \in reported)

(* Line 486, "Expire session": the handler of the 15 s wait disconnects a    *)
(* session only when the wait ran out, not when it was aborted.              *)
ExpiryRunsOut ==
  [][\A s \in SessionId :
       session[s].expiry = "aborted" /\ session'[s].expiry = "ran" =>
         session'[s].connected = session[s].connected]_vars

(* Lines 164-166, "we manually disconnect the client, so return": the read   *)
(* handler of a session that was disconnected elsewhere still finds its      *)
(* session.                                                                  *)
HandlersFindSession ==
  \A s \in SessionId : session[s].read \in {"data", "failed"} => Alive(s)

(* Line 334, "Successfully send the whole flush buffer": a session is not    *)
(* disconnected with part of its response unsent while its client is there.  *)
ResponseDelivered ==
  \A s \in SessionId :
    session[s].answers > 0 /\ ~session[s].connected
      /\ session[s].peer = "up" /\ ~session[s].sending =>
        session[s].wire = session[s].owed

(* Lines 516-517: stop() joins the I/O thread and returns.                   *)
StopEnds == caller = "joining" ~> caller = "idle"
=============================================================================
