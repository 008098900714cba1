----------------------------- MODULE WebSession -----------------------------
(***************************************************************************)
(* One connection of the server: class WebSession of webserver.hpp and     *)
(* impl/webserver.cpp.  A session is a record; every method of the class   *)
(* is an operator from the record before the call to the record after it,  *)
(* so that a completion handler, which runs on the I/O thread without      *)
(* being interrupted by another handler, is the composition of the methods *)
(* it calls.  Choices of the kernel (does close() report an error, how     *)
(* many bytes does a write take) are parameters of the operators.          *)
(*                                                                         *)
(* Byte strings are abstracted to their lengths, a request to the verdict  *)
(* of the parser on each chunk.                                            *)
(***************************************************************************)
EXTENDS Integers

CONSTANT
  InitFlags    \* values the never initialised receiving_ and sending_ may hold

ASSUME InitFlagsAssumption == InitFlags # {} /\ InitFlags \subseteq BOOLEAN

Verdicts == {"error", "more", "finished"}

SessionState ==
  [connected : BOOLEAN,                                 \* connected_
   receiving : BOOLEAN,                                 \* receiving_
   sending   : BOOLEAN,                                 \* sending_
   main      : Nat,                                     \* send_buffer_main_.size()
   flush     : Nat,                                     \* send_buffer_flush_.size()
   offset    : Nat,                                     \* send_buffer_flush_offset
   parsed    : BOOLEAN,                                 \* parser_ is in phase finished
   sock      : {"unopened", "open", "closed"},          \* socket_
   read      : {"none", "pending", "data", "failed"},   \* the async_read_some operation
   write     : {"none", "pending", "done", "failed"},   \* the async_write_some operation
   wrote     : Nat,                                     \* bytes the write reports
   expiry    : {"none", "aborted", "ran"},              \* the wait on expire_session_t
   answers   : Nat,                                     \* requests given to the middlewares
   owed      : Nat,                                     \* bytes of all responses built
   wire      : Nat,                                     \* bytes the kernel took
   errors    : SUBSET {"not_connected", "close_failed"},  \* passed to on_error_
   peer      : {"up", "gone"},                          \* the client's end
   unread    : BOOLEAN]                                 \* client bytes not yet read

\* The fields connected and offset are not initialised either, but no method
\* reads them before connect() (line 38) and try_send() (line 298) set them.
NewSession(receiving, sending) ==
  [connected |-> FALSE, receiving |-> receiving, sending |-> sending,
   main |-> 0, flush |-> 0, offset |-> 0, parsed |-> FALSE,
   sock |-> "unopened", read |-> "none", write |-> "none", wrote |-> 0,
   expiry |-> "none", answers |-> 0, owed |-> 0, wire |-> 0, errors |-> {},
   peer |-> "up", unread |-> FALSE]

-----------------------------------------------------------------------------
(* Closing the socket aborts the operations that wait on it. *)
Closed(ss) ==
  [ss EXCEPT !.sock  = "closed",
             !.read  = IF @ = "pending" THEN "failed" ELSE @,
             !.write = IF @ = "pending" THEN "failed" ELSE @]

\* Mutant: clear_buffers() forgotten.
DisconnectKeepsBuffers(ss, closes) ==
  IF ~ss.connected THEN ss
  ELSE IF closes \/ ss.sock # "open"
       THEN [Closed(ss) EXCEPT !.connected = FALSE, !.receiving = FALSE,
                               !.sending = FALSE]
       ELSE [Closed(ss) EXCEPT !.errors = @ \cup {"close_failed"}]

(* When socket_.close(ec) reports an error the handler gives up: the socket  *)
(* is closed, the session stays connected.  Closing a closed socket succeeds. *)
Disconnect(ss, closes) ==
  IF ~ss.connected THEN ss
  ELSE IF closes \/ ss.sock # "open"
       THEN [Closed(ss) EXCEPT !.connected = FALSE, !.receiving = FALSE,
                               !.sending = FALSE, !.main = 0, !.flush = 0]
       ELSE [Closed(ss) EXCEPT !.errors = @ \cup {"close_failed"}]

TryReceive(ss) ==
  IF ss.receiving THEN ss
  ELSE IF ~ss.connected THEN [ss EXCEPT !.errors = @ \cup {"not_connected"}]
  ELSE [ss EXCEPT !.receiving = TRUE,
                  !.read = IF ss.sock = "open" THEN "pending" ELSE "failed"]

Connect(ss) == TryReceive([ss EXCEPT !.connected = TRUE])

(* async_accept has given the session the socket of a client, which may have *)
(* sent bytes or left already.                                               *)
Accepted(ss, peer, unread) ==
  [ss EXCEPT !.sock = "open", !.peer = peer, !.unread = unread]

\* Mutant: the wait is never started.
NoExpiry(ss) == ss

(* The timer is a local of the accept handler: its destructor aborts the wait *)
(* that was just started, and the wait completes with operation_aborted.      *)
StartExpiry(ss) == [ss EXCEPT !.expiry = "aborted"]

-----------------------------------------------------------------------------
SwapBuffers(ss) ==
  IF ss.flush = 0 THEN [ss EXCEPT !.flush = ss.main, !.main = 0, !.offset = 0]
                  ELSE ss

(* The kernel takes up to k of the bytes offered at once; if it takes none    *)
(* the write waits.                                                           *)
StartWrite(ss, k) ==
  LET offered == ss.flush - ss.offset
      taken   == IF ss.sock # "open" THEN 0 ELSE IF k < offered THEN k ELSE offered
  IN [ss EXCEPT !.sending = TRUE,
                !.write = IF ss.sock # "open" THEN "failed"
                          ELSE IF taken = 0 THEN "pending" ELSE "done",
                !.wrote = taken,
                !.wire = @ + taken]

TrySend(ss, k) ==
  IF ss.sending THEN ss
  ELSE LET swapped == SwapBuffers(ss)
       IN IF swapped.flush = 0 THEN swapped ELSE StartWrite(swapped, k)

SendAsync(ss, n, k) ==
  LET queued == [ss EXCEPT !.main = @ + n]
  IN IF ss.main = 0 \/ ss.flush = 0 THEN TrySend(queued, k) ELSE queued

Advance(ss, n) ==
  IF ss.offset + n = ss.flush THEN [ss EXCEPT !.flush = 0, !.offset = 0]
                              ELSE [ss EXCEPT !.offset = @ + n]

(* A failed write reports no bytes, and the handler returns on that.          *)
WriteHandler(ss, k) ==
  LET done == [ss EXCEPT !.sending = FALSE, !.write = "none", !.wrote = 0]
  IN IF ss.write = "failed" THEN done ELSE TrySend(Advance(done, ss.wrote), k)

-----------------------------------------------------------------------------
(* A finished request runs the middlewares, whose response has n bytes, and    *)
(* the session is disconnected whatever was sent.  A parser that has finished  *)
(* before returns no request.                                                  *)
Respond(ss, n, k) ==
  SendAsync([ss EXCEPT !.parsed = TRUE, !.answers = @ + 1, !.owed = @ + n], n, k)

\* Mutant: the session is kept and what comes next is answered again.
OnReceiveKeeps(ss, verdict, n, k, closes) ==
  CASE verdict = "error"    -> Disconnect(ss, closes)
    [] verdict = "more"     -> ss
    [] verdict = "finished" -> Respond(ss, n, k)

OnReceive(ss, verdict, n, k, closes) ==
  CASE ss.parsed \/ verdict = "error"     -> Disconnect(ss, closes)
    [] ~ss.parsed /\ verdict = "more"     -> ss
    [] ~ss.parsed /\ verdict = "finished" -> Disconnect(Respond(ss, n, k), closes)

ReadDone(ss) == [ss EXCEPT !.receiving = FALSE, !.read = "none"]

\* Mutant: no check of connected_ before the next read.
ReadHandlerUnchecked(ss, verdict, n, k, closes) ==
  IF ss.read = "failed" THEN Disconnect(ReadDone(ss), closes)
  ELSE TryReceive(OnReceive(ReadDone(ss), verdict, n, k, closes))

\* Mutant: no next read.
ReadHandlerOnce(ss, verdict, n, k, closes) ==
  IF ss.read = "failed" THEN Disconnect(ReadDone(ss), closes)
  ELSE OnReceive(ReadDone(ss), verdict, n, k, closes)

ReadHandler(ss, verdict, n, k, closes) ==
  IF ss.read = "failed" THEN Disconnect(ReadDone(ss), closes)
  ELSE LET served == OnReceive(ReadDone(ss), verdict, n, k, closes)
       IN IF served.connected THEN TryReceive(served) ELSE served

ExpireHandler(ss, closes) ==
  [Disconnect(ss, closes) EXCEPT !.expiry = "ran"]

(* An exception leaves on_receive with the rest of the handler undone: thrown  *)
(* by the parser, or by a middleware once a request was parsed.                *)
ReadThrows(ss, parsed) ==
  IF parsed THEN [ReadDone(ss) EXCEPT !.parsed = TRUE, !.answers = @ + 1]
            ELSE ReadDone(ss)
=============================================================================
