-------------------------- MODULE WebSessionProofs --------------------------
(***************************************************************************)
(* What the methods of a session keep true, for every number of bytes and  *)
(* every value the uninitialised flags may hold.                           *)
(***************************************************************************)
EXTENDS WebSession, TLAPS

(* The part of the flush buffer that was sent, and what a completed write  *)
(* will add to it, lie inside the buffer; a cleared buffer keeps its old   *)
(* offset until the next swap.                                             *)
OffsetInRange(ss) == ss.flush = 0 \/ ss.offset + ss.wrote <= ss.flush

SessionInv(ss) ==
  /\ ss \in SessionState
  /\ OffsetInRange(ss)
  /\ "not_connected" \notin ss.errors

(* A method neither connects a session nor touches its expiry.             *)
Keeps(ss, tt) ==
  /\ SessionInv(tt)
  /\ tt.connected => ss.connected
  /\ tt.expiry = ss.expiry

(* The counters of a session are natural numbers.                          *)
LEMMA Counts ==
  ASSUME NEW ss \in SessionState
  PROVE  /\ ss.main \in Nat /\ ss.flush \in Nat /\ ss.offset \in Nat
         /\ ss.wrote \in Nat /\ ss.answers \in Nat /\ ss.owed \in Nat /\ ss.wire \in Nat
BY DEF SessionState

(* A new session satisfies the invariant, is not connected and has no expiry.*)
LEMMA NewSessionInv ==
  ASSUME NEW receiving \in BOOLEAN, NEW sending \in BOOLEAN
  PROVE  LET ss == NewSession(receiving, sending)
         IN SessionInv(ss) /\ ~ss.connected /\ ss.expiry = "none"
BY DEF NewSession, SessionInv, SessionState, OffsetInRange

(* Aborting the operations of a closed socket touches nothing the invariant needs.*)
LEMMA ClosedKeeps ==
  ASSUME NEW ss, SessionInv(ss)
  PROVE  Keeps(ss, Closed(ss)) /\ Closed(ss).connected = ss.connected
BY DEF Closed, Keeps, SessionInv, SessionState, OffsetInRange

(* disconnect() keeps the invariant, and never connects a session.         *)
LEMMA DisconnectKeeps ==
  ASSUME NEW ss, SessionInv(ss), NEW closes \in BOOLEAN
  PROVE  Keeps(ss, Disconnect(ss, closes))
<1> DEFINE cc == Closed(ss)
<1>1. Keeps(ss, cc)
  BY ClosedKeeps
<1>2. Disconnect(ss, closes) \in
        {ss,
         [cc EXCEPT !.connected = FALSE, !.receiving = FALSE, !.sending = FALSE,
                    !.main = 0, !.flush = 0],
         [cc EXCEPT !.errors = @ \cup {"close_failed"}]}
  BY DEF Disconnect
<1> HIDE DEF cc
<1>3. Keeps(ss, [cc EXCEPT !.connected = FALSE, !.receiving = FALSE, !.sending = FALSE,
                           !.main = 0, !.flush = 0])
  BY <1>1 DEF Keeps, SessionInv, SessionState, OffsetInRange
<1>4. Keeps(ss, [cc EXCEPT !.errors = @ \cup {"close_failed"}])
  BY <1>1 DEF Keeps, SessionInv, SessionState, OffsetInRange
<1>5. Keeps(ss, ss)
  BY DEF Keeps
<1> QED
  BY <1>2, <1>3, <1>4, <1>5

(* try_receive() keeps the invariant if it is called on a connected session.*)
LEMMA TryReceiveKeeps ==
  ASSUME NEW ss, SessionInv(ss), ss.connected
  PROVE  Keeps(ss, TryReceive(ss)) /\ TryReceive(ss).connected
<1>1. TryReceive(ss) \in
        {ss,
         [ss EXCEPT !.receiving = TRUE, !.read = "pending"],
         [ss EXCEPT !.receiving = TRUE, !.read = "failed"]}
  BY DEF TryReceive
<1>2. ASSUME NEW read \in {"pending", "failed"}
      PROVE  LET tt == [ss EXCEPT !.receiving = TRUE, !.read = read]
             IN Keeps(ss, tt) /\ tt.connected
  BY DEF Keeps, SessionInv, SessionState, OffsetInRange
<1>3. Keeps(ss, ss)
  BY DEF Keeps
<1> QED
  BY <1>1, <1>2, <1>3

(* The buffers after the swap hold what is to be written.                  *)
LEMMA SwapBuffersType ==
  ASSUME NEW ss, SessionInv(ss)
  PROVE  LET tt == SwapBuffers(ss)
         IN /\ tt \in SessionState
            /\ tt.flush # 0 => tt.offset <= tt.flush
            /\ tt.errors = ss.errors
            /\ tt.connected = ss.connected
            /\ tt.expiry = ss.expiry
<1> USE DEF SessionInv
<1>1. CASE ss.flush = 0
  <2> DEFINE tt == [ss EXCEPT !.flush = ss.main, !.main = 0, !.offset = 0]
  <2>1. SwapBuffers(ss) = tt
    BY <1>1 DEF SwapBuffers
  <2>2. tt \in SessionState
    BY DEF SessionInv, SessionState
  <2>3. /\ tt.offset = 0 /\ tt.errors = ss.errors
        /\ tt.connected = ss.connected /\ tt.expiry = ss.expiry
    BY DEF SessionInv, SessionState
  <2> HIDE DEF tt
  <2> QED
    BY <2>1, <2>2, <2>3, Counts
<1>2. CASE ss.flush # 0
  BY <1>2 DEF SwapBuffers, SessionInv, SessionState, OffsetInRange
<1> QED
  BY <1>1, <1>2

(* A write never takes more than the flush buffer still holds.             *)
LEMMA StartWriteKeeps ==
  ASSUME NEW ss \in SessionState, ss.offset <= ss.flush,
         "not_connected" \notin ss.errors, NEW k \in Nat
  PROVE  Keeps(ss, StartWrite(ss, k))
<1> DEFINE offered == ss.flush - ss.offset
           taken == IF ss.sock # "open" THEN 0 ELSE IF k < offered THEN k ELSE offered
           write == IF ss.sock # "open" THEN "failed"
                    ELSE IF taken = 0 THEN "pending" ELSE "done"
           tt == [ss EXCEPT !.sending = TRUE, !.write = write, !.wrote = taken,
                            !.wire = @ + taken]
<1>1. taken \in Nat /\ ss.offset + taken <= ss.flush
  BY Counts
<1>2. write \in {"none", "pending", "done", "failed"}
  OBVIOUS
<1>3. StartWrite(ss, k) = tt
  BY DEF StartWrite
<1> HIDE DEF taken, write
<1>4. ss.wire + taken \in Nat
  BY <1>1, Counts
<1>5. tt \in SessionState
  BY <1>1, <1>2, <1>4 DEF SessionState
<1>6. /\ tt.flush = ss.flush /\ tt.offset = ss.offset /\ tt.wrote = taken
      /\ tt.errors = ss.errors /\ tt.connected = ss.connected
      /\ tt.expiry = ss.expiry
  BY DEF SessionState
<1> QED
  BY <1>1, <1>3, <1>5, <1>6 DEF Keeps, SessionInv, OffsetInRange

(* try_send() keeps the offset inside the flush buffer.                    *)
LEMMA TrySendKeeps ==
  ASSUME NEW ss, SessionInv(ss), NEW k \in Nat
  PROVE  Keeps(ss, TrySend(ss, k))
<1> DEFINE tt == SwapBuffers(ss)
<1>1. /\ tt \in SessionState
      /\ tt.flush # 0 => tt.offset <= tt.flush
      /\ tt.errors = ss.errors
      /\ tt.connected = ss.connected
      /\ tt.expiry = ss.expiry
  BY SwapBuffersType
<1>2. TrySend(ss, k) = IF ss.sending THEN ss
                       ELSE IF tt.flush = 0 THEN tt ELSE StartWrite(tt, k)
  BY DEF TrySend
<1> HIDE DEF tt
<1>3. Keeps(ss, ss)
  BY DEF Keeps
<1>4. tt.flush = 0 => Keeps(ss, tt)
  BY <1>1 DEF Keeps, SessionInv, OffsetInRange
<1>5. tt.flush # 0 => Keeps(ss, StartWrite(tt, k))
  BY <1>1, StartWriteKeeps DEF Keeps, SessionInv
<1> QED
  BY <1>2, <1>3, <1>4, <1>5

(* So does send_async(), which may call try_send() inline.                 *)
LEMMA SendAsyncKeeps ==
  ASSUME NEW ss, SessionInv(ss), NEW n \in Nat, NEW k \in Nat
  PROVE  Keeps(ss, SendAsync(ss, n, k))
<1> DEFINE queued == [ss EXCEPT !.main = @ + n]
<1>1. Keeps(ss, queued)
  BY DEF Keeps, SessionInv, SessionState, OffsetInRange
<1>2. SendAsync(ss, n, k) \in {TrySend(queued, k), queued}
  BY DEF SendAsync
<1> HIDE DEF queued
<1>3. Keeps(ss, TrySend(queued, k))
  BY <1>1, TrySendKeeps DEF Keeps
<1> QED
  BY <1>1, <1>2, <1>3

(* The write handler advances the offset by no more than what was written. *)
LEMMA WriteHandlerKeeps ==
  ASSUME NEW ss, SessionInv(ss), NEW k \in Nat
  PROVE  Keeps(ss, WriteHandler(ss, k))
<1> DEFINE done == [ss EXCEPT !.sending = FALSE, !.write = "none", !.wrote = 0]
           cleared == [done EXCEPT !.flush = 0, !.offset = 0]
           moved == [done EXCEPT !.offset = @ + ss.wrote]
<1>1. ss.offset + ss.wrote \in Nat
  BY Counts DEF SessionInv
<1>2. done \in SessionState /\ cleared \in SessionState /\ moved \in SessionState
  BY <1>1 DEF SessionInv, SessionState
<1>3. \A tt \in {done, cleared, moved} :
        /\ tt.errors = ss.errors /\ tt.connected = ss.connected
        /\ tt.expiry = ss.expiry /\ tt.wrote = 0
  BY DEF SessionInv, SessionState
<1>4. /\ done.flush = ss.flush /\ done.offset = ss.offset /\ cleared.flush = 0
      /\ moved.flush = ss.flush /\ moved.offset = ss.offset + ss.wrote
  BY DEF SessionInv, SessionState
<1>5. Keeps(ss, done)
  BY <1>2, <1>3, <1>4, Counts DEF Keeps, SessionInv, OffsetInRange
<1>6. Keeps(ss, cleared)
  BY <1>2, <1>3, <1>4 DEF Keeps, SessionInv, OffsetInRange
<1>7. Keeps(ss, moved)
  BY <1>1, <1>2, <1>3, <1>4, Counts DEF Keeps, SessionInv, OffsetInRange
<1>8. Advance(done, ss.wrote) \in {cleared, moved}
  BY DEF Advance
<1>9. WriteHandler(ss, k) \in {done, TrySend(Advance(done, ss.wrote), k)}
  BY DEF WriteHandler
<1> HIDE DEF done, cleared, moved
<1>10. Keeps(ss, TrySend(cleared, k)) /\ Keeps(ss, TrySend(moved, k))
  BY <1>6, <1>7, TrySendKeeps DEF Keeps
<1> QED
  BY <1>5, <1>8, <1>9, <1>10

(* Running the middlewares and sending the response keep the invariant.    *)
LEMMA RespondKeeps ==
  ASSUME NEW ss, SessionInv(ss), NEW n \in Nat, NEW k \in Nat
  PROVE  Keeps(ss, Respond(ss, n, k))
<1> DEFINE tt == [ss EXCEPT !.parsed = TRUE, !.answers = @ + 1, !.owed = @ + n]
<1>1. ss.answers + 1 \in Nat /\ ss.owed + n \in Nat
  BY Counts DEF SessionInv
<1>2. tt \in SessionState
  BY <1>1 DEF SessionInv, SessionState
<1>3. /\ tt.flush = ss.flush /\ tt.offset = ss.offset /\ tt.wrote = ss.wrote
      /\ tt.errors = ss.errors /\ tt.connected = ss.connected
      /\ tt.expiry = ss.expiry
  BY DEF SessionInv, SessionState
<1>4. Keeps(ss, tt)
  BY <1>2, <1>3 DEF Keeps, SessionInv, OffsetInRange
<1>5. Respond(ss, n, k) = SendAsync(tt, n, k)
  BY DEF Respond
<1> HIDE DEF tt
<1> QED
  BY <1>4, <1>5, SendAsyncKeeps DEF Keeps

(* on_receive() keeps it, whatever the parser says of the chunk.           *)
LEMMA OnReceiveIsKept ==
  ASSUME NEW ss, SessionInv(ss), NEW verdict \in Verdicts, NEW n \in Nat,
         NEW k \in Nat, NEW closes \in BOOLEAN
  PROVE  Keeps(ss, OnReceive(ss, verdict, n, k, closes))
<1>1. Keeps(ss, ss)
  BY DEF Keeps
<1>2. Keeps(ss, Disconnect(ss, closes))
  BY DisconnectKeeps
<1>3. Keeps(ss, Disconnect(Respond(ss, n, k), closes))
  BY RespondKeeps, DisconnectKeeps DEF Keeps
<1>4. OnReceive(ss, verdict, n, k, closes) \in
        {ss, Disconnect(ss, closes), Disconnect(Respond(ss, n, k), closes)}
  BY DEF OnReceive, Verdicts
<1> QED
  BY <1>1, <1>2, <1>3, <1>4

(* Clearing receiving_ keeps it.                                           *)
LEMMA ReadDoneKeeps ==
  ASSUME NEW ss, SessionInv(ss)
  PROVE  Keeps(ss, ReadDone(ss)) /\ ReadDone(ss).connected = ss.connected
BY DEF ReadDone, Keeps, SessionInv, SessionState, OffsetInRange

(* The read handler calls try_receive() on a connected session only.       *)
LEMMA ReadHandlerKeeps ==
  ASSUME NEW ss, SessionInv(ss), NEW verdict \in Verdicts, NEW n \in Nat,
         NEW k \in Nat, NEW closes \in BOOLEAN
  PROVE  Keeps(ss, ReadHandler(ss, verdict, n, k, closes))
<1> DEFINE done == ReadDone(ss)
           served == OnReceive(done, verdict, n, k, closes)
<1>1. Keeps(ss, done)
  BY ReadDoneKeeps
<1>2. Keeps(ss, Disconnect(done, closes))
  BY <1>1, DisconnectKeeps DEF Keeps
<1>3. Keeps(ss, served)
  BY <1>1, OnReceiveIsKept DEF Keeps
<1>4. served.connected => Keeps(ss, TryReceive(served))
  BY <1>3, TryReceiveKeeps DEF Keeps
<1>5. ReadHandler(ss, verdict, n, k, closes) =
        IF ss.read = "failed" THEN Disconnect(done, closes)
        ELSE IF served.connected THEN TryReceive(served) ELSE served
  BY DEF ReadHandler
<1> QED
  BY <1>2, <1>3, <1>4, <1>5

(* A read handler left by an exception keeps it too.                       *)
LEMMA ReadThrowsKeeps ==
  ASSUME NEW ss, SessionInv(ss), NEW parsed \in BOOLEAN
  PROVE  /\ Keeps(ss, ReadThrows(ss, parsed))
         /\ ReadThrows(ss, parsed).connected = ss.connected
<1> DEFINE done == ReadDone(ss)
<1>1. Keeps(ss, done) /\ done.connected = ss.connected
  BY ReadDoneKeeps
<1> DEFINE tt == [done EXCEPT !.parsed = TRUE, !.answers = @ + 1]
<1>2. ReadThrows(ss, parsed) = IF parsed THEN tt ELSE done
  BY DEF ReadThrows
<1> HIDE DEF done
<1>3. done.answers + 1 \in Nat
  BY <1>1, Counts DEF Keeps, SessionInv
<1>4. tt \in SessionState
  BY <1>1, <1>3 DEF Keeps, SessionInv, SessionState
<1>5. /\ tt.flush = done.flush /\ tt.offset = done.offset /\ tt.wrote = done.wrote
      /\ tt.errors = done.errors /\ tt.connected = done.connected
      /\ tt.expiry = done.expiry
  BY <1>1 DEF Keeps, SessionInv, SessionState
<1>6. Keeps(ss, tt) /\ tt.connected = ss.connected
  BY <1>1, <1>4, <1>5 DEF Keeps, SessionInv, OffsetInRange
<1> QED
  BY <1>1, <1>2, <1>6

(* The handlers of the expiry and of the accept.                           *)
LEMMA ExpireHandlerKeeps ==
  ASSUME NEW ss, SessionInv(ss), NEW closes \in BOOLEAN
  PROVE  LET tt == ExpireHandler(ss, closes)
         IN SessionInv(tt) /\ (tt.connected => ss.connected)
<1> DEFINE tt == Disconnect(ss, closes)
<1>1. Keeps(ss, tt)
  BY DisconnectKeeps
<1>2. ExpireHandler(ss, closes) = [tt EXCEPT !.expiry = "ran"]
  BY DEF ExpireHandler
<1> HIDE DEF tt
<1> QED
  BY <1>1, <1>2 DEF Keeps, SessionInv, SessionState, OffsetInRange

(* What the kernel and the client do to the socket.                        *)
LEMMA OutsideKeeps ==
  ASSUME NEW ss, SessionInv(ss)
  PROVE  /\ Keeps(ss, [ss EXCEPT !.read = "data", !.unread = FALSE])
         /\ [ss EXCEPT !.read = "data", !.unread = FALSE].connected = ss.connected
         /\ Keeps(ss, [ss EXCEPT !.read = "failed"])
         /\ [ss EXCEPT !.read = "failed"].connected = ss.connected
         /\ Keeps(ss, [ss EXCEPT !.read = "none"])
         /\ [ss EXCEPT !.read = "none"].connected = ss.connected
         /\ Keeps(ss, [ss EXCEPT !.unread = TRUE])
         /\ [ss EXCEPT !.unread = TRUE].connected = ss.connected
         /\ Keeps(ss, [ss EXCEPT !.peer = "gone"])
         /\ [ss EXCEPT !.peer = "gone"].connected = ss.connected
<1>1. Keeps(ss, [ss EXCEPT !.read = "data", !.unread = FALSE]) /\ [ss EXCEPT !.read = "data", !.unread = FALSE].connected = ss.connected
  BY DEF Keeps, SessionInv, SessionState, OffsetInRange
<1>2. Keeps(ss, [ss EXCEPT !.read = "failed"]) /\ [ss EXCEPT !.read = "failed"].connected = ss.connected
  BY DEF Keeps, SessionInv, SessionState, OffsetInRange
<1>3. Keeps(ss, [ss EXCEPT !.read = "none"]) /\ [ss EXCEPT !.read = "none"].connected = ss.connected
  BY DEF Keeps, SessionInv, SessionState, OffsetInRange
<1>4. Keeps(ss, [ss EXCEPT !.unread = TRUE]) /\ [ss EXCEPT !.unread = TRUE].connected = ss.connected
  BY DEF Keeps, SessionInv, SessionState, OffsetInRange
<1>5. Keeps(ss, [ss EXCEPT !.peer = "gone"]) /\ [ss EXCEPT !.peer = "gone"].connected = ss.connected
  BY DEF Keeps, SessionInv, SessionState, OffsetInRange
<1> QED
  BY <1>1, <1>2, <1>3, <1>4, <1>5

(* The socket of a client changes nothing else of the session.             *)
LEMMA AcceptedKeeps ==
  ASSUME NEW ss, SessionInv(ss), NEW peer \in {"up", "gone"}, NEW unread \in BOOLEAN
  PROVE  /\ Keeps(ss, Accepted(ss, peer, unread))
         /\ Accepted(ss, peer, unread).connected = ss.connected
BY DEF Accepted, Keeps, SessionInv, SessionState, OffsetInRange

(* connect() followed by the start of the expiry.                          *)
LEMMA ConnectInv ==
  ASSUME NEW ss, SessionInv(ss)
  PROVE  LET tt == StartExpiry(Connect(ss))
         IN SessionInv(tt) /\ tt.connected /\ tt.expiry = "aborted"
<1> DEFINE on == [ss EXCEPT !.connected = TRUE]
           tt == TryReceive(on)
<1>1. SessionInv(on) /\ on.connected
  BY DEF SessionInv, SessionState, OffsetInRange
<1>2. Connect(ss) = tt
  BY DEF Connect
<1> HIDE DEF on
<1>3. SessionInv(tt) /\ tt.connected
  BY <1>1, TryReceiveKeeps DEF Keeps
<1>4. StartExpiry(Connect(ss)) = [tt EXCEPT !.expiry = "aborted"]
  BY <1>2 DEF StartExpiry
<1> HIDE DEF tt
<1> QED
  BY <1>3, <1>4 DEF SessionInv, SessionState, OffsetInRange

-----------------------------------------------------------------------------
(***************************************************************************)
(* The life of a session: fresh, connected, disconnected.  What every      *)
(* method leaves of it, for every number of bytes, every verdict of the    *)
(* parser and whether or not a close() reports an error.                   *)
(***************************************************************************)

(* A session that no accept handler has connected yet.                     *)
Fresh(ss) ==
  /\ ~ss.connected
  /\ ss.sock # "closed" /\ ss.read = "none" /\ ss.write = "none"
  /\ ss.main = 0 /\ ss.flush = 0
  /\ ~ss.parsed

(* A session of which nothing is under way.                                *)
Quiet(ss) ==
  /\ ss.sock = "closed" /\ ss.read # "pending" /\ ss.write # "pending"
  /\ ss.main = 0 /\ ss.flush = 0
  /\ ~ss.receiving /\ ~ss.sending

(* A write is started by the handler that closes the socket after it, so   *)
(* it never overlaps a read; and a response is sent once.                  *)
Orderly(ss) ==
  /\ ss.sock = "open" => ss.write = "none" /\ ss.main = 0 /\ ss.flush = 0
  /\ ss.write # "none" => ss.read \notin {"pending", "data"}
  /\ ss.read = "pending" => ss.sock = "open"
  /\ ~ss.parsed => ss.answers = 0

(* Only the handler of the expiry disconnects a session under a read that  *)
(* has data, and after it the session has no socket.                       *)
Life(ss) ==
  /\ ss.expiry = "none" => Fresh(ss)
  /\ ss.expiry # "none" => ss.sock # "unopened"
  /\ ss.expiry # "none" /\ ~ss.connected => Quiet(ss)
  /\ ss.expiry = "ran" => ss.sock = "closed"
  /\ ss.read = "data" /\ ~ss.connected => ss.expiry = "ran"
  /\ Orderly(ss)

(* A session whose receiving_ started out clear is receiving only while a  *)
(* read is under way, and has one under way until its request is parsed,   *)
(* unless a close() failed and the expiry is still to come.                *)
Armed(ss) ==
  /\ ss.receiving => ss.read # "none"
  /\ ss.connected /\ ~ss.parsed =>
       \/ ss.read # "none"
       \/ ss.sock = "closed" /\ ss.expiry = "aborted"

-----------------------------------------------------------------------------
(* A step that leaves aside all but the buffers and the write.             *)
Aside(ss, tt) ==
  /\ tt.connected = ss.connected /\ tt.receiving = ss.receiving
  /\ tt.read = ss.read /\ tt.sock = ss.sock /\ tt.expiry = ss.expiry
  /\ tt.parsed = ss.parsed /\ tt.answers = ss.answers

(* A new session is fresh.                                                 *)
LEMMA NewSessionLife ==
  ASSUME NEW receiving \in BOOLEAN, NEW sending \in BOOLEAN
  PROVE  LET ss == NewSession(receiving, sending)
         IN Life(ss) /\ ss.answers = 0 /\ (~receiving => Armed(ss))
BY DEF NewSession, Life, Fresh, Orderly, Armed

(* The swap of the buffers leaves the rest aside, and moves no bytes into  *)
(* empty buffers.                                                          *)
LEMMA SwapBuffersAside ==
  ASSUME NEW ss \in SessionState
  PROVE  LET tt == SwapBuffers(ss)
         IN /\ Aside(ss, tt)
            /\ tt.sending = ss.sending /\ tt.write = ss.write
            /\ ss.main = 0 /\ ss.flush = 0 => tt.main = 0 /\ tt.flush = 0
BY DEF SwapBuffers, Aside, SessionState

(* A write on a closed socket fails, and none touches more than the write. *)
LEMMA StartWriteAside ==
  ASSUME NEW ss \in SessionState, NEW k \in Nat
  PROVE  LET tt == StartWrite(ss, k)
         IN Aside(ss, tt) /\ (ss.sock = "closed" => tt.write = "failed")
BY DEF StartWrite, Aside, SessionState

(* try_send() touches no more than the buffers and the write; with nothing *)
(* to send it starts no write.                                             *)
LEMMA TrySendAside ==
  ASSUME NEW ss, SessionInv(ss), NEW k \in Nat
  PROVE  LET tt == TrySend(ss, k)
         IN /\ Aside(ss, tt)
            /\ ss.sock = "closed" => tt.write \in {ss.write, "failed"}
            /\ ss.main = 0 /\ ss.flush = 0 =>
                 /\ tt.main = 0 /\ tt.flush = 0
                 /\ tt.sending = ss.sending /\ tt.write = ss.write
<1> DEFINE sw == SwapBuffers(ss)
           st == StartWrite(sw, k)
<1>1. sw \in SessionState
  BY SwapBuffersType
<1>2. /\ Aside(ss, sw) /\ sw.sending = ss.sending /\ sw.write = ss.write
      /\ ss.main = 0 /\ ss.flush = 0 => sw.main = 0 /\ sw.flush = 0
  BY SwapBuffersAside DEF SessionInv
<1>3. Aside(sw, st) /\ (sw.sock = "closed" => st.write = "failed")
  BY <1>1, StartWriteAside
<1>4. TrySend(ss, k) = IF ss.sending THEN ss ELSE IF sw.flush = 0 THEN sw ELSE st
  BY DEF TrySend
<1> HIDE DEF sw, st
<1>5. CASE ss.sending
  BY <1>4, <1>5 DEF Aside
<1>6. CASE ~ss.sending /\ sw.flush = 0
  BY <1>2, <1>4, <1>6 DEF Aside
<1>7. CASE ~ss.sending /\ sw.flush # 0
  BY <1>2, <1>3, <1>4, <1>7 DEF Aside
<1> QED
  BY <1>5, <1>6, <1>7

(* Nor does send_async().                                                  *)
LEMMA SendAsyncAside ==
  ASSUME NEW ss, SessionInv(ss), NEW n \in Nat, NEW k \in Nat
  PROVE  Aside(ss, SendAsync(ss, n, k))
<1> DEFINE queued == [ss EXCEPT !.main = @ + n]
<1>1. SessionInv(queued) /\ Aside(ss, queued)
  BY DEF SessionInv, SessionState, OffsetInRange, Aside
<1>2. SendAsync(ss, n, k) \in {TrySend(queued, k), queued}
  BY DEF SendAsync
<1> HIDE DEF queued
<1>3. Aside(queued, TrySend(queued, k))
  BY <1>1, TrySendAside
<1> QED
  BY <1>1, <1>2, <1>3 DEF Aside

(* A response is answered and owed once, and leaves the socket alone.      *)
LEMMA RespondFields ==
  ASSUME NEW ss, SessionInv(ss), NEW n \in Nat, NEW k \in Nat
  PROVE  LET tt == Respond(ss, n, k)
         IN /\ tt.connected = ss.connected /\ tt.receiving = ss.receiving
            /\ tt.read = ss.read /\ tt.sock = ss.sock /\ tt.expiry = ss.expiry
            /\ tt.parsed /\ tt.answers = ss.answers + 1
<1> DEFINE pp == [ss EXCEPT !.parsed = TRUE, !.answers = @ + 1, !.owed = @ + n]
<1>1. ss.answers + 1 \in Nat /\ ss.owed + n \in Nat
  BY Counts DEF SessionInv
<1>2. SessionInv(pp)
  BY <1>1 DEF SessionInv, SessionState, OffsetInRange
<1>3. /\ pp.connected = ss.connected /\ pp.receiving = ss.receiving
      /\ pp.read = ss.read /\ pp.sock = ss.sock /\ pp.expiry = ss.expiry
      /\ pp.parsed /\ pp.answers = ss.answers + 1
  BY DEF SessionInv, SessionState
<1>4. Respond(ss, n, k) = SendAsync(pp, n, k)
  BY DEF Respond
<1> HIDE DEF pp
<1>5. Aside(pp, SendAsync(pp, n, k))
  BY <1>2, SendAsyncAside
<1> QED
  BY <1>3, <1>4, <1>5 DEF Aside

-----------------------------------------------------------------------------
(* What disconnect() leaves of a connected session: a closed socket and no *)
(* operation that waits on it; if the close failed, the rest as it was.    *)
LEMMA DisconnectFields ==
  ASSUME NEW ss, SessionInv(ss), NEW closes \in BOOLEAN, ss.connected
  PROVE  LET tt == Disconnect(ss, closes)
         IN /\ tt.sock = "closed" /\ tt.expiry = ss.expiry
            /\ tt.read = (IF ss.read = "pending" THEN "failed" ELSE ss.read)
            /\ tt.write = (IF ss.write = "pending" THEN "failed" ELSE ss.write)
            /\ tt.parsed = ss.parsed /\ tt.answers = ss.answers
            /\ ~tt.connected => /\ ~tt.receiving /\ ~tt.sending
                                /\ tt.main = 0 /\ tt.flush = 0
            /\ tt.connected => ss.sock = "open" /\ tt.receiving = ss.receiving
<1> DEFINE cc == Closed(ss)
           off == [cc EXCEPT !.connected = FALSE, !.receiving = FALSE,
                             !.sending = FALSE, !.main = 0, !.flush = 0]
           kept == [cc EXCEPT !.errors = @ \cup {"close_failed"}]
<1>1. cc \in SessionState /\ cc.connected
  BY ClosedKeeps DEF Keeps, SessionInv
<1>2. /\ cc.sock = "closed" /\ cc.expiry = ss.expiry
      /\ cc.read = (IF ss.read = "pending" THEN "failed" ELSE ss.read)
      /\ cc.write = (IF ss.write = "pending" THEN "failed" ELSE ss.write)
      /\ cc.parsed = ss.parsed /\ cc.answers = ss.answers
      /\ cc.receiving = ss.receiving
  BY DEF Closed, SessionInv, SessionState
<1>3. Disconnect(ss, closes) = IF closes \/ ss.sock # "open" THEN off ELSE kept
  BY DEF Disconnect
<1> HIDE DEF cc
<1>4. /\ off.sock = cc.sock /\ off.expiry = cc.expiry /\ off.read = cc.read
      /\ off.write = cc.write /\ off.parsed = cc.parsed /\ off.answers = cc.answers
      /\ ~off.connected /\ ~off.receiving /\ ~off.sending
      /\ off.main = 0 /\ off.flush = 0
  BY <1>1 DEF SessionState
<1>5. /\ kept.sock = cc.sock /\ kept.expiry = cc.expiry /\ kept.read = cc.read
      /\ kept.write = cc.write /\ kept.parsed = cc.parsed
      /\ kept.answers = cc.answers /\ kept.connected /\ kept.receiving = cc.receiving
  BY <1>1 DEF SessionState
<1> HIDE DEF off, kept
<1>6. CASE closes \/ ss.sock # "open"
  BY <1>2, <1>3, <1>4, <1>6
<1>7. CASE ~(closes \/ ss.sock # "open")
  BY <1>2, <1>3, <1>5, <1>7
<1> QED
  BY <1>6, <1>7

(* A session disconnect() has run on, whether or not the close succeeded.  *)
Ended(tt) ==
  /\ tt.expiry # "none" /\ tt.sock = "closed" /\ tt.read # "pending"
  /\ tt.write # "none" => tt.read # "data"
  /\ ~tt.connected => Quiet(tt)
  /\ ~tt.parsed => tt.answers = 0

(* disconnect() ends a session that was connected once, even in the middle *)
(* of a handler that has just sent a response.                             *)
LEMMA DisconnectEnds ==
  ASSUME NEW ss, SessionInv(ss), NEW closes \in BOOLEAN,
         ss.expiry # "none", ~ss.connected => Quiet(ss),
         ss.write # "none" => ss.read \notin {"pending", "data"},
         ~ss.parsed => ss.answers = 0
  PROVE  Ended(Disconnect(ss, closes))
<1> DEFINE tt == Disconnect(ss, closes)
<1>1. CASE ~ss.connected
  <2>1. tt = ss
    BY <1>1 DEF Disconnect
  <2> HIDE DEF tt
  <2>2. ss.write # "none" => ss.read # "data"
    OBVIOUS
  <2>3. ss.sock = "closed" /\ ss.read # "pending"
    BY <1>1 DEF Quiet
  <2> QED
    BY <2>1, <2>2, <2>3 DEF Ended, tt
<1>2. CASE ss.connected
  <2>1. /\ tt.sock = "closed" /\ tt.expiry = ss.expiry
        /\ tt.read = (IF ss.read = "pending" THEN "failed" ELSE ss.read)
        /\ tt.write = (IF ss.write = "pending" THEN "failed" ELSE ss.write)
        /\ tt.parsed = ss.parsed /\ tt.answers = ss.answers
        /\ ~tt.connected => /\ ~tt.receiving /\ ~tt.sending
                            /\ tt.main = 0 /\ tt.flush = 0
    BY <1>2, DisconnectFields
  <2> HIDE DEF tt
  <2> QED
    BY <2>1 DEF Ended, Quiet, tt
<1> QED
  BY <1>1, <1>2

(* Such a session has the life it should, unless data was read under it.   *)
LEMMA EndedLife ==
  ASSUME NEW tt, Ended(tt), tt.read = "data" /\ ~tt.connected => tt.expiry = "ran"
  PROVE  Life(tt)
BY DEF Ended, Life, Orderly

(* Clearing receiving_ and taking the data leaves the rest as it was.      *)
LEMMA ReadDoneFields ==
  ASSUME NEW ss, SessionInv(ss)
  PROVE  LET tt == ReadDone(ss)
         IN /\ SessionInv(tt) /\ tt.read = "none" /\ ~tt.receiving
            /\ tt.connected = ss.connected /\ tt.sending = ss.sending
            /\ tt.sock = ss.sock /\ tt.expiry = ss.expiry /\ tt.write = ss.write
            /\ tt.main = ss.main /\ tt.flush = ss.flush
            /\ tt.parsed = ss.parsed /\ tt.answers = ss.answers
<1>1. SessionInv(ReadDone(ss))
  BY ReadDoneKeeps DEF Keeps
<1> QED
  BY <1>1 DEF ReadDone, SessionInv, SessionState

(* So the session keeps its life.                                          *)
LEMMA ReadDoneLife ==
  ASSUME NEW ss, SessionInv(ss), Life(ss)
  PROVE  Life(ReadDone(ss))
<1> DEFINE tt == ReadDone(ss)
<1>1. /\ tt.read = "none" /\ ~tt.receiving
      /\ tt.connected = ss.connected /\ tt.sending = ss.sending
      /\ tt.sock = ss.sock /\ tt.expiry = ss.expiry /\ tt.write = ss.write
      /\ tt.main = ss.main /\ tt.flush = ss.flush
      /\ tt.parsed = ss.parsed /\ tt.answers = ss.answers
  BY ReadDoneFields
<1> HIDE DEF tt
<1> QED
  BY <1>1 DEF Life, Fresh, Quiet, Orderly, tt

(* try_receive() on a connected session of which no read is under way.     *)
LEMMA TryReceiveFields ==
  ASSUME NEW ss, SessionInv(ss), ss.connected
  PROVE  LET tt == TryReceive(ss)
         IN /\ tt.connected /\ tt.receiving /\ tt.sock = ss.sock
            /\ tt.read = (IF ss.receiving THEN ss.read
                          ELSE IF ss.sock = "open" THEN "pending" ELSE "failed")
            /\ tt.write = ss.write /\ tt.main = ss.main /\ tt.flush = ss.flush
            /\ tt.expiry = ss.expiry
            /\ tt.parsed = ss.parsed /\ tt.answers = ss.answers
BY DEF TryReceive, SessionInv, SessionState

(* It waits on an open socket only.                                        *)
LEMMA TryReceiveLife ==
  ASSUME NEW ss, SessionInv(ss), ss.connected, Life(ss), ss.read = "none"
  PROVE  Life(TryReceive(ss)) /\ (~ss.receiving => Armed(TryReceive(ss)))
<1> DEFINE tt == TryReceive(ss)
<1>1. /\ tt.connected /\ tt.receiving /\ tt.sock = ss.sock
      /\ tt.read = (IF ss.receiving THEN ss.read
                    ELSE IF ss.sock = "open" THEN "pending" ELSE "failed")
      /\ tt.write = ss.write /\ tt.main = ss.main /\ tt.flush = ss.flush
      /\ tt.expiry = ss.expiry
      /\ tt.parsed = ss.parsed /\ tt.answers = ss.answers
  BY TryReceiveFields
<1> HIDE DEF tt
<1>2. tt.expiry # "none"
  BY <1>1 DEF Life, Fresh
<1>3. Orderly(tt)
  BY <1>1 DEF Life, Orderly
<1>4. Life(tt)
  BY <1>1, <1>2, <1>3 DEF Life
<1>5. ~ss.receiving => Armed(tt)
  BY <1>1 DEF Armed
<1> QED
  BY <1>4, <1>5 DEF tt

(* connect() and the start of the expiry, on a session that was accepted.  *)
LEMMA ConnectLife ==
  ASSUME NEW ss, SessionInv(ss), Life(ss), ss.expiry = "none", ss.sock = "open"
  PROVE  LET tt == StartExpiry(Connect(ss))
         IN Life(tt) /\ tt.answers = ss.answers /\ (~ss.receiving => Armed(tt))
<1> DEFINE on == [ss EXCEPT !.connected = TRUE]
           rr == TryReceive(on)
           tt == [rr EXCEPT !.expiry = "aborted"]
<1>1. SessionInv(on) /\ on.connected
  BY DEF SessionInv, SessionState, OffsetInRange
<1>2. /\ on.receiving = ss.receiving /\ on.sock = ss.sock /\ on.read = ss.read
      /\ on.write = ss.write /\ on.main = ss.main /\ on.flush = ss.flush
      /\ on.parsed = ss.parsed /\ on.answers = ss.answers
  BY DEF SessionInv, SessionState
<1>3. StartExpiry(Connect(ss)) = tt
  BY DEF StartExpiry, Connect
<1> HIDE DEF on
<1>4. rr \in SessionState
  BY <1>1, TryReceiveKeeps DEF Keeps, SessionInv
<1>5. /\ rr.connected /\ rr.receiving /\ rr.sock = on.sock
      /\ rr.read = (IF on.receiving THEN on.read
                    ELSE IF on.sock = "open" THEN "pending" ELSE "failed")
      /\ rr.write = on.write /\ rr.main = on.main /\ rr.flush = on.flush
      /\ rr.parsed = on.parsed /\ rr.answers = on.answers
  BY <1>1, TryReceiveFields
<1> HIDE DEF rr
<1>6. /\ tt.connected = rr.connected /\ tt.receiving = rr.receiving
      /\ tt.sock = rr.sock /\ tt.read = rr.read /\ tt.write = rr.write
      /\ tt.main = rr.main /\ tt.flush = rr.flush
      /\ tt.parsed = rr.parsed /\ tt.answers = rr.answers /\ tt.expiry = "aborted"
  BY <1>4 DEF SessionState
<1> HIDE DEF tt
<1>7. /\ tt.connected /\ tt.sock = "open" /\ tt.write = "none"
      /\ tt.main = 0 /\ tt.flush = 0 /\ ~ss.parsed
      /\ tt.read \in {"none", "pending"} /\ (~ss.receiving => tt.read = "pending")
  BY <1>2, <1>5, <1>6 DEF Life, Fresh
<1>8. tt.answers = ss.answers /\ (~tt.parsed => tt.answers = 0)
  BY <1>2, <1>5, <1>6 DEF Life, Orderly
<1>9. Life(tt)
  BY <1>6, <1>7, <1>8 DEF Life, Orderly
<1>10. ~ss.receiving => Armed(tt)
  BY <1>7 DEF Armed
<1> QED
  BY <1>3, <1>8, <1>9, <1>10

-----------------------------------------------------------------------------
(* What a handler of a session does to the count of its answers: a request *)
(* is answered only by the handler that parses it.                         *)
AnsweredOnce(ss, tt) ==
  \/ tt.answers = ss.answers
  \/ ~ss.parsed /\ tt.answers = ss.answers + 1

(* on_receive() on a connected session whose read is done: either nothing  *)
(* happened yet, or the session was disconnected after at most one answer. *)
LEMMA OnReceiveLife ==
  ASSUME NEW ss, SessionInv(ss), Life(ss), ss.connected, ss.read = "none",
         ~ss.receiving, NEW verdict \in Verdicts, NEW n \in Nat, NEW k \in Nat,
         NEW closes \in BOOLEAN
  PROVE  LET tt == OnReceive(ss, verdict, n, k, closes)
         IN Life(tt) /\ tt.read = "none" /\ ~tt.receiving /\ AnsweredOnce(ss, tt)
<1> DEFINE tt == OnReceive(ss, verdict, n, k, closes)
           rr == Respond(ss, n, k)
<1>1. ss.expiry # "none"
  BY DEF Life, Fresh
<1>2. ASSUME NEW uu, SessionInv(uu), uu.connected, uu.expiry = ss.expiry,
             uu.read = "none", ~uu.receiving, ~uu.parsed => uu.answers = 0,
             AnsweredOnce(ss, uu)
      PROVE  LET dd == Disconnect(uu, closes)
             IN Life(dd) /\ dd.read = "none" /\ ~dd.receiving /\ AnsweredOnce(ss, dd)
  <2> DEFINE dd == Disconnect(uu, closes)
  <2>1. uu.write # "none" => uu.read \notin {"pending", "data"}
    BY <1>2
  <2>2. Ended(dd)
    BY <1>1, <1>2, <2>1, DisconnectEnds
  <2>3. /\ dd.read = (IF uu.read = "pending" THEN "failed" ELSE uu.read)
        /\ dd.answers = uu.answers
        /\ ~dd.connected => ~dd.receiving
        /\ dd.connected => dd.receiving = uu.receiving
    BY <1>2, DisconnectFields
  <2> HIDE DEF dd
  <2>4. dd.read = "none" /\ ~dd.receiving /\ AnsweredOnce(ss, dd)
    BY <1>2, <2>3 DEF AnsweredOnce
  <2>5. Life(dd)
    BY <2>2, <2>4, EndedLife
  <2> QED
    BY <2>4, <2>5 DEF dd
<1>3. SessionInv(rr)
  BY RespondKeeps DEF Keeps
<1>4. /\ rr.connected = ss.connected /\ rr.receiving = ss.receiving
      /\ rr.read = ss.read /\ rr.expiry = ss.expiry
      /\ rr.parsed /\ rr.answers = ss.answers + 1
  BY RespondFields
<1>5. tt = IF ss.parsed \/ verdict = "error" THEN Disconnect(ss, closes)
           ELSE IF verdict = "more" THEN ss ELSE Disconnect(rr, closes)
  BY DEF OnReceive, Verdicts
<1> HIDE DEF tt, rr
<1>6. CASE ss.parsed \/ verdict = "error"
  <2>1. ~ss.parsed => ss.answers = 0
    BY DEF Life, Orderly
  <2>2. AnsweredOnce(ss, ss)
    BY DEF AnsweredOnce
  <2> QED
    BY <1>2, <1>5, <1>6, <2>1, <2>2 DEF tt
<1>7. CASE ~ss.parsed /\ verdict = "more"
  <2>1. tt = ss
    BY <1>5, <1>7
  <2> QED
    BY <2>1 DEF AnsweredOnce, tt
<1>8. CASE ~ss.parsed /\ verdict \notin {"error", "more"}
  <2>1. tt = Disconnect(rr, closes)
    BY <1>5, <1>8
  <2>2. AnsweredOnce(ss, rr)
    BY <1>4, <1>8 DEF AnsweredOnce
  <2>3. rr.connected /\ rr.read = "none" /\ ~rr.receiving
    BY <1>4
  <2> QED
    BY <1>2, <1>3, <1>4, <2>1, <2>2, <2>3 DEF tt
<1> QED
  BY <1>6, <1>7, <1>8

(* The read handler, on a session that is still connected if it has data:  *)
(* it is read again, or ended, or its close failed with the expiry to come.*)
LEMMA ReadHandlerLife ==
  ASSUME NEW ss, SessionInv(ss), Life(ss), ss.read \in {"data", "failed"},
         ss.read = "data" => ss.connected, NEW verdict \in Verdicts,
         NEW n \in Nat, NEW k \in Nat, NEW closes \in BOOLEAN
  PROVE  LET tt == ReadHandler(ss, verdict, n, k, closes)
         IN /\ Life(tt) /\ Armed(tt) /\ AnsweredOnce(ss, tt)
            /\ tt.answers # ss.answers => ss.connected
<1> DEFINE tt == ReadHandler(ss, verdict, n, k, closes)
           done == ReadDone(ss)
           served == OnReceive(done, verdict, n, k, closes)
           again == TryReceive(served)
           ended == Disconnect(done, closes)
<1>1. /\ SessionInv(done) /\ done.read = "none" /\ ~done.receiving
      /\ done.connected = ss.connected /\ done.sending = ss.sending
      /\ done.sock = ss.sock /\ done.expiry = ss.expiry /\ done.write = ss.write
      /\ done.main = ss.main /\ done.flush = ss.flush
      /\ done.parsed = ss.parsed /\ done.answers = ss.answers
  BY ReadDoneFields
<1>2. Life(done)
  BY ReadDoneLife
<1>3. tt = IF ss.read = "failed" THEN ended
           ELSE IF served.connected THEN again ELSE served
  BY DEF ReadHandler
<1> HIDE DEF tt, done
<1>4. CASE ss.read = "failed"
  <2>1. done.expiry # "none" /\ (~done.connected => Quiet(done))
    BY <1>1, <1>2, <1>4 DEF Life, Fresh
  <2>2. ~done.parsed => done.answers = 0
    BY <1>2 DEF Life, Orderly
  <2>3. Ended(ended)
    BY <1>1, <2>1, <2>2, DisconnectEnds
  <2>4. CASE ~done.connected
    <3>1. ended = done
      BY <2>4 DEF Disconnect
    <3>2. Armed(done) /\ AnsweredOnce(ss, done) /\ done.answers = ss.answers
      BY <1>1, <2>4 DEF Armed, AnsweredOnce
    <3> QED
      BY <1>2, <1>3, <1>4, <3>1, <3>2 DEF tt
  <2>5. CASE done.connected
    <3>1. /\ ended.sock = "closed" /\ ended.expiry = done.expiry
          /\ ended.read = (IF done.read = "pending" THEN "failed" ELSE done.read)
          /\ ended.answers = done.answers
          /\ ~ended.connected => ~ended.receiving
          /\ ended.connected => done.sock = "open" /\ ended.receiving = done.receiving
      BY <1>1, <2>5, DisconnectFields
    <3> HIDE DEF ended
    <3>2. ended.read = "none" /\ ~ended.receiving
      BY <1>1, <3>1
    <3>3. Life(ended)
      BY <2>3, <3>2, EndedLife
    <3>4. ended.connected => ended.expiry = "aborted"
      <4>1. done.expiry \in {"none", "aborted", "ran"}
        BY <1>1 DEF SessionInv, SessionState
      <4>2. done.sock = "open" => done.expiry # "ran"
        BY <1>2 DEF Life
      <4> QED
        BY <2>1, <3>1, <4>1, <4>2
    <3>5. Armed(ended)
      BY <3>1, <3>2, <3>4 DEF Armed
    <3>6. AnsweredOnce(ss, ended) /\ ended.answers = ss.answers
      BY <1>1, <3>1 DEF AnsweredOnce
    <3> QED
      BY <1>3, <1>4, <3>3, <3>5, <3>6 DEF tt
  <2> QED
    BY <2>4, <2>5
<1>5. CASE ss.read = "data"
  <2>1. done.connected /\ ss.connected
    BY <1>1, <1>5
  <2>2. /\ Life(served) /\ served.read = "none" /\ ~served.receiving
        /\ AnsweredOnce(done, served)
    BY <1>1, <1>2, <2>1, OnReceiveLife
  <2>3. SessionInv(served)
    BY <1>1, OnReceiveIsKept DEF Keeps
  <2> HIDE DEF served
  <2>4. AnsweredOnce(ss, served)
    BY <1>1, <2>2 DEF AnsweredOnce
  <2>5. CASE served.connected
    <3>1. Life(again) /\ Armed(again)
      BY <2>2, <2>3, <2>5, TryReceiveLife
    <3>2. again.answers = served.answers
      BY <2>3, <2>5, TryReceiveFields
    <3>3. AnsweredOnce(ss, again)
      BY <2>4, <3>2 DEF AnsweredOnce
    <3>4. tt = again
      BY <1>3, <1>5, <2>5
    <3> QED
      BY <2>1, <3>1, <3>3, <3>4 DEF tt
  <2>6. CASE ~served.connected
    <3>1. Armed(served)
      BY <2>2, <2>6 DEF Armed
    <3>2. tt = served
      BY <1>3, <1>5, <2>6
    <3> QED
      BY <2>1, <2>2, <2>4, <3>1, <3>2 DEF tt
  <2> QED
    BY <2>5, <2>6
<1> QED
  BY <1>4, <1>5

-----------------------------------------------------------------------------
(* Advancing the offset, after a write that took n bytes.                  *)
LEMMA AdvanceFields ==
  ASSUME NEW ss, ss \in SessionState, NEW n \in Nat
  PROVE  LET tt == Advance(ss, n)
         IN /\ Aside(ss, tt)
            /\ tt.sending = ss.sending /\ tt.write = ss.write /\ tt.main = ss.main
            /\ ss.flush = 0 => tt.flush = 0
<1>1. ss.offset + n \in Nat
  BY Counts
<1> QED
  BY <1>1 DEF Advance, Aside, SessionState

(* A write completes after its socket was closed only, since disconnect()  *)
(* follows in the handler that started it.  Its handler may start a write  *)
(* that fails; on a disconnected session, whose buffers are clear, it does *)
(* not even that.                                                          *)
LEMMA WriteHandlerLife ==
  ASSUME NEW ss, SessionInv(ss), Life(ss), ss.write \in {"done", "failed"}, NEW k \in Nat
  PROVE  LET tt == WriteHandler(ss, k)
         IN Life(tt) /\ tt.answers = ss.answers /\ (Armed(ss) => Armed(tt))
<1> DEFINE tt == WriteHandler(ss, k)
           done == [ss EXCEPT !.sending = FALSE, !.write = "none", !.wrote = 0]
           adv == Advance(done, ss.wrote)
           sent == TrySend(adv, k)
<1>1. ss.expiry # "none" /\ ss.sock = "closed" /\ ss.read \notin {"pending", "data"}
  BY DEF Life, Fresh, Orderly, SessionInv, SessionState
<1>2. SessionInv(done) /\ SessionInv(adv)
  <2>1. done \in SessionState /\ ss.wrote \in Nat /\ ss.offset \in Nat /\ ss.flush \in Nat
    BY DEF SessionInv, SessionState
  <2>2. /\ done.flush = ss.flush /\ done.offset = ss.offset /\ done.wrote = 0
        /\ done.errors = ss.errors
    BY DEF SessionInv, SessionState
  <2> HIDE DEF done
  <2>3. SessionInv(done)
    BY <2>1, <2>2 DEF SessionInv, OffsetInRange
  <2>4. SessionInv([done EXCEPT !.flush = 0, !.offset = 0])
    BY <2>3 DEF SessionInv, SessionState, OffsetInRange
  <2> DEFINE moved == [done EXCEPT !.offset = @ + ss.wrote]
  <2>5. /\ moved \in SessionState /\ moved.flush = ss.flush /\ moved.wrote = 0
        /\ moved.offset = ss.offset + ss.wrote /\ moved.errors = ss.errors
    <3>1. ss.offset + ss.wrote \in Nat
      BY <2>1
    <3> QED
      BY <2>1, <2>2, <3>1 DEF SessionState
  <2> HIDE DEF moved
  <2>6. SessionInv(moved)
    BY <2>1, <2>5 DEF SessionInv, OffsetInRange
  <2>7. adv \in {[done EXCEPT !.flush = 0, !.offset = 0], moved}
    BY DEF Advance, moved
  <2> QED
    BY <2>3, <2>4, <2>6, <2>7
<1>3. /\ Aside(ss, done) /\ ~done.sending /\ done.write = "none"
      /\ done.main = ss.main /\ done.flush = ss.flush
  BY DEF SessionInv, SessionState, Aside
<1>4. tt = IF ss.write = "failed" THEN done ELSE sent
  BY DEF WriteHandler
<1> HIDE DEF done, tt
<1>5. /\ Aside(done, adv) /\ adv.sending = done.sending /\ adv.write = done.write
      /\ adv.main = done.main /\ (done.flush = 0 => adv.flush = 0)
  <2>1. done \in SessionState /\ ss.wrote \in Nat
    BY <1>2, Counts DEF SessionInv
  <2> QED
    BY <2>1, AdvanceFields
<1> HIDE DEF adv
<1>6. /\ Aside(adv, sent)
      /\ adv.sock = "closed" => sent.write \in {adv.write, "failed"}
      /\ adv.main = 0 /\ adv.flush = 0 =>
           /\ sent.main = 0 /\ sent.flush = 0
           /\ sent.sending = adv.sending /\ sent.write = adv.write
  BY <1>2, TrySendAside
<1> HIDE DEF sent
<1>7. /\ Aside(ss, tt) /\ tt.write \in {"none", "failed"}
      /\ ss.main = 0 /\ ss.flush = 0 => tt.main = 0 /\ tt.flush = 0 /\ ~tt.sending
  <2>1. CASE ss.write = "failed"
    BY <1>3, <1>4, <2>1 DEF Aside
  <2>2. CASE ss.write # "failed"
    <3>1. Aside(ss, sent)
      BY <1>3, <1>5, <1>6 DEF Aside
    <3>2. sent.write \in {"none", "failed"}
      BY <1>1, <1>3, <1>5, <1>6 DEF Aside
    <3>3. ss.main = 0 /\ ss.flush = 0 => sent.main = 0 /\ sent.flush = 0 /\ ~sent.sending
      BY <1>3, <1>5, <1>6
    <3> QED
      BY <1>4, <2>2, <3>1, <3>2, <3>3
  <2> QED
    BY <2>1, <2>2
<1>8. tt.expiry # "none" /\ tt.sock = "closed" /\ tt.read \notin {"pending", "data"}
  BY <1>1, <1>7 DEF Aside
<1>9. ~tt.connected => Quiet(tt)
  <2>1. ~tt.connected => Quiet(ss)
    BY <1>1, <1>7 DEF Aside, Life
  <2> QED
    BY <1>7, <1>8, <2>1 DEF Aside, Quiet
<1>10. ~tt.parsed => tt.answers = 0
  BY <1>7 DEF Aside, Life, Orderly
<1>11. Life(tt)
  BY <1>8, <1>9, <1>10 DEF Life, Orderly
<1>12. tt.answers = ss.answers /\ (Armed(ss) => Armed(tt))
  BY <1>7 DEF Aside, Armed
<1> QED
  BY <1>11, <1>12 DEF tt

(* The handler of the wait that was aborted: it closes the socket, and a   *)
(* read that has data finds the session disconnected.                      *)
LEMMA ExpireHandlerLife ==
  ASSUME NEW ss, SessionInv(ss), Life(ss), ss.expiry = "aborted", NEW closes \in BOOLEAN
  PROVE  LET tt == ExpireHandler(ss, closes)
         IN Life(tt) /\ tt.answers = ss.answers /\ (Armed(ss) => Armed(tt))
<1> DEFINE dd == Disconnect(ss, closes)
           tt == [dd EXCEPT !.expiry = "ran"]
<1>1. ExpireHandler(ss, closes) = tt
  BY DEF ExpireHandler
<1>2. dd \in SessionState
  BY DisconnectKeeps DEF Keeps, SessionInv
<1>3. Ended(dd)
  <2>1. ss.write # "none" => ss.read \notin {"pending", "data"}
    BY DEF Life, Orderly
  <2>2. ~ss.connected => Quiet(ss)
    BY DEF Life
  <2>3. ~ss.parsed => ss.answers = 0
    BY DEF Life, Orderly
  <2> QED
    BY <2>1, <2>2, <2>3, DisconnectEnds
<1>4. CASE ~ss.connected
  <2>1. dd = ss
    BY <1>4 DEF Disconnect
  <2>2. /\ tt.connected = ss.connected /\ tt.receiving = ss.receiving
        /\ tt.sending = ss.sending /\ tt.main = ss.main /\ tt.flush = ss.flush
        /\ tt.parsed = ss.parsed /\ tt.sock = ss.sock /\ tt.read = ss.read
        /\ tt.write = ss.write /\ tt.answers = ss.answers /\ tt.expiry = "ran"
    BY <2>1 DEF SessionInv, SessionState
  <2> HIDE DEF tt
  <2>3. Ended(tt)
    BY <1>3, <2>1, <2>2 DEF Ended, Quiet
  <2>4. Life(tt)
    BY <2>2, <2>3, EndedLife
  <2>5. Armed(ss) => Armed(tt)
    BY <1>4, <2>2 DEF Armed
  <2> QED
    BY <1>1, <2>2, <2>4, <2>5
<1>5. CASE ss.connected
  <2>1. /\ dd.read = (IF ss.read = "pending" THEN "failed" ELSE ss.read)
        /\ dd.parsed = ss.parsed /\ dd.answers = ss.answers
        /\ ~dd.connected => ~dd.receiving
        /\ dd.connected => ss.sock = "open" /\ dd.receiving = ss.receiving
    BY <1>5, DisconnectFields
  <2> HIDE DEF dd
  <2>2. /\ tt.connected = dd.connected /\ tt.receiving = dd.receiving
        /\ tt.sending = dd.sending /\ tt.main = dd.main /\ tt.flush = dd.flush
        /\ tt.parsed = dd.parsed /\ tt.sock = dd.sock /\ tt.read = dd.read
        /\ tt.write = dd.write /\ tt.answers = dd.answers /\ tt.expiry = "ran"
    BY <1>2 DEF SessionState
  <2> HIDE DEF tt
  <2>3. Ended(tt)
    BY <1>3, <2>2 DEF Ended, Quiet
  <2>4. Life(tt)
    BY <2>2, <2>3, EndedLife
  <2>5. Armed(ss) => Armed(tt)
    BY <1>5, <2>1, <2>2 DEF Armed
  <2> QED
    BY <1>1, <2>1, <2>2, <2>4, <2>5
<1> QED
  BY <1>4, <1>5

(* A read handler left by an exception.                                    *)
LEMMA ReadThrowsLife ==
  ASSUME NEW ss, SessionInv(ss), Life(ss), ss.connected, ~ss.parsed, NEW parsed \in BOOLEAN
  PROVE  LET tt == ReadThrows(ss, parsed)
         IN Life(tt) /\ AnsweredOnce(ss, tt)
<1> DEFINE done == ReadDone(ss)
           answered == [done EXCEPT !.parsed = TRUE, !.answers = @ + 1]
<1>1. ReadThrows(ss, parsed) = IF parsed THEN answered ELSE done
  BY DEF ReadThrows
<1>2. /\ SessionInv(done) /\ done.parsed = ss.parsed /\ done.answers = ss.answers
      /\ done.connected = ss.connected
  BY ReadDoneFields
<1>3. Life(done)
  BY ReadDoneLife
<1> HIDE DEF done
<1>4. done.answers + 1 \in Nat
  BY <1>2, Counts DEF SessionInv
<1>5. /\ answered.connected = done.connected /\ answered.receiving = done.receiving
      /\ answered.sending = done.sending /\ answered.main = done.main
      /\ answered.flush = done.flush /\ answered.sock = done.sock
      /\ answered.read = done.read /\ answered.write = done.write
      /\ answered.expiry = done.expiry
      /\ answered.parsed /\ answered.answers = done.answers + 1
  BY <1>2, <1>4 DEF SessionInv, SessionState
<1> HIDE DEF answered
<1>6. Life(answered)
  BY <1>2, <1>3, <1>5 DEF Life, Fresh, Orderly
<1>7. AnsweredOnce(ss, done) /\ AnsweredOnce(ss, answered)
  BY <1>2, <1>5 DEF AnsweredOnce
<1> QED
  BY <1>1, <1>3, <1>6, <1>7

(* What the kernel and the client do to a socket, and the read handler of  *)
(* a destroyed session to its memory.                                      *)
LEMMA OutsideLife ==
  ASSUME NEW ss, SessionInv(ss), Life(ss), NEW tt,
         \/ tt = [ss EXCEPT !.unread = TRUE]
         \/ tt = [ss EXCEPT !.peer = "gone"]
         \/ ss.read = "pending" /\ tt = [ss EXCEPT !.read = "failed"]
         \/ ss.read = "pending" /\ tt = [ss EXCEPT !.read = "data", !.unread = FALSE]
         \/ ss.read # "none" /\ ~ss.connected /\ tt = [ss EXCEPT !.read = "none"]
  PROVE  Life(tt) /\ tt.answers = ss.answers /\ (Armed(ss) => Armed(tt))
<1>1. /\ tt.connected = ss.connected /\ tt.receiving = ss.receiving
      /\ tt.sending = ss.sending /\ tt.main = ss.main /\ tt.flush = ss.flush
      /\ tt.parsed = ss.parsed /\ tt.sock = ss.sock /\ tt.write = ss.write
      /\ tt.expiry = ss.expiry /\ tt.answers = ss.answers
  BY DEF SessionInv, SessionState
<1>2. CASE tt.read = ss.read
  BY <1>1, <1>2 DEF Life, Fresh, Quiet, Orderly, Armed
<1>3. CASE ss.read = "pending" /\ tt.read \in {"failed", "data"}
  <2>1. ss.connected
    BY <1>3 DEF Life, Fresh, Quiet
  <2> QED
    BY <1>1, <1>3, <2>1 DEF Life, Fresh, Orderly, Armed
<1>4. CASE ss.read # "none" /\ ~ss.connected /\ tt.read = "none"
  BY <1>1, <1>4 DEF Life, Fresh, Quiet, Orderly, Armed
<1>5. \/ tt.read = ss.read
      \/ ss.read = "pending" /\ tt.read \in {"failed", "data"}
      \/ ss.read # "none" /\ ~ss.connected /\ tt.read = "none"
  BY DEF SessionInv, SessionState
<1> QED
  BY <1>2, <1>3, <1>4, <1>5

(* The socket of a client, given to a fresh session.                       *)
LEMMA AcceptedLife ==
  ASSUME NEW ss, SessionInv(ss), Life(ss), ss.expiry = "none",
         NEW peer \in {"up", "gone"}, NEW unread \in BOOLEAN
  PROVE  LET tt == Accepted(ss, peer, unread)
         IN /\ Life(tt) /\ tt.sock = "open" /\ tt.answers = ss.answers
            /\ Armed(ss) => Armed(tt)
<1> DEFINE tt == Accepted(ss, peer, unread)
<1>1. /\ tt.connected = ss.connected /\ tt.receiving = ss.receiving
      /\ tt.main = ss.main /\ tt.flush = ss.flush /\ tt.parsed = ss.parsed
      /\ tt.read = ss.read /\ tt.sock = "open" /\ tt.write = ss.write
      /\ tt.expiry = ss.expiry /\ tt.answers = ss.answers
  BY DEF Accepted, SessionInv, SessionState
<1> HIDE DEF tt
<1>2. Life(tt)
  BY <1>1 DEF Life, Fresh, Orderly
<1>3. Armed(ss) => Armed(tt)
  BY <1>1 DEF Life, Fresh, Armed
<1> QED
  BY <1>1, <1>2, <1>3 DEF tt
=============================================================================
