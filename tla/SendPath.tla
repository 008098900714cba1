------------------------------- MODULE SendPath -------------------------------
(***************************************************************************)
(* WebSession::send_async() called by threads of the application, which    *)
(* hold the session by a shared_ptr, while the I/O thread sends what they  *)
(* queue and may disconnect the session at any time.                       *)
(*                                                                         *)
(* A step is what no other thread can interrupt: the section of            *)
(* send_async() under send_lock_, its dispatch() behind that section, and  *)
(* on the I/O thread whatever lies between two accesses that a sender can  *)
(* see: send_lock_ protects send_buffer_main_, but send_buffer_flush_ is   *)
(* cleared by the write handler without it.                                *)
(***************************************************************************)
EXTENDS Integers, Sequences

CONSTANTS
  Senders,     \* the threads of the application
  MaxBytes     \* how many bytes each of them sends at most

ASSUME SendPathAssumption == Senders # {} /\ MaxBytes \in Nat \ {0}

\* The i-th byte that thread s sends.
Bytes == Senders \X (1..MaxBytes)

VARIABLES
  sender,     \* a thread is "idle", or "posting" between unlock and dispatch
  count,      \* how many bytes a thread has sent
  main,       \* send_buffer_main_
  flush,      \* send_buffer_flush_
  offset,     \* send_buffer_flush_offset
  connected,  \* connected_
  sending,    \* sending_
  posted,     \* how many calls of try_send() the threads have dispatched
  io,         \* the I/O thread is "idle" between handlers, or "resending"
  sock,       \* socket_: "open" or "closed"
  offered,    \* the buffers of the writes under way
  done,       \* what finished writes report: bytes taken, 0 if they failed
  failed,     \* history: the last write to be handled failed
  given,      \* history: the bytes queued, in the order of the lock
  wire        \* history: the bytes the kernel took

senderVars == <<sender, count>>
bufferVars == <<main, flush, offset>>
kernelVars == <<sock, offered, done, wire>>
vars == <<senderVars, bufferVars, connected, sending, posted, io, kernelVars,
          failed, given>>

(* The offset is compared with the size for equality: past it, it would      *)
(* never be reset.                                                           *)
TypeOK ==
  /\ sender \in [Senders -> {"idle", "posting"}]
  /\ count \in [Senders -> 0..MaxBytes]
  /\ main \in Seq(Bytes) /\ flush \in Seq(Bytes)
  /\ offset \in Nat /\ (sock = "open" => offset <= Len(flush))
  /\ connected \in BOOLEAN /\ sending \in BOOLEAN
  /\ posted \in Nat
  /\ io \in {"idle", "resending"}
  /\ sock \in {"open", "closed"}
  /\ offered \in Seq(Seq(Bytes)) /\ done \in Seq(Nat)
  /\ failed \in BOOLEAN
  /\ given \in Seq(Bytes) /\ wire \in Seq(Bytes)

Init ==
  /\ sender = [s \in Senders |-> "idle"] /\ count = [s \in Senders |-> 0]
  /\ main = <<>> /\ flush = <<>> /\ offset = 0
  /\ connected = TRUE /\ sending = FALSE
  /\ posted = 0 /\ io = "idle"
  /\ sock = "open" /\ offered = <<>> /\ done = <<>>
  /\ failed = FALSE /\ given = <<>> /\ wire = <<>>

-----------------------------------------------------------------------------
(* send_async(), up to the end of the locked section.  It asks nobody whether *)
(* the session is connected.  Unless main was empty, and unless flush was,   *)
(* somebody else will send the bytes.                                        *)
Queue(s, n) ==
  LET bytes == [i \in 1..n |-> <<s, count[s] + i>>]
  IN /\ sender[s] = "idle" /\ count[s] + n <= MaxBytes
     /\ count' = [count EXCEPT ![s] = @ + n]
     /\ main' = main \o bytes
     /\ given' = given \o bytes
     /\ sender' = [sender EXCEPT ![s] =
                     IF main = <<>> \/ flush = <<>> THEN "posting" ELSE "idle"]
     /\ UNCHANGED <<flush, offset, connected, sending, posted, io, kernelVars, failed>>

(* dispatch() of another thread than the I/O thread posts the call.          *)
Dispatch(s) ==
  /\ sender[s] = "posting"
  /\ sender' = [sender EXCEPT ![s] = "idle"]
  /\ posted' = posted + 1
  /\ UNCHANGED <<count, bufferVars, connected, sending, io, kernelVars, failed, given>>

-----------------------------------------------------------------------------
(* async_write_some: on a closed socket it fails at once.                    *)
Write(bytes) ==
  IF sock = "open"
  THEN offered' = Append(offered, bytes) /\ UNCHANGED done
  ELSE done' = Append(done, 0) /\ UNCHANGED offered

\* Mutant: sending_ is not looked at.
TrySendAgain ==
  /\ IF flush = <<>> THEN flush' = main /\ main' = <<>> /\ offset' = 0
                     ELSE UNCHANGED bufferVars
  /\ IF flush' = <<>>
     THEN UNCHANGED <<sending, offered, done, failed>>
     ELSE /\ sending' = TRUE /\ failed' = FALSE
          /\ Write(SubSeq(flush', offset' + 1, Len(flush')))

\* Mutant: the buffers are swapped whenever there is something to send.
TrySendSwaps ==
  IF sending
  THEN UNCHANGED <<bufferVars, sending, offered, done, failed>>
  ELSE /\ IF main # <<>> THEN flush' = main /\ main' = flush /\ offset' = 0
                         ELSE UNCHANGED bufferVars
       /\ IF flush' = <<>>
          THEN UNCHANGED <<sending, offered, done, failed>>
          ELSE /\ sending' = TRUE /\ failed' = FALSE
               /\ Write(SubSeq(flush', offset' + 1, Len(flush')))

(* try_send().  It takes the lock for the swap alone; all the rest of it is  *)
(* known to the I/O thread only.                                             *)
TrySend ==
  IF sending
  THEN UNCHANGED <<bufferVars, sending, offered, done, failed>>
  ELSE /\ IF flush = <<>> THEN flush' = main /\ main' = <<>> /\ offset' = 0
                          ELSE UNCHANGED bufferVars
       /\ IF flush' = <<>>
          THEN UNCHANGED <<sending, offered, done, failed>>
          ELSE /\ sending' = TRUE /\ failed' = FALSE
               /\ Write(SubSeq(flush', offset' + 1, Len(flush')))

SendHandler ==
  /\ io = "idle" /\ posted > 0
  /\ posted' = posted - 1
  /\ TrySend
  /\ UNCHANGED <<senderVars, connected, io, sock, wire, given>>

\* Mutant: the offset is not reset with the buffer.
AdvanceKeepsOffset(n) ==
  /\ offset' = offset + n
  /\ flush' = IF offset + n = Len(flush) THEN <<>> ELSE flush

\* Mutant: a write that succeeds is taken to have sent all of the buffer.
AdvanceAll(n) == flush' = <<>> /\ offset' = 0

Advance(n) ==
  IF offset + n = Len(flush) THEN flush' = <<>> /\ offset' = 0
                             ELSE UNCHANGED flush /\ offset' = offset + n

\* Mutant: nothing is left to do once the buffer was sent.
WriteHandlerStops ==
  /\ io = "idle" /\ done # <<>>
  /\ done' = Tail(done)
  /\ sending' = FALSE
  /\ IF Head(done) = 0
     THEN failed' = TRUE /\ UNCHANGED <<flush, offset, io>>
     ELSE Advance(Head(done)) /\ UNCHANGED failed
          /\ io' = IF flush' = <<>> THEN "idle" ELSE "resending"
  /\ UNCHANGED <<senderVars, main, connected, posted, sock, offered, wire, given>>

(* The write handler, up to its call of try_send().  A failed write reports  *)
(* no bytes, and the handler returns on that.                                *)
WriteHandler ==
  /\ io = "idle" /\ done # <<>>
  /\ done' = Tail(done)
  /\ sending' = FALSE
  /\ IF Head(done) = 0
     THEN failed' = TRUE /\ UNCHANGED <<flush, offset, io>>
     ELSE Advance(Head(done)) /\ io' = "resending" /\ UNCHANGED failed
  /\ UNCHANGED <<senderVars, main, connected, posted, sock, offered, wire, given>>

Resend ==
  /\ io = "resending"
  /\ io' = "idle"
  /\ TrySend
  /\ UNCHANGED <<senderVars, connected, posted, sock, wire, given>>

\* Closing the socket aborts the writes that wait on it.
CloseSocket ==
  /\ sock' = "closed" /\ offered' = <<>>
  /\ done' = done \o [i \in 1..Len(offered) |-> 0]

\* Mutant: the buffers are cleared although the socket stays open.
DisconnectOpen ==
  /\ io = "idle" /\ connected
  /\ connected' = FALSE /\ sending' = FALSE
  /\ main' = <<>> /\ flush' = <<>>
  /\ UNCHANGED <<senderVars, offset, posted, io, kernelVars, failed, given>>

(* disconnect() by another handler of the I/O thread: a read that failed, a  *)
(* request that was answered, the expiry.  If close() reports an error it    *)
(* goes no further; closing a closed socket succeeds.  The offset stays.     *)
Disconnect ==
  /\ io = "idle" /\ connected
  /\ CloseSocket
  /\ \/ /\ connected' = FALSE /\ sending' = FALSE
        /\ main' = <<>> /\ flush' = <<>>
     \/ /\ sock = "open"
        /\ UNCHANGED <<connected, sending, main, flush>>
  /\ UNCHANGED <<senderVars, offset, posted, io, wire, failed, given>>

-----------------------------------------------------------------------------
(* The kernel takes some of the bytes of the oldest write, or fails it.      *)
KernelTakes ==
  /\ offered # <<>>
  /\ \E n \in 1..Len(Head(offered)) :
       /\ wire' = wire \o SubSeq(Head(offered), 1, n)
       /\ done' = Append(done, n)
  /\ offered' = Tail(offered)
  /\ UNCHANGED <<senderVars, bufferVars, connected, sending, posted, io, sock, failed, given>>

KernelFails ==
  /\ offered # <<>>
  /\ offered' = Tail(offered)
  /\ done' = Append(done, 0)
  /\ UNCHANGED <<senderVars, bufferVars, connected, sending, posted, io, sock, wire,
                 failed, given>>

Next ==
  \/ \E s \in Senders : (\E n \in 1..MaxBytes : Queue(s, n)) \/ Dispatch(s)
  \/ SendHandler \/ WriteHandler \/ Resend \/ Disconnect
  \/ KernelTakes \/ KernelFails

Spec == Init /\ [][Next]_vars

(* The I/O thread takes every handler in its turn, a thread that has         *)
(* unlocked gets to its dispatch(), and the peer reads or goes away.  Nobody *)
(* has to send, and nobody has to disconnect.                                *)
Fairness ==
  /\ WF_vars(SendHandler) /\ WF_vars(WriteHandler) /\ WF_vars(Resend)
  /\ \A s \in Senders : WF_vars(Dispatch(s))
  /\ WF_vars(KernelTakes \/ KernelFails)

FairSpec == Spec /\ Fairness
-----------------------------------------------------------------------------
(* Properties *)

(* No byte is lost, doubled or moved between the two buffers and the kernel, *)
(* whatever the senders do between the steps of the I/O thread: what was     *)
(* given is what left, then the rest of flush, then main.                    *)
Taken == IF done = <<>> THEN 0 ELSE Head(done)

StreamExact ==
  sock = "open" =>
    given = wire \o SubSeq(flush, offset + Taken + 1, Len(flush)) \o main

(* sending_ is what keeps a second async_write_some away: on an open socket  *)
(* it is set exactly as long as a write is under way or to be handled.       *)
OneWrite ==
  sock = "open" => Len(offered) + Len(done) = (IF sending THEN 1 ELSE 0)

(* A write reads the memory of flush until it completes, so nothing may      *)
(* change or clear that buffer under it.                                     *)
FlushPinned ==
  \A i \in DOMAIN offered : offered[i] = SubSeq(flush, offset + 1, Len(flush))

(* No wakeup is lost: as long as there are bytes to send, somebody is about  *)
(* to send them, though send_async() leaves that to others when it finds     *)
(* both buffers filled, and finds flush filled or not at any moment.  Only a *)
(* write that failed leaves them for a later call.                           *)
Underway ==
  \/ offered # <<>> \/ done # <<>> \/ posted > 0 \/ io = "resending"
  \/ \E s \in Senders : sender[s] = "posting"

NoLostWakeup ==
  sock = "open" /\ (main # <<>> \/ flush # <<>>) => Underway \/ failed

(* Every byte that send_async() accepted gets to the peer, unless a write    *)
(* fails or the session is closed.                                           *)
EveryByteLeaves ==
  \A b \in Bytes :
    (\E i \in DOMAIN given : given[i] = b)
      ~> (\E i \in DOMAIN wire : wire[i] = b) \/ failed \/ sock = "closed"

(* The two buffers, the lock and the handlers implement a stream of bytes.   *)
Stream == INSTANCE ByteStream WITH open <- sock = "open"

StreamSpec == Stream!Spec
=============================================================================
