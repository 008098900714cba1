---------------------------- MODULE SendPathProofs ----------------------------
(* The theorems about module SendPath: for every set of sending threads and  *)
(* any number of bytes.                                                      *)
EXTENDS SendPath, SequenceTheorems, TLAPS

\* A socket that was closed has no writes.
ClosedQuiet == sock = "closed" => offered = <<>>

\* A write takes no more bytes than it was offered.
DoneFits == sock = "open" /\ done # <<>> => offset + Head(done) <= Len(flush)

IInv ==
  /\ TypeOK
  /\ OneWrite
  /\ FlushPinned
  /\ ClosedQuiet
  /\ DoneFits
  /\ StreamExact
  /\ NoLostWakeup

-----------------------------------------------------------------------------
(* Sequences *)

(* What is left of a buffer is a sequence, and with what was taken of it the *)
(* buffer is whole.                                                          *)
LEMMA Split ==
  ASSUME NEW S, NEW s \in Seq(S), NEW i \in Nat, NEW n \in Nat, i + n <= Len(s)
  PROVE  LET rest == SubSeq(s, i + 1, Len(s))
         IN /\ rest \in Seq(S) /\ Len(rest) = Len(s) - i
            /\ SubSeq(rest, 1, n) \in Seq(S) /\ Len(SubSeq(rest, 1, n)) = n
            /\ SubSeq(s, i + n + 1, Len(s)) \in Seq(S)
            /\ rest = SubSeq(rest, 1, n) \o SubSeq(s, i + n + 1, Len(s))
<1> DEFINE rest == SubSeq(s, i + 1, Len(s))
           front == SubSeq(rest, 1, n)
           back == SubSeq(s, i + n + 1, Len(s))
<1>1. Len(s) \in Nat /\ \A k \in 1..Len(s) : s[k] \in S
  BY LenProperties
<1>2. \A k \in (i + 1)..Len(s) : s[k] \in S
  BY <1>1
<1>3. /\ rest \in Seq(S)
      /\ Len(rest) = (IF i + 1 <= Len(s) THEN Len(s) - (i + 1) + 1 ELSE 0)
      /\ \A k \in 1..(Len(s) - (i + 1) + 1) : rest[k] = s[(i + 1) + k - 1]
  BY <1>1, <1>2, SubSeqProperties
<1>4. Len(rest) = Len(s) - i /\ \A k \in 1..(Len(s) - i) : rest[k] = s[i + k]
  BY <1>1, <1>3
<1>5. \A k \in 1..n : rest[k] \in S
  BY <1>1, <1>3, <1>4, LenProperties
<1>6. /\ front \in Seq(S)
      /\ Len(front) = (IF 1 <= n THEN n - 1 + 1 ELSE 0)
      /\ \A k \in 1..(n - 1 + 1) : front[k] = rest[1 + k - 1]
  BY <1>5, SubSeqProperties
<1>7. Len(front) = n /\ \A k \in 1..n : front[k] = rest[k]
  BY <1>6
<1>8. \A k \in (i + n + 1)..Len(s) : s[k] \in S
  BY <1>1
<1>9. /\ back \in Seq(S)
      /\ Len(back) = (IF i + n + 1 <= Len(s) THEN Len(s) - (i + n + 1) + 1 ELSE 0)
      /\ \A k \in 1..(Len(s) - (i + n + 1) + 1) : back[k] = s[(i + n + 1) + k - 1]
  BY <1>1, <1>8, SubSeqProperties
<1>10. /\ Len(back) = Len(s) - i - n
       /\ \A k \in 1..(Len(s) - i - n) : back[k] = s[i + n + k]
  BY <1>1, <1>9
<1> HIDE DEF rest, front, back
<1>11. /\ front \o back \in Seq(S) /\ Len(front \o back) = n + (Len(s) - i - n)
       /\ \A k \in 1..(n + (Len(s) - i - n)) :
            (front \o back)[k] = IF k <= n THEN front[k] ELSE back[k - n]
  <2>1. /\ front \o back \in Seq(S) /\ Len(front \o back) = Len(front) + Len(back)
        /\ \A k \in 1..(Len(front) + Len(back)) :
             (front \o back)[k] = IF k <= Len(front) THEN front[k] ELSE back[k - Len(front)]
    <3>1. front \in Seq(S) /\ back \in Seq(S)
      BY <1>6, <1>9
    <3> QED
      BY <3>1, ConcatProperties, Zenon
  <2>2. Len(front) = n /\ Len(back) = Len(s) - i - n
    BY <1>7, <1>10
  <2> QED
    BY <2>1, <2>2
<1>12. \A k \in 1..Len(rest) : rest[k] = (front \o back)[k]
  <2> SUFFICES ASSUME NEW k \in 1..(Len(s) - i) PROVE rest[k] = (front \o back)[k]
    BY <1>4
  <2>1. CASE k <= n
    BY <2>1, <1>1, <1>7, <1>11
  <2>2. CASE k > n
    <3>1. k - n \in 1..(Len(s) - i - n) /\ i + n + (k - n) = i + k
      BY <2>2, <1>1
    <3>2. back[k - n] = s[i + k]
      BY <3>1, <1>10
    <3> QED
      BY <2>2, <3>2, <1>1, <1>4, <1>11
  <2>3. k <= n \/ k > n
    BY <1>1
  <2> QED
    BY <2>1, <2>2, <2>3
<1>13. rest = front \o back
  <2>1. Len(front \o back) = Len(rest)
    BY <1>1, <1>4, <1>11
  <2> QED
    BY <2>1, <1>3, <1>11, <1>12, SeqEqual
<1> QED
  BY <1>3, <1>4, <1>6, <1>7, <1>9, <1>13 DEF rest, front, back

(* A sequence of at most one element.                                        *)
LEMMA Single ==
  ASSUME NEW S, NEW s \in Seq(S), Len(s) <= 1, s # <<>>
  PROVE  Len(s) = 1 /\ Head(s) = s[1] /\ Tail(s) = <<>> /\ Head(s) \in S
<1>1. Len(s) \in Nat \ {0}
  BY EmptySeq
<1>2. Head(s) \in S /\ Tail(s) \in Seq(S) /\ Len(Tail(s)) = Len(s) - 1
  BY HeadTailProperties
<1>3. Len(s) = 1 /\ Len(Tail(s)) = 0
  BY <1>1, <1>2
<1>4. Tail(s) = <<>>
  BY <1>2, <1>3, EmptySeq
<1>5. Head(s) = s[1]
  BY <1>1
<1> QED
  BY <1>2, <1>3, <1>4, <1>5

(* Appending to the empty sequence.                                          *)
LEMMA First ==
  ASSUME NEW S, NEW e \in S
  PROVE  /\ Append(<<>>, e) \in Seq(S) /\ Append(<<>>, e) # <<>>
         /\ Len(Append(<<>>, e)) = 1 /\ Head(Append(<<>>, e)) = e
         /\ DOMAIN Append(<<>>, e) = {1} /\ Append(<<>>, e)[1] = e
BY EmptySeq, AppendProperties

(* The front of a concatenation.                                             *)
LEMMA Front ==
  ASSUME NEW S, NEW s \in Seq(S), NEW t \in Seq(S)
  PROVE  SubSeq(s \o t, 1, Len(s)) = s
<1>1. CASE s = <<>>
  BY <1>1, EmptySeq, SubSeqEmpty
<1>2. CASE s # <<>>
  <2>1. Len(s) \in 1..Len(s)
    BY <1>2, EmptySeq
  <2>2. 1 \in 1..Len(s)
    BY <2>1, LenProperties
  <2> QED
    BY <2>1, <2>2, SubSeqOfConcat1, SubSeqFull
<1> QED
  BY <1>1, <1>2

(* Bytes that move from the second of three sequences to the first.          *)
LEMMA Moving ==
  ASSUME NEW S, NEW w \in Seq(S), NEW f \in Seq(S), NEW b \in Seq(S), NEW m \in Seq(S)
  PROVE  /\ (w \o (f \o b)) \o m = ((w \o f) \o b) \o m
         /\ w \o f \in Seq(S) /\ Len(w \o f) = Len(w) + Len(f)
         /\ SubSeq(((w \o f) \o b) \o m, 1, Len(w \o f)) = w \o f
         /\ Len(w \o f) <= Len(((w \o f) \o b) \o m)
<1>1. w \o (f \o b) = (w \o f) \o b
  BY ConcatAssociative
<1>2. w \o f \in Seq(S) /\ Len(w \o f) = Len(w) + Len(f)
  BY ConcatProperties
<1> DEFINE wf == w \o f
<1>3. wf \in Seq(S)
  BY <1>2
<1> HIDE DEF wf
<1>4. b \o m \in Seq(S) /\ (wf \o b) \o m = wf \o (b \o m)
  BY <1>3, ConcatAssociative, ConcatProperties
<1>5. SubSeq(wf \o (b \o m), 1, Len(wf)) = wf
  BY <1>3, <1>4, Front
<1>6. Len(wf) \in Nat /\ Len(b \o m) \in Nat
  BY <1>3, <1>4, LenProperties
<1>7. Len(wf \o (b \o m)) = Len(wf) + Len(b \o m)
  BY <1>3, <1>4, ConcatProperties
<1>8. Len(wf) <= Len((wf \o b) \o m)
  BY <1>4, <1>6, <1>7
<1> QED
  BY <1>1, <1>2, <1>4, <1>5, <1>8 DEF wf

(* Two numbers that make one.                                                *)
LEMMA OneOf ==
  ASSUME NEW a \in Nat, NEW b \in Nat, a + b = 1, b # 0
  PROVE  a = 0 /\ b = 1
OBVIOUS

-----------------------------------------------------------------------------
(* The state *)

\* What the kernel has not taken of flush.
Rest == SubSeq(flush, offset + Taken + 1, Len(flush))

(* On an open socket there is at most one write, of all that is left of      *)
(* flush, and none unless sending_ is set.                                   *)
LEMMA OpenFacts ==
  ASSUME IInv, sock = "open"
  PROVE  /\ ~sending => offered = <<>> /\ done = <<>>
         /\ offered # <<>> =>
              /\ done = <<>> /\ sending /\ Tail(offered) = <<>> /\ Len(offered) = 1
              /\ Head(offered) = SubSeq(flush, offset + 1, Len(flush))
         /\ done # <<>> =>
              /\ offered = <<>> /\ sending /\ Tail(done) = <<>> /\ Len(done) = 1
              /\ Head(done) \in Nat /\ offset + Head(done) <= Len(flush)
         /\ Taken \in Nat /\ offset + Taken <= Len(flush)
<1>1. /\ offered \in Seq(Seq(Bytes)) /\ done \in Seq(Nat) /\ sending \in BOOLEAN
      /\ flush \in Seq(Bytes) /\ offset \in Nat /\ offset <= Len(flush)
  BY DEF IInv, TypeOK
<1>2. /\ Len(offered) \in Nat /\ (offered # <<>> => Len(offered) # 0)
      /\ Len(done) \in Nat /\ (done # <<>> => Len(done) # 0)
      /\ Len(flush) \in Nat
  BY <1>1, EmptySeq, LenProperties
<1>3. /\ sending => Len(offered) + Len(done) = 1
      /\ ~sending => Len(offered) + Len(done) = 0
  BY DEF IInv, OneWrite
<1>4. ~sending => offered = <<>> /\ done = <<>>
  BY <1>2, <1>3
<1>5. ASSUME offered # <<>>
      PROVE  /\ done = <<>> /\ sending /\ Tail(offered) = <<>> /\ Len(offered) = 1
             /\ Head(offered) = SubSeq(flush, offset + 1, Len(flush))
  <2>1. done = <<>> /\ sending /\ Len(offered) = 1
    BY <1>2, <1>3, <1>5
  <2>2. Len(offered) <= 1 /\ offered \in Seq(Seq(Bytes))
    BY <2>1, <1>1
  <2>3. Tail(offered) = <<>> /\ Head(offered) = offered[1]
    BY <2>2, <1>5, Single
  <2>4. 1 \in DOMAIN offered
    BY <2>1, <1>1, LenProperties
  <2> QED
    BY <2>1, <2>3, <2>4 DEF IInv, FlushPinned
<1>6. ASSUME done # <<>>
      PROVE  /\ offered = <<>> /\ sending /\ Tail(done) = <<>> /\ Len(done) = 1
             /\ Head(done) \in Nat /\ offset + Head(done) <= Len(flush)
  <2>1. offered = <<>> /\ sending /\ Len(done) = 1
    <3>1. Len(offered) \in Nat /\ Len(done) \in Nat /\ Len(done) # 0
      BY <1>2, <1>6
    <3>2. Len(offered) + Len(done) = 1 /\ sending
      BY <3>1, <1>3
    <3>3. Len(done) = 1 /\ Len(offered) = 0
      BY <3>1, <3>2, OneOf, Zenon
    <3> QED
      BY <3>2, <3>3, <1>2
  <2>2. Len(done) <= 1 /\ done \in Seq(Nat)
    BY <2>1, <1>1
  <2>3. Tail(done) = <<>> /\ Head(done) \in Nat
    BY <2>2, <1>6, Single
  <2> QED
    BY <2>1, <2>3, <1>6 DEF IInv, DoneFits
<1>7. Taken \in Nat /\ offset + Taken <= Len(flush)
  BY <1>1, <1>2, <1>6 DEF Taken
<1> QED
  BY <1>4, <1>5, <1>6, <1>7

(* The sequences that make up the stream.                                    *)
LEMMA RestType ==
  ASSUME IInv, sock = "open"
  PROVE  /\ Rest \in Seq(Bytes) /\ wire \in Seq(Bytes) /\ main \in Seq(Bytes)
         /\ given = (wire \o Rest) \o main
         /\ wire \o Rest \in Seq(Bytes)
<1>1. flush \in Seq(Bytes) /\ offset \in Nat /\ Taken \in Nat /\ offset + Taken <= Len(flush)
  BY OpenFacts DEF IInv, TypeOK
<1>2. offset + Taken \in Nat /\ 0 \in Nat /\ (offset + Taken) + 0 <= Len(flush)
  BY <1>1, LenProperties
<1>3. Rest \in Seq(Bytes)
  BY <1>1, <1>2, Split DEF Rest
<1> QED
  BY <1>3, ConcatProperties DEF IInv, TypeOK, StreamExact, Rest

-----------------------------------------------------------------------------
(* The actions *)

LEMMA InitInv == Init => IInv
<1> SUFFICES ASSUME Init PROVE IInv
  OBVIOUS
<1>1. /\ main = <<>> /\ flush = <<>> /\ offered = <<>> /\ done = <<>>
      /\ given = <<>> /\ wire = <<>> /\ offset = 0 /\ sending = FALSE /\ Len(<<>>) = 0
  BY EmptySeq DEF Init
<1>2. TypeOK
  <2>1. \A S : <<>> \in Seq(S)
    BY EmptySeq
  <2>2. /\ sender \in [Senders -> {"idle", "posting"}]
        /\ count \in [Senders -> 0..MaxBytes]
    BY SendPathAssumption DEF Init
  <2>3. /\ main \in Seq(Bytes) /\ flush \in Seq(Bytes) /\ offered \in Seq(Seq(Bytes))
        /\ done \in Seq(Nat) /\ given \in Seq(Bytes) /\ wire \in Seq(Bytes)
    BY <1>1, <2>1, Zenon
  <2>4. offset \in Nat /\ offset <= Len(flush)
    BY <1>1
  <2>5. /\ connected \in BOOLEAN /\ sending \in BOOLEAN /\ failed \in BOOLEAN
        /\ posted \in Nat /\ io \in {"idle", "resending"} /\ sock \in {"open", "closed"}
    BY DEF Init
  <2> QED
    BY <2>2, <2>3, <2>4, <2>5 DEF TypeOK
<1>3. OneWrite
  BY <1>1 DEF OneWrite
<1>4. FlushPinned
  BY <1>1 DEF FlushPinned
<1>5. ClosedQuiet /\ DoneFits
  BY <1>1 DEF ClosedQuiet, DoneFits
<1>6. StreamExact
  <2>1. SubSeq(flush, offset + Taken + 1, Len(flush)) = <<>>
    BY <1>1, SubSeqEmpty DEF Taken
  <2>2. <<>> \o <<>> = <<>>
    BY EmptySeq, ConcatEmptySeq
  <2> QED
    BY <1>1, <2>1, <2>2 DEF StreamExact
<1>7. NoLostWakeup
  BY <1>1 DEF NoLostWakeup
<1> QED
  BY <1>2, <1>3, <1>4, <1>5, <1>6, <1>7 DEF IInv

(* What a thread queues is a sequence of new bytes.                          *)
LEMMA QueuedBytes ==
  ASSUME TypeOK, NEW s \in Senders, NEW n \in 1..MaxBytes, Queue(s, n),
         NEW bytes, bytes = [i \in 1..n |-> <<s, count[s] + i>>]
  PROVE  bytes \in Seq(Bytes) /\ Len(bytes) = n /\ bytes # <<>>
<1>1. count[s] \in Nat /\ MaxBytes \in Nat /\ n \in Nat /\ count[s] + n <= MaxBytes
  BY SendPathAssumption DEF TypeOK, Queue
<1>2. \A i \in 1..n : count[s] + i \in 1..MaxBytes
  BY <1>1
<1>3. bytes \in [1..n -> Bytes]
  BY <1>2 DEF Bytes
<1>4. bytes \in Seq(Bytes)
  BY <1>1, <1>3, SeqDef
<1>5. Len(bytes) = n
  <2>1. DOMAIN bytes = 1..n /\ DOMAIN bytes = 1..Len(bytes) /\ Len(bytes) \in Nat
    BY <1>3, <1>4, LenProperties
  <2> QED
    BY <2>1, <1>1
<1>6. bytes # <<>>
  <2>1. n # 0
    BY <1>1
  <2>2. Len(<<>>) = 0
    BY EmptySeq
  <2> QED
    BY <2>1, <2>2, <1>5
<1> QED
  BY <1>4, <1>5, <1>6

LEMMA QueueInv ==
  ASSUME IInv, NEW s \in Senders, NEW n \in 1..MaxBytes, Queue(s, n)
  PROVE  IInv' /\ Len(given') > Len(given) /\ SubSeq(given', 1, Len(given)) = given
<1>1. PICK bytes : bytes = [i \in 1..n |-> <<s, count[s] + i>>]
  OBVIOUS
<1>2. bytes \in Seq(Bytes) /\ Len(bytes) = n /\ bytes # <<>>
  BY <1>1, QueuedBytes DEF IInv
<1>3. main' = main \o bytes /\ given' = given \o bytes
  BY <1>1 DEF Queue
<1>4. given \in Seq(Bytes) /\ main \in Seq(Bytes) /\ flush \in Seq(Bytes)
  BY DEF IInv, TypeOK
<1>5. /\ main' \in Seq(Bytes) /\ given' \in Seq(Bytes)
      /\ Len(given') = Len(given) + n /\ Len(given) \in Nat
  BY <1>2, <1>3, <1>4, ConcatProperties, LenProperties
<1>6. /\ UNCHANGED <<flush, offset, connected, sending, posted, io, failed>>
      /\ UNCHANGED <<sock, offered, done, wire>>
  BY DEF Queue, kernelVars
<1>7. TypeOK'
  <2>1. sender' \in [Senders -> {"idle", "posting"}]
    BY DEF IInv, TypeOK, Queue
  <2>2. count' \in [Senders -> 0..MaxBytes]
    <3>1. count[s] \in Nat /\ count[s] + n <= MaxBytes /\ n \in Nat /\ MaxBytes \in Nat
      BY SendPathAssumption DEF IInv, TypeOK, Queue
    <3>2. count[s] + n \in 0..MaxBytes
      BY <3>1
    <3>3. count \in [Senders -> 0..MaxBytes] /\ count' = [count EXCEPT ![s] = count[s] + n]
      BY DEF IInv, TypeOK, Queue
    <3> QED
      BY <3>2, <3>3
  <2> QED
    BY <2>1, <2>2, <1>5, <1>6 DEF IInv, TypeOK
<1>8. OneWrite' /\ FlushPinned' /\ ClosedQuiet' /\ DoneFits'
  BY <1>6 DEF IInv, OneWrite, FlushPinned, ClosedQuiet, DoneFits
<1>9. StreamExact'
  <2> SUFFICES ASSUME sock = "open" PROVE StreamExact'
    BY <1>6 DEF StreamExact
  <2>1. Rest' = Rest
    BY <1>6 DEF Rest, Taken
  <2>2. wire \o Rest \in Seq(Bytes) /\ given = (wire \o Rest) \o main
    BY RestType
  <2>3. given \o bytes = (wire \o Rest) \o (main \o bytes)
    <3> DEFINE wr == wire \o Rest
    <3>1. bytes \in Seq(Bytes) /\ main \in Seq(Bytes) /\ wr \in Seq(Bytes)
      BY <2>2, <1>2, <1>4
    <3>2. given = wr \o main
      BY <2>2
    <3> HIDE DEF wr
    <3>3. (wr \o main) \o bytes = wr \o (main \o bytes)
      BY <3>1, ConcatAssociative
    <3> QED
      BY <3>2, <3>3 DEF wr
  <2> QED
    BY <2>1, <2>3, <1>3, <1>6 DEF StreamExact, Rest, Taken
<1>10. NoLostWakeup'
  <2> SUFFICES ASSUME sock = "open" PROVE (Underway \/ failed)'
    BY <1>6 DEF NoLostWakeup
  <2>1. CASE main = <<>> \/ flush = <<>>
    <3>1. sender'[s] = "posting"
      BY <2>1 DEF Queue, IInv, TypeOK
    <3> QED
      BY <3>1 DEF Underway
  <2>2. CASE main # <<>> /\ flush # <<>>
    <3>1. Underway \/ failed
      BY <2>2 DEF IInv, NoLostWakeup
    <3>2. \A r \in Senders : sender[r] = "posting" => sender'[r] = "posting"
      BY DEF Queue, IInv, TypeOK
    <3> QED
      BY <3>1, <3>2, <1>6 DEF Underway
  <2> QED
    BY <2>1, <2>2
<1>11. Len(given') > Len(given) /\ SubSeq(given', 1, Len(given)) = given
  <2>1. SubSeq(given', 1, Len(given)) = given
    BY <1>2, <1>3, <1>4, Front
  <2> QED
    BY <2>1, <1>5
<1> QED
  BY <1>7, <1>8, <1>9, <1>10, <1>11 DEF IInv

LEMMA DispatchInv ==
  ASSUME IInv, NEW s \in Senders, Dispatch(s)
  PROVE  IInv'
<1>1. /\ UNCHANGED <<count, main, flush, offset, connected, sending, io, failed, given>>
      /\ UNCHANGED <<sock, offered, done, wire>>
      /\ posted' = posted + 1
  BY DEF Dispatch, bufferVars, kernelVars
<1>2. TypeOK'
  <2>1. sender' \in [Senders -> {"idle", "posting"}] /\ posted' \in Nat
    BY <1>1 DEF IInv, TypeOK, Dispatch
  <2> QED
    BY <2>1, <1>1 DEF IInv, TypeOK
<1>3. OneWrite' /\ FlushPinned' /\ ClosedQuiet' /\ DoneFits' /\ StreamExact'
  BY <1>1 DEF IInv, OneWrite, FlushPinned, ClosedQuiet, DoneFits, StreamExact, Taken
<1>4. NoLostWakeup'
  <2>1. posted' > 0
    BY <1>1 DEF IInv, TypeOK
  <2> QED
    BY <2>1 DEF NoLostWakeup, Underway
<1> QED
  BY <1>2, <1>3, <1>4 DEF IInv

(* What try_send() does to the buffers, before it writes: it moves main into *)
(* an empty flush, which changes nothing of the stream.                      *)
LEMMA Swap ==
  ASSUME IInv, ~sending, TrySend
  PROVE  /\ flush' \in Seq(Bytes) /\ main' \in Seq(Bytes) /\ offset' \in Nat
         /\ sock = "open" => /\ offset' <= Len(flush')
                             /\ given = (wire \o SubSeq(flush', offset' + 1, Len(flush'))) \o main'
         /\ flush' = <<>> => main' = <<>>
<1>1. /\ flush \in Seq(Bytes) /\ main \in Seq(Bytes) /\ offset \in Nat
      /\ wire \in Seq(Bytes) /\ (sock = "open" => offset <= Len(flush))
  BY DEF IInv, TypeOK
<1>2. CASE flush = <<>>
  <2>1. flush' = main /\ main' = <<>> /\ offset' = 0
    BY <1>2 DEF TrySend
  <2>2. SubSeq(flush', offset' + 1, Len(flush')) = main
    BY <2>1, <1>1, SubSeqFull
  <2>3. ASSUME sock = "open" PROVE given = (wire \o main) \o <<>>
    <3>1. Rest = <<>>
      <4>1. flush = <<>> /\ Taken \in Nat /\ offset \in Nat /\ Len(flush) = 0
        BY <1>1, <1>2, <2>3, OpenFacts, EmptySeq
      <4> QED
        BY <4>1, SubSeqEmpty DEF Rest
    <3>2. given = (wire \o <<>>) \o main
      BY <3>1, <2>3, RestType
    <3>3. wire \o <<>> = wire /\ wire \o main \in Seq(Bytes)
      BY <1>1, ConcatEmptySeq, ConcatProperties
    <3>4. (wire \o main) \o <<>> = wire \o main
      BY <3>3, ConcatEmptySeq
    <3> QED
      BY <3>2, <3>3, <3>4
  <2>4. <<>> \in Seq(Bytes) /\ 0 <= Len(main) /\ 0 \in Nat
    BY <1>1, EmptySeq, LenProperties
  <2> QED
    BY <1>1, <2>1, <2>2, <2>3, <2>4
<1>3. CASE flush # <<>>
  <2>1. flush' = flush /\ main' = main /\ offset' = offset
    BY <1>3 DEF TrySend, bufferVars
  <2>2. sock = "open" => Taken = 0
    BY OpenFacts DEF Taken
  <2>3. sock = "open" => Rest = SubSeq(flush, offset + 1, Len(flush))
    BY <2>2, <1>1 DEF Rest
  <2> QED
    BY <1>1, <1>3, <2>1, <2>3, RestType
<1> QED
  BY <1>2, <1>3

(* try_send(), wherever the I/O thread calls it from.                        *)
LEMMA TrySendInv ==
  ASSUME IInv, TrySend, posted' \in Nat, io' \in {"idle", "resending"},
         UNCHANGED <<senderVars, connected, sock, wire, given>>
  PROVE  IInv'
<1>1. UNCHANGED <<sender, count, connected, sock, wire, given>>
  BY DEF senderVars
<1>2. CASE sending
  <2>1. UNCHANGED <<main, flush, offset, sending, offered, done, failed>>
    BY <1>2 DEF TrySend, bufferVars
  <2>2. TypeOK'
    BY <1>1, <2>1 DEF IInv, TypeOK
  <2>3. OneWrite' /\ FlushPinned' /\ ClosedQuiet' /\ DoneFits' /\ StreamExact'
    BY <1>1, <2>1 DEF IInv, OneWrite, FlushPinned, ClosedQuiet, DoneFits, StreamExact, Taken
  <2>4. NoLostWakeup'
    <3>1. sock = "open" => offered # <<>> \/ done # <<>>
      <4>1. sock = "open" => Len(offered) + Len(done) = 1
        BY <1>2 DEF IInv, OneWrite
      <4>2. Len(<<>>) = 0
        BY EmptySeq
      <4> QED
        BY <4>1, <4>2
    <3> QED
      BY <3>1, <1>1, <2>1 DEF NoLostWakeup, Underway
  <2> QED
    BY <2>2, <2>3, <2>4 DEF IInv
<1>3. CASE ~sending /\ flush' = <<>>
  <2>1. UNCHANGED <<sending, offered, done, failed>>
    BY <1>3 DEF TrySend
  <2>2. /\ flush' \in Seq(Bytes) /\ main' \in Seq(Bytes) /\ offset' \in Nat
        /\ main' = <<>> /\ (sock = "open" => offset' <= Len(flush'))
    BY <1>3, Swap
  <2>3. TypeOK'
    BY <1>1, <2>1, <2>2 DEF IInv, TypeOK
  <2>4. OneWrite' /\ ClosedQuiet'
    BY <1>1, <2>1 DEF IInv, OneWrite, ClosedQuiet
  <2>5. offered' = <<>>
    BY <1>3, <2>1, OpenFacts DEF IInv, TypeOK, ClosedQuiet
  <2>6. FlushPinned'
    BY <2>5 DEF FlushPinned
  <2>7. sock = "open" => done' = <<>>
    BY <1>3, <2>1, OpenFacts
  <2>8. DoneFits'
    BY <2>7, <1>1 DEF DoneFits
  <2>9. StreamExact'
    <3> SUFFICES ASSUME sock = "open" PROVE StreamExact'
      BY <1>1 DEF StreamExact
    <3>1. Taken' = 0 /\ offset' + Taken' + 1 = offset' + 1
      BY <2>2, <2>7 DEF Taken
    <3>2. given = (wire \o SubSeq(flush', offset' + 1, Len(flush'))) \o main'
      BY <1>3, Swap
    <3> QED
      BY <3>1, <3>2, <1>1 DEF StreamExact
  <2>10. NoLostWakeup'
    BY <1>3, <2>2 DEF NoLostWakeup
  <2> QED
    BY <2>3, <2>4, <2>6, <2>8, <2>9, <2>10 DEF IInv
<1>4. CASE ~sending /\ flush' # <<>>
  <2> DEFINE left == SubSeq(flush', offset' + 1, Len(flush'))
  <2>1. sending' = TRUE /\ failed' = FALSE /\ Write(left)
    BY <1>4 DEF TrySend
  <2>2. /\ flush' \in Seq(Bytes) /\ main' \in Seq(Bytes) /\ offset' \in Nat
        /\ (sock = "open" => offset' <= Len(flush') /\ given = (wire \o left) \o main')
    BY <1>4, Swap
  <2>3. CASE sock = "open"
    <3>1. offered = <<>> /\ done = <<>>
      BY <1>4, <2>3, OpenFacts
    <3>2. left \in Seq(Bytes)
      <4>1. 0 \in Nat /\ offset' + 0 <= Len(flush')
        BY <2>2, <2>3
      <4> QED
        BY <4>1, <2>2, Split
    <3> HIDE DEF left
    <3>3. offered' = Append(<<>>, left) /\ done' = <<>>
      BY <2>1, <2>3, <3>1 DEF Write
    <3>4. /\ offered' \in Seq(Seq(Bytes)) /\ offered' # <<>> /\ Len(offered') = 1
          /\ DOMAIN offered' = {1} /\ offered'[1] = left
      BY <3>2, <3>3, First
    <3>5. done' \in Seq(Nat) /\ Len(done') = 0 /\ Taken' = 0
      BY <3>3, EmptySeq DEF Taken
    <3>6. TypeOK'
      BY <1>1, <2>1, <2>2, <2>3, <3>4, <3>5 DEF IInv, TypeOK
    <3>7. OneWrite'
      BY <2>1, <3>4, <3>5 DEF OneWrite
    <3>8. FlushPinned'
      BY <3>4 DEF FlushPinned, left
    <3>9. ClosedQuiet' /\ DoneFits'
      BY <1>1, <2>3, <3>3 DEF ClosedQuiet, DoneFits
    <3>10. StreamExact'
      <4>1. offset' + Taken' + 1 = offset' + 1
        BY <2>2, <3>5
      <4> QED
        BY <4>1, <1>1, <2>2, <2>3 DEF StreamExact, left
    <3>11. NoLostWakeup'
      BY <3>4 DEF NoLostWakeup, Underway
    <3> QED
      BY <3>6, <3>7, <3>8, <3>9, <3>10, <3>11 DEF IInv
  <2>4. CASE sock # "open"
    <3>1. sock' = "closed" /\ sock = "closed"
      BY <1>1, <2>4 DEF IInv, TypeOK
    <3>2. done' = Append(done, 0) /\ offered' = offered /\ offered = <<>>
      BY <2>1, <2>4, <3>1 DEF Write, IInv, ClosedQuiet
    <3>3. done' \in Seq(Nat)
      <4>1. 0 \in Nat /\ done \in Seq(Nat)
        BY DEF IInv, TypeOK
      <4> QED
        BY <4>1, <3>2, AppendProperties
    <3>4. TypeOK'
      BY <1>1, <2>1, <2>2, <3>1, <3>2, <3>3 DEF IInv, TypeOK
    <3>5. OneWrite' /\ ClosedQuiet' /\ DoneFits' /\ StreamExact' /\ NoLostWakeup'
      BY <3>1, <3>2 DEF OneWrite, ClosedQuiet, DoneFits, StreamExact, NoLostWakeup
    <3>6. FlushPinned'
      BY <3>2 DEF FlushPinned
    <3> QED
      BY <3>4, <3>5, <3>6 DEF IInv
  <2> QED
    BY <2>3, <2>4
<1> QED
  BY <1>2, <1>3, <1>4

LEMMA SendHandlerInv == ASSUME IInv, SendHandler PROVE IInv'
<1>1. posted' \in Nat
  BY DEF IInv, TypeOK, SendHandler
<1>2. io' \in {"idle", "resending"}
  BY DEF IInv, TypeOK, SendHandler
<1>3. TrySend /\ UNCHANGED <<senderVars, connected, sock, wire, given>>
  BY DEF SendHandler
<1> QED
  BY <1>1, <1>2, <1>3, TrySendInv

LEMMA ResendInv == ASSUME IInv, Resend PROVE IInv'
<1>1. posted' \in Nat /\ io' \in {"idle", "resending"}
  BY DEF IInv, TypeOK, Resend
<1>2. TrySend /\ UNCHANGED <<senderVars, connected, sock, wire, given>>
  BY DEF Resend
<1> QED
  BY <1>1, <1>2, TrySendInv

(* The write handler takes what was sent out of flush, to which a write that *)
(* reports no more than it was offered has a claim.                          *)
LEMMA WriteHandlerInv == ASSUME IInv, WriteHandler PROVE IInv'
<1>1. /\ UNCHANGED <<sender, count, main, connected, posted, sock, offered, wire, given>>
      /\ done # <<>> /\ done' = Tail(done) /\ sending' = FALSE
  BY DEF WriteHandler, senderVars
<1>2. /\ done \in Seq(Nat) /\ flush \in Seq(Bytes) /\ offset \in Nat
      /\ (sock = "open" => offset <= Len(flush))
  BY DEF IInv, TypeOK
<1>3. Head(done) \in Nat /\ done' \in Seq(Nat)
  BY <1>1, <1>2, HeadTailProperties
<1>4. sock = "open" => /\ done' = <<>> /\ offered' = <<>>
                       /\ Taken = Head(done) /\ Taken' = 0
                       /\ offset + Head(done) <= Len(flush)
  BY <1>1, OpenFacts DEF Taken
<1>5. \/ /\ Head(done) = 0 /\ failed' = TRUE /\ UNCHANGED <<flush, offset, io>>
      \/ /\ Head(done) # 0 /\ Advance(Head(done)) /\ io' = "resending" /\ failed' = failed
  BY DEF WriteHandler
<1>6. /\ flush' \in Seq(Bytes) /\ offset' \in Nat
      /\ sock = "open" =>
           /\ offset' <= Len(flush')
           /\ SubSeq(flush', offset' + 0 + 1, Len(flush'))
                = SubSeq(flush, offset + Head(done) + 1, Len(flush))
  <2>1. CASE Head(done) = 0
    BY <2>1, <1>2, <1>5
  <2>2. CASE Head(done) # 0 /\ offset + Head(done) = Len(flush)
    <3>1. flush' = <<>> /\ offset' = 0
      BY <2>2, <1>5 DEF Advance
    <3>2. /\ <<>> \in Seq(Bytes) /\ Len(<<>>) = 0 /\ 0 \in Nat /\ 0 <= 0
          /\ SubSeq(<<>>, 0 + 0 + 1, 0) = <<>>
      BY EmptySeq, SubSeqEmpty
    <3>3. SubSeq(flush, offset + Head(done) + 1, Len(flush)) = <<>>
      <4>1. Len(flush) \in Int /\ Len(flush) + 1 \in Int /\ Len(flush) < Len(flush) + 1
        BY <1>2, LenProperties
      <4>2. SubSeq(flush, Len(flush) + 1, Len(flush)) = <<>>
        BY <4>1, SubSeqEmpty
      <4> QED
        BY <4>2, <2>2
    <3> QED
      BY <3>1, <3>2, <3>3
  <2>3. CASE Head(done) # 0 /\ offset + Head(done) # Len(flush)
    <3>1. flush' = flush /\ offset' = offset + Head(done)
      BY <2>3, <1>5 DEF Advance
    <3>2. offset' \in Nat /\ offset' + 0 + 1 = offset + Head(done) + 1
      BY <3>1, <1>2, <1>3
    <3>3. sock = "open" => offset' <= Len(flush')
      BY <3>1, <1>4
    <3> QED
      BY <3>1, <3>2, <3>3, <1>2
  <2> QED
    BY <2>1, <2>2, <2>3
<1>7. TypeOK'
  <2>1. failed' \in BOOLEAN /\ io' \in {"idle", "resending"}
    BY <1>5 DEF IInv, TypeOK
  <2> QED
    BY <2>1, <1>1, <1>3, <1>6 DEF IInv, TypeOK
<1>8. OneWrite'
  <2>1. sock = "open" => Len(offered') = 0
    BY <1>4, EmptySeq
  <2>2. sock = "open" => Len(done') = 0
    BY <1>4, EmptySeq
  <2> QED
    BY <2>1, <2>2, <1>1 DEF OneWrite
<1>9. offered' = <<>>
  BY <1>1, <1>4 DEF IInv, TypeOK, ClosedQuiet
<1>10. FlushPinned' /\ ClosedQuiet'
  BY <1>9 DEF FlushPinned, ClosedQuiet
<1>11. DoneFits'
  BY <1>1, <1>4 DEF DoneFits
<1>12. StreamExact'
  <2> SUFFICES ASSUME sock = "open" PROVE StreamExact'
    BY <1>1 DEF StreamExact
  <2>1. given = (wire \o SubSeq(flush, offset + Head(done) + 1, Len(flush))) \o main
    BY <1>4, RestType DEF Rest
  <2> QED
    BY <2>1, <1>1, <1>4, <1>6 DEF StreamExact
<1>13. NoLostWakeup'
  BY <1>5 DEF NoLostWakeup, Underway
<1> QED
  BY <1>7, <1>8, <1>10, <1>11, <1>12, <1>13 DEF IInv

LEMMA DisconnectInv == ASSUME IInv, Disconnect PROVE IInv'
<1>1. /\ UNCHANGED <<sender, count, offset, posted, io, wire, failed, given>>
      /\ sock' = "closed" /\ offered' = <<>>
      /\ done' = done \o [i \in 1..Len(offered) |-> 0]
  BY DEF Disconnect, CloseSocket, senderVars
<1>2. /\ <<>> \in Seq(Bytes) /\ <<>> \in Seq(Seq(Bytes))
  BY EmptySeq
<1>3. done' \in Seq(Nat)
  <2>1. offered \in Seq(Seq(Bytes)) /\ done \in Seq(Nat)
    BY DEF IInv, TypeOK
  <2>2. Len(offered) \in Nat
    BY <2>1, LenProperties
  <2>3. [i \in 1..Len(offered) |-> 0] \in [1..Len(offered) -> Nat]
    OBVIOUS
  <2>4. [i \in 1..Len(offered) |-> 0] \in Seq(Nat)
    BY <2>2, <2>3, SeqDef
  <2> QED
    BY <2>1, <2>4, <1>1, ConcatProperties
<1>4. /\ main' \in Seq(Bytes) /\ flush' \in Seq(Bytes)
      /\ connected' \in BOOLEAN /\ sending' \in BOOLEAN
  BY <1>2 DEF Disconnect, IInv, TypeOK
<1>5. TypeOK'
  BY <1>1, <1>2, <1>3, <1>4 DEF IInv, TypeOK
<1>6. OneWrite' /\ ClosedQuiet' /\ DoneFits' /\ StreamExact' /\ NoLostWakeup'
  BY <1>1 DEF OneWrite, ClosedQuiet, DoneFits, StreamExact, NoLostWakeup
<1>7. FlushPinned'
  BY <1>1 DEF FlushPinned
<1> QED
  BY <1>5, <1>6, <1>7 DEF IInv

(* A write that ends, having taken n bytes of what it was offered.           *)
LEMMA WriteEnds ==
  ASSUME IInv, offered # <<>>, NEW n \in Nat, n <= Len(Head(offered)),
         offered' = Tail(offered), done' = Append(done, n),
         wire' = wire \o SubSeq(Head(offered), 1, n),
         UNCHANGED <<senderVars, bufferVars, connected, sending, posted, io, sock,
                     failed, given>>
  PROVE  /\ IInv'
         /\ sock = "open" /\ Len(wire') = Len(wire) + n
         /\ wire' = SubSeq(given, 1, Len(wire')) /\ Len(wire') <= Len(given)
<1>1. UNCHANGED <<sender, count, main, flush, offset, connected, sending, posted, io, sock,
                  failed, given>>
  BY DEF senderVars, bufferVars
<1>2. sock = "open"
  BY DEF IInv, TypeOK, ClosedQuiet
<1>3. /\ done = <<>> /\ sending /\ offered' = <<>> /\ Len(offered) = 1
      /\ Head(offered) = SubSeq(flush, offset + 1, Len(flush))
      /\ Taken = 0
  BY <1>2, OpenFacts DEF Taken
<1>4. done' \in Seq(Nat) /\ done' # <<>> /\ Len(done') = 1 /\ Head(done') = n /\ Taken' = n
  BY <1>3, First DEF Taken
<1>5. /\ flush \in Seq(Bytes) /\ offset \in Nat /\ main \in Seq(Bytes) /\ wire \in Seq(Bytes)
      /\ offset <= Len(flush) /\ given \in Seq(Bytes)
  BY <1>2 DEF IInv, TypeOK
<1>6. offset + n <= Len(flush)
  <2>1. 0 \in Nat /\ Len(flush) \in Nat
    BY <1>5, LenProperties
  <2>2. offset + 0 <= Len(flush)
    BY <2>1, <1>5
  <2>3. Len(SubSeq(flush, offset + 1, Len(flush))) = Len(flush) - offset
    BY <2>1, <2>2, <1>5, Split
  <2>4. n <= Len(flush) - offset
    BY <2>3, <1>3
  <2> QED
    BY <2>1, <2>4, <1>5
<1> DEFINE rest == SubSeq(flush, offset + 1, Len(flush))
           front == SubSeq(rest, 1, n)
           back == SubSeq(flush, offset + n + 1, Len(flush))
<1>7. front \in Seq(Bytes) /\ Len(front) = n /\ back \in Seq(Bytes) /\ rest = front \o back
  <2>1. flush \in Seq(Bytes) /\ offset \in Nat /\ n \in Nat
    BY <1>5
  <2>2. front \in Seq(Bytes)
    BY <2>1, <1>6, Split
  <2>3. Len(front) = n
    BY <2>1, <1>6, Split
  <2>4. back \in Seq(Bytes)
    BY <2>1, <1>6, Split
  <2>5. rest = front \o back
    BY <2>1, <1>6, Split
  <2> QED
    BY <2>2, <2>3, <2>4, <2>5
<1>8. Rest = rest /\ Rest' = back
  <2>1. offset + 0 + 1 = offset + 1
    BY <1>5
  <2> QED
    BY <2>1, <1>1, <1>3, <1>4 DEF Rest
<1>9. wire' = wire \o front
  BY <1>3
<1> HIDE DEF rest, front, back
<1>10. /\ given = ((wire \o front) \o back) \o main
       /\ wire' \in Seq(Bytes) /\ Len(wire') = Len(wire) + n
       /\ wire' = SubSeq(given, 1, Len(wire')) /\ Len(wire') <= Len(given)
  <2>1. given = (wire \o (front \o back)) \o main
    BY <1>2, <1>7, <1>8, RestType
  <2>2. front \in Seq(Bytes) /\ back \in Seq(Bytes)
    BY <1>7
  <2>3. wire \in Seq(Bytes) /\ main \in Seq(Bytes)
    BY <1>5
  <2>4. /\ (wire \o (front \o back)) \o main = ((wire \o front) \o back) \o main
        /\ wire \o front \in Seq(Bytes) /\ Len(wire \o front) = Len(wire) + Len(front)
        /\ SubSeq(((wire \o front) \o back) \o main, 1, Len(wire \o front)) = wire \o front
        /\ Len(wire \o front) <= Len(((wire \o front) \o back) \o main)
    BY <2>2, <2>3, Moving, Zenon
  <2>5. given = ((wire \o front) \o back) \o main
    BY <2>1, <2>4, Zenon
  <2> QED
    BY <2>4, <2>5, <1>7, <1>9, Zenon
<1>11. given = (wire' \o back) \o main
  BY <1>9, <1>10, Zenon
<1>12. TypeOK'
  <2>1. offered' \in Seq(Seq(Bytes))
    BY <1>3, EmptySeq
  <2> QED
    BY <2>1, <1>1, <1>4, <1>10 DEF IInv, TypeOK
<1>13. OneWrite'
  <2>1. Len(offered') = 0
    BY <1>3, EmptySeq
  <2> QED
    BY <2>1, <1>1, <1>3, <1>4 DEF OneWrite
<1>14. FlushPinned' /\ ClosedQuiet'
  BY <1>3 DEF FlushPinned, ClosedQuiet
<1>15. DoneFits'
  BY <1>1, <1>4, <1>6 DEF DoneFits
<1>16. StreamExact'
  BY <1>1, <1>8, <1>11 DEF StreamExact, Rest
<1>17. NoLostWakeup'
  BY <1>4 DEF NoLostWakeup, Underway
<1> QED
  BY <1>2, <1>10, <1>12, <1>13, <1>14, <1>15, <1>16, <1>17 DEF IInv

LEMMA KernelTakesInv ==
  ASSUME IInv, KernelTakes
  PROVE  /\ IInv'
         /\ sock = "open" /\ Len(wire') > Len(wire) /\ Len(wire') <= Len(given)
         /\ wire' = SubSeq(given, 1, Len(wire'))
         /\ UNCHANGED <<given, sock>>
<1>1. PICK n \in 1..Len(Head(offered)) :
        /\ wire' = wire \o SubSeq(Head(offered), 1, n)
        /\ done' = Append(done, n)
  BY DEF KernelTakes
<1>2. n \in Nat /\ n > 0 /\ n <= Len(Head(offered))
  <2>1. sock = "open" /\ offered # <<>>
    BY DEF KernelTakes, IInv, TypeOK, ClosedQuiet
  <2>2. offered \in Seq(Seq(Bytes))
    BY DEF IInv, TypeOK
  <2>3. Head(offered) \in Seq(Bytes)
    BY <2>1, <2>2, HeadTailProperties
  <2>4. Len(Head(offered)) \in Nat
    BY <2>3, LenProperties
  <2> QED
    BY <2>4
<1>3. /\ offered # <<>> /\ offered' = Tail(offered)
      /\ UNCHANGED <<senderVars, bufferVars, connected, sending, posted, io, sock, failed, given>>
  BY DEF KernelTakes
<1>4. /\ IInv'
      /\ sock = "open" /\ Len(wire') = Len(wire) + n
      /\ wire' = SubSeq(given, 1, Len(wire')) /\ Len(wire') <= Len(given)
  BY <1>1, <1>2, <1>3, WriteEnds
<1>5. Len(wire) \in Nat
  BY LenProperties DEF IInv, TypeOK
<1>6. Len(wire') > Len(wire)
  BY <1>2, <1>4, <1>5
<1> QED
  BY <1>3, <1>4, <1>6

LEMMA KernelFailsInv == ASSUME IInv, KernelFails PROVE IInv'
<1>1. /\ offered # <<>> /\ offered' = Tail(offered) /\ done' = Append(done, 0)
      /\ wire' = wire
      /\ UNCHANGED <<senderVars, bufferVars, connected, sending, posted, io, sock, failed, given>>
  BY DEF KernelFails
<1>2. offered \in Seq(Seq(Bytes)) /\ wire \in Seq(Bytes)
  BY DEF IInv, TypeOK
<1>3. Head(offered) \in Seq(Bytes)
  BY <1>1, <1>2, HeadTailProperties
<1>4. 0 \in Nat /\ 0 <= Len(Head(offered))
  BY <1>3, LenProperties
<1>5. SubSeq(Head(offered), 1, 0) = <<>>
  BY <1>3, SubSeqEmpty
<1>6. wire \o <<>> = wire
  BY <1>2, ConcatEmptySeq
<1>7. wire' = wire \o SubSeq(Head(offered), 1, 0)
  BY <1>1, <1>5, <1>6
<1> QED
  BY <1>1, <1>4, <1>7, WriteEnds

LEMMA NextInv == ASSUME IInv, [Next]_vars PROVE IInv'
<1>1. CASE UNCHANGED vars
  BY <1>1 DEF vars, senderVars, bufferVars, kernelVars, IInv, TypeOK, OneWrite, FlushPinned,
    ClosedQuiet, DoneFits, StreamExact, Taken, NoLostWakeup, Underway
<1>2. ASSUME NEW s \in Senders, NEW n \in 1..MaxBytes, Queue(s, n) PROVE IInv'
  BY <1>2, QueueInv
<1>3. ASSUME NEW s \in Senders, Dispatch(s) PROVE IInv'
  BY <1>3, DispatchInv
<1>4. CASE SendHandler
  BY <1>4, SendHandlerInv
<1>5. CASE WriteHandler
  BY <1>5, WriteHandlerInv
<1>6. CASE Resend
  BY <1>6, ResendInv
<1>7. CASE Disconnect
  BY <1>7, DisconnectInv
<1>8. CASE KernelTakes
  BY <1>8, KernelTakesInv
<1>9. CASE KernelFails
  BY <1>9, KernelFailsInv
<1> QED
  BY <1>1, <1>2, <1>3, <1>4, <1>5, <1>6, <1>7, <1>8, <1>9 DEF Next

-----------------------------------------------------------------------------
(* The theorems *)

LEMMA Inductive == Spec => []IInv
<1>1. Init => IInv
  BY InitInv
<1>2. IInv /\ [Next]_vars => IInv'
  BY NextInv
<1> QED
  BY <1>1, <1>2, PTL DEF Spec

(* The offset into the flush buffer never passes the size it is compared     *)
(* with for equality, and the buffers hold bytes that were given.            *)
THEOREM TypeCorrect == Spec => []TypeOK
<1>1. IInv => TypeOK
  BY DEF IInv
<1> QED
  BY <1>1, Inductive, PTL

(* As long as the socket is open, the bytes that threads gave to             *)
(* send_async() are those that left, then the rest of flush, then main.      *)
THEOREM StreamIsExact == Spec => []StreamExact
<1>1. IInv => StreamExact
  BY DEF IInv
<1> QED
  BY <1>1, Inductive, PTL

(* try_send() never starts a second write while one is under way.            *)
THEOREM OneWriteAtATime == Spec => []OneWrite
<1>1. IInv => OneWrite
  BY DEF IInv
<1> QED
  BY <1>1, Inductive, PTL

(* The buffer that a write reads is not changed before the write ends.       *)
THEOREM FlushIsPinned == Spec => []FlushPinned
<1>1. IInv => FlushPinned
  BY DEF IInv
<1> QED
  BY <1>1, Inductive, PTL

(* send_async() leaves its bytes to others only if somebody will send them.  *)
THEOREM NoWakeupIsLost == Spec => []NoLostWakeup
<1>1. IInv => NoLostWakeup
  BY DEF IInv
<1> QED
  BY <1>1, Inductive, PTL

(* The two buffers and their handlers implement the abstract stream.         *)
THEOREM ImplementsStream == Spec => StreamSpec
<1>1. Init => Stream!Init
  BY DEF Init, Stream!Init
<1>2. ASSUME IInv, [Next]_vars PROVE [Stream!Next]_Stream!vars
  <2> USE <1>2
  <2>1. CASE UNCHANGED vars
    BY <2>1 DEF vars, kernelVars, Stream!vars
  <2>2. ASSUME NEW s \in Senders, NEW n \in 1..MaxBytes, Queue(s, n)
        PROVE  Stream!Give
    <3>1. /\ IInv'
          /\ Len(given') > Len(given) /\ SubSeq(given', 1, Len(given)) = given
      BY <2>2, QueueInv
    <3>2. UNCHANGED <<wire, sock>>
      BY <2>2 DEF Queue, kernelVars
    <3> QED
      BY <3>1, <3>2 DEF Stream!Give, IInv, TypeOK
  <2>3. ASSUME NEW s \in Senders, Dispatch(s) PROVE UNCHANGED <<given, wire, sock>>
    BY <2>3 DEF Dispatch, kernelVars
  <2>4. ASSUME SendHandler \/ WriteHandler \/ Resend \/ KernelFails
        PROVE  UNCHANGED <<given, wire, sock>>
    BY <2>4 DEF SendHandler, WriteHandler, Resend, KernelFails
  <2>5. CASE Disconnect
    <3>1. UNCHANGED <<given, wire>> /\ sock' = "closed"
      BY <2>5 DEF Disconnect, CloseSocket
    <3> QED
      BY <3>1 DEF Stream!Next, Stream!Close, Stream!vars
  <2>6. CASE KernelTakes
    <3>1. /\ sock = "open" /\ Len(wire') > Len(wire) /\ Len(wire') <= Len(given)
          /\ wire' = SubSeq(given, 1, Len(wire')) /\ UNCHANGED <<given, sock>>
          /\ IInv'
      BY <2>6, KernelTakesInv
    <3>2. Len(wire) \in Nat /\ Len(wire') \in Nat /\ Len(given) \in Nat
      BY <3>1, LenProperties DEF IInv, TypeOK
    <3>3. Len(wire') \in (Len(wire) + 1)..Len(given)
      BY <3>1, <3>2
    <3> QED
      BY <3>1, <3>3 DEF Stream!Next, Stream!Leave
  <2> QED
    BY <2>1, <2>2, <2>3, <2>4, <2>5, <2>6 DEF Next, Stream!Next, Stream!vars
<1>3. IInv /\ [Next]_vars => [Stream!Next]_Stream!vars
  BY <1>2
<1> QED
  BY <1>1, <1>3, Inductive, PTL DEF Spec, StreamSpec, Stream!Spec
=============================================================================
