------------------------------ MODULE ByteStream ------------------------------
(***************************************************************************)
(* What a session promises the threads that send through it: the bytes     *)
(* they give it leave in the order in which they were given, each of them  *)
(* once, until the session is closed.  SendPath implements it.             *)
(***************************************************************************)
EXTENDS Integers, Sequences

CONSTANT Bytes

VARIABLES
  given,    \* the bytes given, in order
  wire,     \* the bytes that left
  open      \* the connection is open

vars == <<given, wire, open>>

Init == given = <<>> /\ wire = <<>> /\ open = TRUE

Give ==
  /\ given' \in Seq(Bytes)
  /\ Len(given') > Len(given) /\ SubSeq(given', 1, Len(given)) = given
  /\ UNCHANGED <<wire, open>>

(* Some of the bytes that are due leave, the oldest first.                   *)
Leave ==
  /\ open
  /\ \E n \in (Len(wire) + 1)..Len(given) : wire' = SubSeq(given, 1, n)
  /\ UNCHANGED <<given, open>>

Close ==
  /\ open /\ open' = FALSE
  /\ UNCHANGED <<given, wire>>

Next == Give \/ Leave \/ Close

Spec == Init /\ [][Next]_vars
=============================================================================
