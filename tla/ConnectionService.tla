------------------------- MODULE ConnectionService -------------------------
(***************************************************************************)
(* What the server promises about its connections, with no sockets, no     *)
(* buffers and no handlers: connections are taken one at a time and in     *)
(* order, each is answered at most once and only while it is open, and one *)
(* that is closed or lost stays so.                                        *)
(***************************************************************************)
EXTENDS Integers

CONSTANT Id    \* the ids of connections, consecutive numbers from 1

VARIABLES
  phase,      \* of every connection
  answers     \* how often it was answered

vars == <<phase, answers>>

Phases == {"absent", "listening", "open", "closed", "lost"}

TypeOK ==
  /\ phase \in [Id -> Phases]
  /\ answers \in [Id -> {0, 1}]

Init ==
  /\ phase = [c \in Id |-> "absent"]
  /\ answers = [c \in Id |-> 0]

Begin ==
  /\ \A c \in Id : phase[c] = "absent"
  /\ phase' = [c \in Id |-> IF c = 1 THEN "listening" ELSE "absent"]
  /\ UNCHANGED answers

(* Taking a connection, or losing it, may arm the next one.                *)
Take(c) ==
  /\ phase[c] = "listening"
  /\ \E taken \in {"open", "lost"}, next \in {"absent", "listening"} :
       phase' = [d \in Id |-> IF d = c THEN taken
                              ELSE IF d = c + 1 THEN next ELSE phase[d]]
  /\ UNCHANGED answers

Answer(c) ==
  /\ phase[c] = "open" /\ answers[c] = 0
  /\ answers' = [answers EXCEPT ![c] = 1]
  /\ \E next \in {"open", "closed"} : phase' = [phase EXCEPT ![c] = next]

Close(c) ==
  /\ phase[c] = "open"
  /\ phase' = [phase EXCEPT ![c] = "closed"]
  /\ UNCHANGED answers

Next ==
  \/ Begin
  \/ \E c \in Id : Take(c) \/ Answer(c) \/ Close(c)

Spec == Init /\ [][Next]_vars
=============================================================================
