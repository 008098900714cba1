--------------------------- MODULE HttpParserProofs ---------------------------
(***************************************************************************)
(* Proofs about module HttpParser: whatever requests are sent, of any      *)
(* length, and wherever their bytes are cut.                               *)
(***************************************************************************)
EXTENDS HttpParser, WellFoundedInduction, TLAPS

-----------------------------------------------------------------------------
(* Lemmas about sets of positions. *)

(* Every nonempty set of naturals has a smallest member, which is its Min.   *)
LEMMA SmallestOf ==
  ASSUME NEW S, S \subseteq Nat, S # {}
  PROVE  \E n \in S : \A m \in S : n <= m
<1> DEFINE less == OpToRel(<, Nat)
<1>1. PICK n \in S : \A m \in S : ~(<<m, n>> \in less)
  BY NatLessThanWellFounded, WFMin
<1>2. ASSUME NEW m \in S PROVE n <= m
  <2>1. m \in Nat /\ n \in Nat
    OBVIOUS
  <2>2. m < n => <<m, n>> \in less
    BY <2>1 DEF OpToRel
  <2>3. ~(m < n)
    <3> HIDE DEF less
    <3> QED BY <1>1, <2>2
  <2> QED BY <2>1, <2>3
<1> QED BY <1>2

LEMMA MinOf ==
  ASSUME NEW S, S \subseteq Nat, S # {}
  PROVE  Min(S) \in S /\ \A m \in S : Min(S) <= m
<1>1. \E n \in S : \A m \in S : n <= m
  BY SmallestOf
<1> QED BY <1>1 DEF Min

-----------------------------------------------------------------------------
(* Lemmas about the text of a request. *)

LEMMA LinesAt ==
  ASSUME NEW ns \in Seq(Names)
  PROVE  /\ Lines(ns) \in Seq(Tokens) /\ Len(Lines(ns)) = 5 * Len(ns)
         /\ \A j \in 0..Len(ns) - 1 : Lines(ns)[5 * j + 1] = ns[j + 1]
<1>1. Len(ns) \in Nat /\ DOMAIN ns = 1..Len(ns)
  OBVIOUS
<1>2. 5 * Len(ns) \in Nat
  BY <1>1
<1>3. ASSUME NEW i \in 1..5 * Len(ns)
      PROVE  /\ ((i - 1) \div 5) + 1 \in 1..Len(ns)
             /\ ((i - 1) % 5) + 1 \in 1..5
  BY <1>1
<1>4. ASSUME NEW name \in Names, NEW k \in 1..5
      PROVE  Line(name)[k] \in Tokens
  <2>1. name \in Tokens
    BY DEF Tokens
  <2>2. k = 1 \/ k = 2 \/ k = 3 \/ k = 4 \/ k = 5
    OBVIOUS
  <2> QED BY <2>1, <2>2 DEF Line, Tokens
<1>5. \A k \in 1..Len(ns) : ns[k] \in Names
  BY <1>1
<1>6. \A i \in 1..5 * Len(ns) :
        Line(ns[((i - 1) \div 5) + 1])[((i - 1) % 5) + 1] \in Tokens
  BY <1>3, <1>4, <1>5
<1>7. Lines(ns) \in Seq(Tokens) /\ Len(Lines(ns)) = 5 * Len(ns)
  BY <1>2, <1>6 DEF Lines
<1>8. ASSUME NEW j \in 0..Len(ns) - 1
      PROVE  Lines(ns)[5 * j + 1] = ns[j + 1]
  <2>1. 5 * j + 1 \in 1..5 * Len(ns)
    BY <1>1
  <2>2. (5 * j + 1 - 1) \div 5 = j /\ (5 * j + 1 - 1) % 5 = 0
    BY <1>1
  <2>3. Lines(ns)[5 * j + 1] = Line(ns[j + 1])[1]
    BY <2>1, <2>2 DEF Lines
  <2> QED BY <2>3 DEF Line
<1> QED BY <1>7, <1>8
(* Where the parts of two texts come to lie in the whole.                    *)
LEMMA Joined ==
  ASSUME NEW s \in Seq(Tokens), NEW t \in Seq(Tokens)
  PROVE  /\ s \o t \in Seq(Tokens) /\ Len(s \o t) = Len(s) + Len(t)
         /\ Len(s) \in Nat /\ Len(t) \in Nat
         /\ \A i \in 1..Len(s) : (s \o t)[i] = s[i]
         /\ \A i \in 1..Len(t) : (s \o t)[Len(s) + i] = t[i]
OBVIOUS

(* The headers ns and their empty line lie at position p of the text c, as   *)
(* far as it goes.                                                           *)
Block(c, p, ns) ==
  /\ \A j \in 0..Len(ns) - 1 : p + 5 * j <= Len(c) => c[p + 5 * j] = ns[j + 1]
  /\ p + 5 * Len(ns) <= Len(c) => c[p + 5 * Len(ns)] = "cr"
  /\ p + 5 * Len(ns) + 1 <= Len(c) => c[p + 5 * Len(ns) + 1] = "lf"

\* A head, headers, the empty line, a tail.
Text(head, ns, tail) == head \o Lines(ns) \o EmptyLine \o tail

LEMMA BlockIn ==
  ASSUME NEW head \in Seq(Tokens), NEW ns \in Seq(Names), NEW tail \in Seq(Tokens)
  PROVE  LET c == Text(head, ns, tail) IN
         /\ c \in Seq(Tokens) /\ Len(c) = Len(head) + 5 * Len(ns) + 2 + Len(tail)
         /\ Block(c, Len(head) + 1, ns)
         /\ \A i \in 1..Len(head) : c[i] = head[i]
         /\ \A i \in 1..Len(tail) : c[Len(head) + 5 * Len(ns) + 2 + i] = tail[i]
<1> DEFINE c == Text(head, ns, tail)
           a == head \o Lines(ns)
           b == a \o EmptyLine
<1>0. c = b \o tail
  BY DEF Text
<1>1. Lines(ns) \in Seq(Tokens) /\ Len(Lines(ns)) = 5 * Len(ns) /\ Len(ns) \in Nat
  BY LinesAt
<1>2. EmptyLine \in Seq(Tokens) /\ Len(EmptyLine) = 2 /\ EmptyLine[1] = "cr" /\ EmptyLine[2] = "lf"
  BY DEF EmptyLine, Tokens
<1>3. /\ a \in Seq(Tokens) /\ Len(a) = Len(head) + 5 * Len(ns) /\ Len(head) \in Nat
      /\ \A i \in 1..Len(head) : a[i] = head[i]
      /\ \A i \in 1..5 * Len(ns) : a[Len(head) + i] = Lines(ns)[i]
  <2> DEFINE t == Lines(ns)
  <2>1. t \in Seq(Tokens) /\ Len(t) = 5 * Len(ns)
    BY <1>1
  <2> HIDE DEF t
  <2>2. /\ head \o t \in Seq(Tokens) /\ Len(head \o t) = Len(head) + Len(t)
        /\ Len(head) \in Nat
        /\ \A i \in 1..Len(head) : (head \o t)[i] = head[i]
        /\ \A i \in 1..Len(t) : (head \o t)[Len(head) + i] = t[i]
    BY <2>1, Joined
  <2>3. a = head \o t
    BY DEF t
  <2>4. \A i \in 1..5 * Len(ns) : a[Len(head) + i] = t[i]
    BY <2>1, <2>2, <2>3
  <2>5. a \in Seq(Tokens) /\ Len(a) = Len(head) + 5 * Len(ns)
    BY <2>1, <2>2, <2>3
  <2>6. \A i \in 1..Len(head) : a[i] = head[i]
    BY <2>2, <2>3
  <2> QED BY <2>2, <2>4, <2>5, <2>6 DEF t
<1> HIDE DEF a
<1>4. /\ b \in Seq(Tokens) /\ Len(b) = Len(a) + 2
      /\ \A i \in 1..Len(a) : b[i] = a[i]
      /\ \A i \in 1..2 : b[Len(a) + i] = EmptyLine[i]
  <2>1. /\ a \o EmptyLine \in Seq(Tokens) /\ Len(a \o EmptyLine) = Len(a) + Len(EmptyLine)
        /\ \A i \in 1..Len(a) : (a \o EmptyLine)[i] = a[i]
        /\ \A i \in 1..Len(EmptyLine) : (a \o EmptyLine)[Len(a) + i] = EmptyLine[i]
    BY <1>2, <1>3, Joined
  <2>2. b = a \o EmptyLine
    OBVIOUS
  <2> QED BY <1>2, <2>1, <2>2
<1> HIDE DEF b
<1>5. /\ c \in Seq(Tokens) /\ Len(c) = Len(b) + Len(tail) /\ Len(tail) \in Nat
      /\ \A i \in 1..Len(b) : c[i] = b[i]
      /\ \A i \in 1..Len(tail) : c[Len(b) + i] = tail[i]
  <2>1. /\ b \o tail \in Seq(Tokens) /\ Len(b \o tail) = Len(b) + Len(tail) /\ Len(tail) \in Nat
        /\ \A i \in 1..Len(b) : (b \o tail)[i] = b[i]
        /\ \A i \in 1..Len(tail) : (b \o tail)[Len(b) + i] = tail[i]
    BY <1>4, Joined
  <2> QED BY <1>0, <2>1
<1> HIDE DEF c
<1>6. Len(b) = Len(head) + 5 * Len(ns) + 2
  BY <1>1, <1>3, <1>4
<1>7. Len(c) = Len(head) + 5 * Len(ns) + 2 + Len(tail)
  BY <1>5, <1>6
<1>8. \A i \in 1..Len(head) : c[i] = head[i]
  BY <1>1, <1>3, <1>4, <1>5, <1>6
<1>9. \A i \in 1..Len(tail) : c[Len(head) + 5 * Len(ns) + 2 + i] = tail[i]
  BY <1>5, <1>6
<1>10. ASSUME NEW j \in 0..Len(ns) - 1
       PROVE  c[Len(head) + 1 + 5 * j] = ns[j + 1]
  <2>1. j \in Nat /\ 5 * j + 1 \in 1..5 * Len(ns)
    BY <1>1
  <2>2. Len(head) + (5 * j + 1) \in 1..Len(a)
    BY <1>1, <1>3, <2>1
  <2>3. Len(head) + (5 * j + 1) \in 1..Len(b)
    BY <1>3, <1>4, <2>2
  <2>4. c[Len(head) + (5 * j + 1)] = Lines(ns)[5 * j + 1]
    BY <1>3, <1>4, <1>5, <2>1, <2>2, <2>3
  <2>5. Lines(ns)[5 * j + 1] = ns[j + 1]
    BY LinesAt
  <2>6. Len(head) + (5 * j + 1) = Len(head) + 1 + 5 * j
    BY <1>3, <2>1
  <2> QED BY <2>4, <2>5, <2>6
<1>11. c[Len(head) + 1 + 5 * Len(ns)] = "cr" /\ c[Len(head) + 1 + 5 * Len(ns) + 1] = "lf"
  <2>1. Len(a) + 1 = Len(head) + 1 + 5 * Len(ns) /\ Len(a) + 2 = Len(head) + 1 + 5 * Len(ns) + 1
    BY <1>1, <1>3
  <2>2. Len(a) + 1 \in 1..Len(b) /\ Len(a) + 2 \in 1..Len(b)
    BY <1>1, <1>3, <1>4
  <2>3. b[Len(a) + 1] = "cr" /\ b[Len(a) + 2] = "lf"
    BY <1>2, <1>4
  <2> QED BY <1>5, <2>1, <2>2, <2>3
<1>12. Block(c, Len(head) + 1, ns)
  BY <1>10, <1>11 DEF Block
<1> QED BY <1>5, <1>7, <1>8, <1>9, <1>12 DEF c

-----------------------------------------------------------------------------
(* Lemmas about parse_message_header. *)

How == {"absent", "empty", "cut", "whole"}

StopType == [at : Nat \ {0}, headers : [Names -> How], error : BOOLEAN]

LEMMA NoHeadersType == NoHeaders \in [Names -> How]
BY DEF NoHeaders, How

(* The last line read knows of its own header only.                          *)
LEMMA LastLineOf ==
  ASSUME NEW c, Len(c) \in Nat, NEW q \in Nat, q <= Len(c) + 1
  PROVE  /\ LastLine(c, q) \in StopType
         /\ \A name \in Names : LastLine(c, q).headers[name] # "absent" =>
              q <= Len(c) /\ c[q] = name
<1>0. Left(c, q) \in Nat /\ (Left(c, q) # 0 => q <= Len(c))
  BY DEF Left
<1>1. CASE Left(c, q) = 0
  <2>1. LastLine(c, q) = Stop(Len(c) + 1, NoHeaders, FALSE)
    BY <1>1 DEF LastLine
  <2>2. \A name \in Names : NoHeaders[name] = "absent"
    BY DEF NoHeaders
  <2> QED BY <2>1, <2>2, NoHeadersType DEF Stop, StopType
<1>2. CASE Left(c, q) # 0 /\ c[q] \notin Names
  <2>1. LastLine(c, q) = Stop(Len(c) + 2, NoHeaders, TRUE)
    BY <1>2 DEF LastLine
  <2>2. \A name \in Names : NoHeaders[name] = "absent"
    BY DEF NoHeaders
  <2> QED BY <2>1, <2>2, NoHeadersType DEF Stop, StopType
<1>3. CASE Left(c, q) # 0 /\ c[q] \in Names
  <2>1. \A h \in How : Only(c[q], h) \in [Names -> How]
    BY NoHeadersType DEF Only
  <2>2. \A h \in How : \A name \in Names : Only(c[q], h)[name] # "absent" => name = c[q]
    BY DEF NoHeaders, Only
  <2>3. CASE Left(c, q) > 4
    <3>1. LastLine(c, q) = Stop(q + 3, Only(c[q], "whole"), FALSE)
      BY <1>3, <2>3 DEF LastLine
    <3>2. "whole" \in How
      BY DEF How
    <3> QED BY <1>0, <1>3, <2>1, <2>2, <3>1, <3>2 DEF Stop, StopType
  <2>4. CASE ~(Left(c, q) > 4)
    <3>1. LastLine(c, q) = Stop(Len(c) + 2, Only(c[q], CutLine[Left(c, q)]), Left(c, q) \in {1, 4})
      BY <1>3, <2>4 DEF LastLine
    <3>2. Left(c, q) = 1 \/ Left(c, q) = 2 \/ Left(c, q) = 3 \/ Left(c, q) = 4
      BY <1>0, <1>3, <2>4
    <3>3. CutLine[Left(c, q)] \in How
      BY <3>2 DEF How, CutLine
    <3> QED BY <1>0, <1>3, <2>1, <2>2, <3>1, <3>3 DEF Stop, StopType
  <2> QED BY <2>3, <2>4
<1> QED BY <1>0, <1>1, <1>2, <1>3

LinesFrom(c, p) == p..(Len(c) + 1) \cap {p + 5 * j : j \in 0..Len(c)}

LastFrom(c, p) == Min({q \in LinesFrom(c, p) : EndsAt(c, q)})

\* What MessageHeader gives, with the names of its parts.
LEMMA HeaderParts ==
  ASSUME NEW c, NEW p, ~(p >= Len(c) + 1)
  PROVE  MessageHeader(c, p) =
           Stop(LastLine(c, LastFrom(c, p)).at,
                [name \in Names |->
                   IF name \in {c[q] : q \in {l \in LinesFrom(c, p) : l < LastFrom(c, p)}}
                   THEN "whole" ELSE LastLine(c, LastFrom(c, p)).headers[name]],
                LastLine(c, LastFrom(c, p)).error)
BY DEF MessageHeader, LinesFrom, LastFrom

(* There is a last line, and no line before it ends the reading.             *)
LEMMA LastExists ==
  ASSUME NEW c, Len(c) \in Nat, NEW p \in Nat, p <= Len(c)
  PROVE  /\ LastFrom(c, p) \in LinesFrom(c, p) /\ EndsAt(c, LastFrom(c, p))
         /\ \A l \in LinesFrom(c, p) : EndsAt(c, l) => LastFrom(c, p) <= l
         /\ LinesFrom(c, p) \subseteq Nat
<1> DEFINE rest == {Len(c) + 1 - q : q \in LinesFrom(c, p)}
           ends == {q \in LinesFrom(c, p) : EndsAt(c, q)}
<1>1. \A l \in LinesFrom(c, p) : l \in Nat /\ l <= Len(c) + 1
  BY DEF LinesFrom
<1>2. p \in LinesFrom(c, p)
  <2>1. p = p + 5 * 0 /\ 0 \in 0..Len(c) /\ p \in p..(Len(c) + 1)
    OBVIOUS
  <2> QED BY <2>1 DEF LinesFrom
<1>3. rest \subseteq Nat /\ rest # {}
  <2>1. \A l \in LinesFrom(c, p) : Len(c) + 1 - l \in Nat
    BY <1>1
  <2> QED BY <1>2, <2>1
<1>4. PICK r \in rest : \A t \in rest : r <= t
  <2> HIDE DEF rest
  <2> QED BY <1>3, SmallestOf
<1>5. PICK q \in LinesFrom(c, p) : r = Len(c) + 1 - q
  OBVIOUS
<1>6. ASSUME NEW l \in LinesFrom(c, p) PROVE l <= q
  <2>1. Len(c) + 1 - q <= Len(c) + 1 - l
    BY <1>4, <1>5
  <2>2. l \in Nat /\ q \in Nat
    BY <1>1
  <2> QED BY <2>1, <2>2
<1>7. q + 5 > Len(c) + 1
  <2> SUFFICES ASSUME q + 5 <= Len(c) + 1 PROVE FALSE
    BY <1>1
  <2>1. PICK j \in 0..Len(c) : q = p + 5 * j
    BY DEF LinesFrom
  <2>2. q + 5 = p + 5 * (j + 1)
    BY <2>1
  <2>3. j + 1 \in 0..Len(c)
    BY <2>1
  <2>4. q + 5 \in p..(Len(c) + 1)
    BY <2>1
  <2>5. q + 5 \in LinesFrom(c, p)
    BY <2>2, <2>3, <2>4 DEF LinesFrom
  <2>6. q + 5 <= q /\ q \in Nat
    BY <1>1, <1>6, <2>5
  <2> QED BY <2>6
<1>8. q \in ends
  BY <1>1, <1>7 DEF EndsAt, Left
<1>9. ends \subseteq Nat /\ ends # {}
  BY <1>1, <1>8
<1>10. Min(ends) \in ends /\ \A l \in ends : Min(ends) <= l
  <2> HIDE DEF ends
  <2> QED BY <1>9, MinOf
<1>11. LastFrom(c, p) = Min(ends)
  BY DEF LastFrom
<1> QED BY <1>1, <1>10, <1>11

(* The reading ends somewhere, with no more than a value for every name.     *)
LEMMA HeaderType ==
  ASSUME NEW c, Len(c) \in Nat, NEW p \in Nat \ {0}
  PROVE  MessageHeader(c, p) \in StopType
<1>1. CASE p >= Len(c) + 1
  <2>1. MessageHeader(c, p) = Stop(p, NoHeaders, TRUE)
    BY <1>1 DEF MessageHeader
  <2> QED BY <2>1, NoHeadersType DEF Stop, StopType
<1>2. CASE p <= Len(c)
  <2> DEFINE last == LastFrom(c, p)
             before == {c[q] : q \in {l \in LinesFrom(c, p) : l < last}}
             hs == [name \in Names |-> IF name \in before THEN "whole"
                                       ELSE LastLine(c, last).headers[name]]
  <2>1. last \in Nat /\ last <= Len(c) + 1
    BY <1>2, LastExists DEF LinesFrom
  <2>2. LastLine(c, last) \in StopType
    BY <2>1, LastLineOf
  <2>3. LastLine(c, last).headers \in [Names -> How] /\ "whole" \in How
    BY <2>2 DEF StopType, How
  <2>4. hs \in [Names -> How]
    BY <2>3
  <2>5. LastLine(c, last).at \in Nat \ {0} /\ LastLine(c, last).error \in BOOLEAN
    BY <2>2 DEF StopType
  <2>6. MessageHeader(c, p) = Stop(LastLine(c, last).at, hs, LastLine(c, last).error)
    BY <1>2, HeaderParts
  <2> HIDE DEF hs, last
  <2> QED BY <2>4, <2>5, <2>6 DEF Stop, StopType
<1> QED BY <1>1, <1>2

(* Reading a block of headers: no line past them is read, and if the empty   *)
(* line is in the chunk it stops there, with all of them and no error.       *)
LEMMA HeaderBlock ==
  ASSUME NEW c, Len(c) \in Nat, NEW p \in Nat, p <= Len(c),
         NEW ns \in Seq(Names) \ {<<>>}, Block(c, p, ns)
  PROVE  /\ \A name \in Names :
              MessageHeader(c, p).headers[name] # "absent" => name \in ToSet(ns)
         /\ p + 5 * Len(ns) + 1 <= Len(c) =>
              /\ MessageHeader(c, p).at = p + 5 * Len(ns) - 2
              /\ MessageHeader(c, p).error = FALSE
              /\ \A name \in ToSet(ns) : MessageHeader(c, p).headers[name] = "whole"
<1> DEFINE last == LastFrom(c, p)
           lines == LinesFrom(c, p)
           before == {c[q] : q \in {l \in lines : l < last}}
           stop == LastLine(c, last)
           N == Len(ns)
<1>1. N \in Nat \ {0} /\ \A i \in 1..N : ns[i] \in Names
  OBVIOUS
<1>2. /\ last \in lines /\ EndsAt(c, last)
      /\ \A l \in lines : EndsAt(c, l) => last <= l
      /\ lines \subseteq Nat
  BY LastExists
<1>3. MessageHeader(c, p) =
        Stop(stop.at,
             [name \in Names |-> IF name \in before THEN "whole" ELSE stop.headers[name]],
             stop.error)
  BY HeaderParts
<1>4. /\ MessageHeader(c, p).at = stop.at /\ MessageHeader(c, p).error = stop.error
      /\ \A name \in Names : MessageHeader(c, p).headers[name] =
                                IF name \in before THEN "whole" ELSE stop.headers[name]
  BY <1>3 DEF Stop
<1>5. ASSUME NEW l \in lines PROVE \E j \in Nat : l = p + 5 * j /\ l <= Len(c) + 1
  <2>1. PICK j \in 0..Len(c) : l = p + 5 * j
    BY DEF LinesFrom
  <2>2. l <= Len(c) + 1
    BY DEF LinesFrom
  <2> QED BY <2>1, <2>2
<1>6. \A j \in Nat : p + 5 * j <= Len(c) + 1 => p + 5 * j \in lines
  BY DEF LinesFrom
<1> HIDE DEF lines, last, stop, before
<1>7. "cr" \notin Names
  BY DEF Names
<1>8. ASSUME NEW l \in lines, l <= last, l <= Len(c), c[l] \in Names
      PROVE  c[l] \in ToSet(ns)
  <2>1. PICK j \in Nat : l = p + 5 * j
    BY <1>5
  <2>2. CASE j < N
    <3>1. c[l] = ns[j + 1] /\ j + 1 \in 1..N
      BY <1>1, <1>8, <2>1, <2>2 DEF Block
    <3> QED BY <3>1 DEF ToSet
  <2>3. CASE j = N
    BY <1>7, <1>8, <2>1, <2>3 DEF Block
  <2>4. CASE j > N
    <3>1. p + 5 * N < l
      BY <1>1, <2>1, <2>4
    <3>2. p + 5 * N \in lines
      <4>1. N \in Nat /\ l \in Nat /\ p + 5 * N \in Nat
        BY <1>1, <2>1
      <4>2. p + 5 * N <= Len(c) + 1
        BY <1>8, <3>1, <4>1
      <4> QED BY <1>6, <4>1, <4>2
    <3>3. c[p + 5 * N] = "cr"
      <4>1. l \in Nat /\ p + 5 * N \in Nat
        BY <1>1, <2>1
      <4>2. p + 5 * N <= Len(c)
        BY <1>8, <3>1, <4>1
      <4> QED BY <4>2 DEF Block
    <3>4. EndsAt(c, p + 5 * N)
      BY <1>7, <3>3 DEF EndsAt
    <3>5. last <= p + 5 * N
      BY <1>2, <3>2, <3>4
    <3>6. last \in Nat /\ l \in Nat
      BY <1>2
    <3> QED BY <1>1, <1>8, <3>1, <3>5, <3>6
  <2> QED BY <1>1, <2>2, <2>3, <2>4
<1>9. last \in Nat /\ last <= Len(c) + 1
  BY <1>2, <1>5
<1>10. ASSUME NEW name \in Names, MessageHeader(c, p).headers[name] # "absent"
       PROVE  name \in ToSet(ns)
  <2>1. CASE name \in before
    <3>1. PICK l \in lines : l < last /\ name = c[l]
      BY <2>1 DEF before
    <3>2. l <= last /\ l <= Len(c)
      BY <1>2, <1>9, <3>1
    <3> QED BY <1>8, <3>1, <3>2
  <2>2. CASE name \notin before
    <3>1. stop.headers[name] # "absent"
      BY <1>4, <1>10, <2>2
    <3>2. last <= Len(c) /\ c[last] = name
      BY <1>9, <3>1, LastLineOf DEF stop
    <3>3. last <= last
      BY <1>9
    <3> QED BY <1>2, <1>8, <3>2, <3>3
  <2> QED BY <2>1, <2>2
<1>11. ASSUME p + 5 * N + 1 <= Len(c)
       PROVE  /\ MessageHeader(c, p).at = p + 5 * N - 2
              /\ MessageHeader(c, p).error = FALSE
              /\ \A name \in ToSet(ns) : MessageHeader(c, p).headers[name] = "whole"
  <2> DEFINE z == p + 5 * (N - 1)
  <2>1. z \in Nat /\ z + 5 = p + 5 * N /\ z <= Len(c) + 1
    BY <1>1, <1>11
  <2>2. z \in lines
    <3>1. N - 1 \in Nat
      BY <1>1
    <3> QED BY <1>6, <2>1, <3>1
  <2>3. \A j \in 0..N - 1 : p + 5 * j <= Len(c) /\ c[p + 5 * j] = ns[j + 1] /\ ns[j + 1] \in Names
    BY <1>1, <1>11 DEF Block
  <2>4. c[z] = ns[N] /\ c[z] \in Names
    <3>1. N - 1 \in 0..N - 1 /\ N - 1 + 1 = N
      BY <1>1
    <3> QED BY <2>3, <3>1
  <2>5. EmptyLineAt(c, z + 5)
    BY <1>1, <1>11, <2>1 DEF Block, EmptyLineAt
  <2>6. EndsAt(c, z)
    BY <2>5 DEF EndsAt
  <2>7. ASSUME NEW j \in 0..N - 2 PROVE ~EndsAt(c, p + 5 * j)
    <3>1. j \in 0..N - 1 /\ j + 1 \in 0..N - 1
      BY <1>1
    <3>2. c[p + 5 * j] \in Names
      BY <2>3, <3>1
    <3>3. c[p + 5 * (j + 1)] \in Names
      BY <2>3, <3>1
    <3>4. p + 5 * (j + 1) = p + 5 * j + 5
      BY <1>1
    <3>5. ~EmptyLineAt(c, p + 5 * j + 5)
      BY <1>7, <3>3, <3>4 DEF EmptyLineAt
    <3>6. ~(Left(c, p + 5 * j) < 5)
      BY <1>1, <1>11 DEF Left
    <3> QED BY <3>2, <3>5, <3>6 DEF EndsAt
  <2>8. last = z
    <3>1. PICK j \in Nat : last = p + 5 * j
      BY <1>2, <1>5
    <3>2. last <= z
      BY <1>2, <2>2, <2>6
    <3>3. j <= N - 1
      BY <1>1, <3>1, <3>2
    <3>4. j \notin 0..N - 2
      BY <1>2, <2>7, <3>1
    <3>5. j = N - 1
      BY <1>1, <3>3, <3>4
    <3> QED BY <3>1, <3>5
  <2>9. Left(c, z) > 4
    BY <1>1, <1>11, <2>1 DEF Left
  <2>10. stop = Stop(z + 3, Only(ns[N], "whole"), FALSE)
    <3>1. Left(c, z) # 0
      BY <2>9
    <3> HIDE DEF z
    <3>2. LastLine(c, z) = Stop(z + 3, Only(c[z], "whole"), FALSE)
      BY <2>4, <2>9, <3>1 DEF LastLine
    <3> QED BY <2>4, <2>8, <3>2 DEF stop
  <2>11. stop.at = z + 3 /\ stop.error = FALSE /\ stop.headers = Only(ns[N], "whole")
    BY <2>10 DEF Stop
  <2>12. z + 3 = p + 5 * N - 2
    BY <1>1
  <2>13. ASSUME NEW name \in ToSet(ns) PROVE MessageHeader(c, p).headers[name] = "whole"
    <3>1. PICK i \in 1..N : name = ns[i] /\ name \in Names
      BY <1>1 DEF ToSet
    <3>2. CASE i = N
      <4>1. stop.headers[name] = "whole"
        BY <2>11, <3>1, <3>2 DEF Only, NoHeaders
      <4> QED BY <1>4, <3>1, <4>1
    <3>3. CASE i # N
      <4>1. i - 1 \in 0..N - 2
        BY <1>1, <3>3
      <4>2. p + 5 * (i - 1) < z
        BY <1>1, <4>1
      <4>3. p + 5 * (i - 1) \in lines
        <5>1. i - 1 \in Nat /\ p + 5 * (i - 1) \in Nat
          BY <4>1
        <5>2. p + 5 * (i - 1) <= Len(c) + 1
          BY <2>1, <4>2, <5>1
        <5> QED BY <1>6, <5>1, <5>2
      <4>4. c[p + 5 * (i - 1)] = name
        <5>1. i - 1 \in 0..N - 1 /\ (i - 1) + 1 = i
          BY <1>1
        <5> QED BY <2>3, <3>1, <5>1
      <4>5. name \in before
        BY <2>8, <4>2, <4>3, <4>4 DEF before
      <4> QED BY <1>4, <3>1, <4>5
    <3> QED BY <3>2, <3>3
  <2> QED BY <1>4, <2>11, <2>12, <2>13
<1> QED BY <1>10, <1>11

-----------------------------------------------------------------------------
(* Requests and chunks. *)

(* A request: its headers and the empty line, then its body.                 *)
LEMMA RequestText ==
  ASSUME NEW r \in Requests
  PROVE  /\ r.names \in Seq(Names) \ {<<>>} /\ Len(r.names) \in Nat \ {0}
         /\ r.body \in Seq(Tokens) /\ Len(r.body) \in Nat
         /\ HeaderEnd(r) = 7 + 5 * Len(r.names)
         /\ Bytes(r) \in Seq(Tokens) /\ Len(Bytes(r)) = HeaderEnd(r) + Len(r.body)
         /\ Block(Bytes(r), 6, r.names)
         /\ \A i \in 1..Len(r.body) : Bytes(r)[HeaderEnd(r) + i] = r.body[i]
<1>1. r.names \in Seq(Names) \ {<<>>} /\ r.body \in Seq(Tokens)
  BY RequestsAssumption DEF RequestShape
<1>2. Len(r.names) \in Nat \ {0} /\ Len(r.body) \in Nat
  BY <1>1
<1>3. StartLine \in Seq(Tokens) /\ Len(StartLine) = 5
  BY DEF StartLine, Tokens
<1>4. HeaderEnd(r) = 7 + 5 * Len(r.names)
  BY <1>2, <1>3 DEF HeaderEnd
<1>5. /\ Bytes(r) \in Seq(Tokens)
      /\ Len(Bytes(r)) = Len(StartLine) + 5 * Len(r.names) + 2 + Len(r.body)
      /\ Block(Bytes(r), Len(StartLine) + 1, r.names)
      /\ \A i \in 1..Len(r.body) :
           Bytes(r)[Len(StartLine) + 5 * Len(r.names) + 2 + i] = r.body[i]
  <2> DEFINE c == Bytes(r)
             ns == r.names
             tail == r.body
             head == StartLine
  <2>1. c = Text(head, ns, tail) /\ ns \in Seq(Names) /\ tail \in Seq(Tokens)
    BY <1>1 DEF Bytes, Text
  <2>2. head \in Seq(Tokens)
    BY <1>3
  <2> HIDE DEF c, ns, tail, head
  <2>3. /\ c \in Seq(Tokens) /\ Len(c) = Len(head) + 5 * Len(ns) + 2 + Len(tail)
        /\ Block(c, Len(head) + 1, ns)
        /\ \A i \in 1..Len(tail) : c[Len(head) + 5 * Len(ns) + 2 + i] = tail[i]
    BY <2>1, <2>2, BlockIn
  <2> QED BY <2>3 DEF c, ns, tail, head
<1>6. Len(StartLine) + 1 = 6 /\ Len(StartLine) + 5 * Len(r.names) + 2 = HeaderEnd(r)
  BY <1>3 DEF HeaderEnd
<1> QED BY <1>1, <1>2, <1>4, <1>5, <1>6

Chunk(size) == SubSeq(Bytes(request), sent + 1, sent + size)

LEMMA ChunkText ==
  ASSUME request \in Requests, sent \in Nat, NEW size \in Nat \ {0},
         sent + size <= Len(Bytes(request))
  PROVE  /\ Chunk(size) \in Seq(Tokens) /\ Len(Chunk(size)) = size
         /\ \A i \in 1..size : Chunk(size)[i] = Bytes(request)[sent + i]
<1>1. Bytes(request) \in Seq(Tokens) /\ Len(Bytes(request)) \in Nat
  BY RequestText
<1> DEFINE text == Bytes(request)
<1> HIDE DEF text
<1>2. text \in Seq(Tokens) /\ Len(text) \in Nat /\ sent + size <= Len(text)
  BY <1>1 DEF text
<1>3. \A i \in sent + 1..sent + size : text[i] \in Tokens
  BY <1>2
<1>4. /\ SubSeq(text, sent + 1, sent + size) \in Seq(Tokens)
      /\ Len(SubSeq(text, sent + 1, sent + size)) = size
      /\ \A i \in 1..size : SubSeq(text, sent + 1, sent + size)[i] = text[sent + i]
  BY <1>2, <1>3
<1> QED BY <1>4 DEF Chunk, text

(* Headers that lie in a text lie in a chunk of it, as far as it goes.       *)
LEMMA BlockInChunk ==
  ASSUME NEW c, NEW d, NEW k \in Nat, NEW p \in Nat \ {0}, NEW ns \in Seq(Names),
         Len(c) \in Nat, Len(d) \in Nat, k + Len(d) <= Len(c),
         \A i \in 1..Len(d) : d[i] = c[k + i], Block(c, k + p, ns)
  PROVE  Block(d, p, ns)
<1>1. Len(ns) \in Nat
  OBVIOUS
<1>2. ASSUME NEW j \in 0..Len(ns) - 1, p + 5 * j <= Len(d) PROVE d[p + 5 * j] = ns[j + 1]
  <2>1. j \in Nat /\ p + 5 * j \in 1..Len(d) /\ k + (p + 5 * j) = k + p + 5 * j
    BY <1>1, <1>2
  <2>2. k + p + 5 * j <= Len(c)
    BY <1>2, <2>1
  <2>3. c[k + p + 5 * j] = ns[j + 1]
    BY <2>2 DEF Block
  <2> QED BY <2>1, <2>3
<1>3. ASSUME p + 5 * Len(ns) <= Len(d) PROVE d[p + 5 * Len(ns)] = "cr"
  <2>1. p + 5 * Len(ns) \in 1..Len(d) /\ k + (p + 5 * Len(ns)) = k + p + 5 * Len(ns)
    BY <1>1, <1>3
  <2>2. k + p + 5 * Len(ns) <= Len(c)
    BY <1>1, <1>3
  <2>3. c[k + p + 5 * Len(ns)] = "cr"
    BY <2>2 DEF Block
  <2> QED BY <2>1, <2>3
<1>4. ASSUME p + 5 * Len(ns) + 1 <= Len(d) PROVE d[p + 5 * Len(ns) + 1] = "lf"
  <2>1. /\ p + 5 * Len(ns) + 1 \in 1..Len(d)
        /\ k + (p + 5 * Len(ns) + 1) = k + p + 5 * Len(ns) + 1
    BY <1>1, <1>4
  <2>2. k + p + 5 * Len(ns) + 1 <= Len(c)
    BY <1>1, <1>4
  <2>3. c[k + p + 5 * Len(ns) + 1] = "lf"
    BY <2>2 DEF Block
  <2> QED BY <2>1, <2>3
<1> QED BY <1>2, <1>3, <1>4 DEF Block

(* The headers of the request in the first chunk.                            *)
LEMMA FirstHeaders ==
  ASSUME request \in Requests, sent = 0, NEW size \in Nat \ {0},
         size <= Len(Bytes(request)), size >= 5
  PROVE  /\ \A name \in Names : MessageHeader(Chunk(size), 6).headers[name] # "absent" =>
                                 name \in ToSet(request.names)
         /\ size >= HeaderEnd(request) =>
              /\ MessageHeader(Chunk(size), 6).at = HeaderEnd(request) - 3
              /\ MessageHeader(Chunk(size), 6).error = FALSE
              /\ \A name \in ToSet(request.names) :
                   MessageHeader(Chunk(size), 6).headers[name] = "whole"
<1> DEFINE c == Chunk(size)
           ns == request.names
<1>1. /\ c \in Seq(Tokens) /\ Len(c) = size
      /\ \A i \in 1..size : c[i] = Bytes(request)[0 + i]
  BY ChunkText
<1>2. /\ Len(Bytes(request)) \in Nat /\ Block(Bytes(request), 0 + 6, ns)
      /\ ns \in Seq(Names) \ {<<>>} /\ Len(ns) \in Nat \ {0}
      /\ HeaderEnd(request) = 7 + 5 * Len(ns)
  BY RequestText
<1> HIDE DEF c, ns
<1>3. Block(c, 6, ns)
  <2> DEFINE text == Bytes(request)
  <2>1. /\ Len(text) \in Nat /\ Len(c) \in Nat /\ 0 + Len(c) <= Len(text)
        /\ 0 \in Nat /\ 6 \in Nat \ {0} /\ ns \in Seq(Names) /\ Block(text, 0 + 6, ns)
        /\ \A i \in 1..Len(c) : c[i] = text[0 + i]
    BY <1>1, <1>2
  <2> HIDE DEF text
  <2> QED BY <2>1, BlockInChunk
<1>4. CASE size = 5
  <2>1. MessageHeader(c, 6) = Stop(6, NoHeaders, TRUE)
    BY <1>1, <1>4 DEF MessageHeader
  <2>2. \A name \in Names : MessageHeader(c, 6).headers[name] = "absent"
    BY <2>1 DEF Stop, NoHeaders
  <2>3. ~(size >= HeaderEnd(request))
    BY <1>2, <1>4
  <2> QED BY <2>2, <2>3 DEF c
<1>5. CASE size > 5
  <2> DEFINE p == 6
  <2>1. p <= Len(c) /\ Len(c) \in Nat /\ p \in Nat /\ Block(c, p, ns)
    BY <1>1, <1>3, <1>5
  <2>2. p + 5 * Len(ns) - 2 = HeaderEnd(request) - 3
    BY <1>2
  <2>3. size >= HeaderEnd(request) => p + 5 * Len(ns) + 1 <= Len(c)
    BY <1>1, <1>2
  <2> HIDE DEF p
  <2>4. /\ \A name \in Names : MessageHeader(c, p).headers[name] # "absent" => name \in ToSet(ns)
        /\ p + 5 * Len(ns) + 1 <= Len(c) =>
             /\ MessageHeader(c, p).at = p + 5 * Len(ns) - 2
             /\ MessageHeader(c, p).error = FALSE
             /\ \A name \in ToSet(ns) : MessageHeader(c, p).headers[name] = "whole"
    BY <1>2, <2>1, HeaderBlock
  <2>5. /\ \A name \in Names : MessageHeader(c, p).headers[name] # "absent" => name \in ToSet(ns)
        /\ size >= HeaderEnd(request) =>
             /\ MessageHeader(c, p).at = HeaderEnd(request) - 3
             /\ MessageHeader(c, p).error = FALSE
             /\ \A name \in ToSet(ns) : MessageHeader(c, p).headers[name] = "whole"
    BY <2>2, <2>3, <2>4
  <2> QED BY <2>5, Zenon DEF c, ns, p
<1>6. size = 5 \/ size > 5
  OBVIOUS
<1> QED BY <1>4, <1>5, <1>6

-----------------------------------------------------------------------------
(* Lemmas about the form. *)

LEMMA BoundaryAtPosition ==
  ASSUME NEW c, Len(c) \in Nat, NEW p \in Nat, NEW known
  PROVE  /\ BoundaryAt(c, p, known) \in Nat /\ BoundaryAt(c, p, known) <= Len(c) + 1
         /\ p <= Len(c) + 1 => p <= BoundaryAt(c, p, known)
         /\ BoundaryAt(c, p, known) <= Len(c) /\ known =>
              c[BoundaryAt(c, p, known)] \in {"delim", "close"}
         /\ \A q \in p..Len(c) : c[q] \in {"delim", "close"} => BoundaryAt(c, p, known) <= q
<1> DEFINE at == {q \in p..Len(c) : ~known \/ c[q] \in {"delim", "close"}}
<1>1. CASE at = {}
  <2>1. BoundaryAt(c, p, known) = Len(c) + 1
    BY <1>1 DEF BoundaryAt
  <2>2. \A q \in p..Len(c) : c[q] \notin {"delim", "close"}
    BY <1>1
  <2>3. ~(Len(c) + 1 <= Len(c))
    OBVIOUS
  <2> QED BY <2>1, <2>2, <2>3
<1>2. CASE at # {}
  <2>1. BoundaryAt(c, p, known) = Min(at)
    BY <1>2 DEF BoundaryAt
  <2>2. at \subseteq Nat
    OBVIOUS
  <2>3. Min(at) \in at /\ \A q \in at : Min(at) <= q
    <3> HIDE DEF at
    <3> QED BY <1>2, <2>2, MinOf
  <2>4. Min(at) \in p..Len(c) /\ (~known \/ c[Min(at)] \in {"delim", "close"})
    BY <2>3
  <2>5. \A q \in p..Len(c) : c[q] \in {"delim", "close"} => Min(at) <= q
    BY <2>3
  <2> HIDE DEF at
  <2>6. Min(at) \in Nat /\ Min(at) <= Len(c) + 1 /\ p <= Min(at)
    BY <2>4
  <2> QED BY <2>1, <2>4, <2>5, <2>6
<1> QED BY <1>1, <1>2

(* The upload ends with the chunk, or behind the first CRLF that follows the *)
(* boundary value.                                                           *)
LEMMA EndFromPosition ==
  ASSUME NEW c, Len(c) \in Nat, NEW p \in Nat, p <= Len(c), NEW known
  PROVE  /\ EndFrom(c, p, known) \in Nat
         /\ p <= EndFrom(c, p, known) /\ EndFrom(c, p, known) - 1 <= Len(c)
         /\ Crlfs(c, p, known) = {} => EndFrom(c, p, known) = Len(c) + 1
         /\ Crlfs(c, p, known) # {} =>
              \E q \in Crlfs(c, p, known) : EndFrom(c, p, known) = q + 2
<1>1. BoundaryAt(c, p, known) \in Nat /\ p <= BoundaryAt(c, p, known)
  BY BoundaryAtPosition
<1>2. \A q \in Crlfs(c, p, known) : q \in Nat /\ p <= q /\ q + 1 <= Len(c)
  BY <1>1 DEF Crlfs, EmptyLineAt
<1>3. CASE Crlfs(c, p, known) = {}
  BY <1>3 DEF EndFrom, UploadEnd
<1>4. CASE Crlfs(c, p, known) # {}
  <2>1. PICK q \in Crlfs(c, p, known) : q = Min(Crlfs(c, p, known))
    BY <1>2, <1>4, MinOf
  <2>2. EndFrom(c, p, known) = q + 2
    BY <1>4, <2>1 DEF EndFrom, UploadEnd
  <2> QED BY <1>2, <1>4, <2>2
<1> QED BY <1>3, <1>4

-----------------------------------------------------------------------------
(* Types. *)

Verdicts == {"more", "error", "throws", "finished"}

Typed ==
  /\ verdict \in Verdicts /\ phase \in Phases /\ headers \in [Names -> How]
  /\ body \in Seq(Tokens) /\ upload \in Seq(Tokens)
  /\ readed \in Nat /\ boundary \in BOOLEAN

LEMMA OutcomeType ==
  ASSUME NEW v \in Verdicts, NEW ph \in Phases, NEW stop \in StopType,
         NEW bd \in Seq(Tokens), NEW up \in Seq(Tokens), NEW rd \in Nat,
         NEW bn \in BOOLEAN, Outcome(v, ph, stop, bd, up, rd, bn)
  PROVE  Typed'
<1>1. "error" \in Verdicts
  BY DEF Verdicts
<1>2. verdict' \in Verdicts
  BY <1>1 DEF Outcome
<1>3. stop.headers \in [Names -> How]
  BY DEF StopType
<1> QED BY <1>2, <1>3 DEF Outcome, Typed

LEMMA RunOfTokens ==
  ASSUME NEW c \in Seq(Tokens), NEW m \in Nat \ {0}, NEW n \in Int, n <= Len(c)
  PROVE  SubSeq(c, m, n) \in Seq(Tokens)
<1>1. \A i \in m..n : c[i] \in Tokens
  OBVIOUS
<1> QED BY <1>1

LEMMA StopsAt1 ==
  ASSUME Typed
  PROVE  Stop(1, headers, FALSE) \in StopType
BY DEF Typed, Stop, StopType

LEMMA ParseBodyType ==
  ASSUME Typed, NEW c \in Seq(Tokens), NEW stop \in StopType, ParseBody(c, stop)
  PROVE  Typed'
<1>1. stop.at \in Nat \ {0} /\ Len(c) \in Nat
  BY DEF StopType
<1>2. "throws" \in Verdicts /\ "finished" \in Verdicts
  BY DEF Verdicts
<1>3. "parse_content_type_finished" \in Phases /\ "finished" \in Phases
  BY DEF Phases
<1>4. CASE stop.at > Len(c) + 1
  BY <1>2, <1>3, <1>4, OutcomeType DEF ParseBody, Ends, Typed
<1>5. CASE ~(stop.at > Len(c) + 1)
  <2>1. SubSeq(c, stop.at, Len(c)) \in Seq(Tokens)
    BY <1>1, RunOfTokens
  <2> QED BY <1>2, <1>3, <1>5, <2>1, OutcomeType DEF ParseBody, Typed
<1> QED BY <1>4, <1>5

LEMMA MediaMoreType ==
  ASSUME Typed, NEW c \in Seq(Tokens), NEW stop \in StopType, NEW known \in BOOLEAN,
         MediaMore(c, stop, known)
  PROVE  Typed'
<1>1. stop.at \in Nat \ {0} /\ Len(c) \in Nat
  BY DEF StopType
<1>2. "throws" \in Verdicts /\ "finished" \in Verdicts /\ "more" \in Verdicts
  BY DEF Verdicts
<1>3. /\ "parse_media_type" \in Phases /\ "finished" \in Phases
      /\ "parse_media_type_need_more" \in Phases
  BY DEF Phases
<1>4. ASSUME NEW v \in Verdicts, NEW ph \in Phases,
             Outcome(v, ph, stop, body, upload, readed, known)
      PROVE  Typed'
  BY <1>4, OutcomeType DEF Typed
<1>5. ASSUME NEW v \in Verdicts, NEW ph \in Phases, stop.at <= Len(c),
             TakeUpload(v, ph, c, stop, known)
      PROVE  Typed'
  <2> DEFINE e == EndFrom(c, stop.at, known)
             up == upload \o SubSeq(c, stop.at, e - 1)
             rd == readed + (e - stop.at)
  <2>1. e \in Nat /\ stop.at <= e /\ e - 1 <= Len(c)
    BY <1>1, <1>5, EndFromPosition
  <2> HIDE DEF e
  <2>2. SubSeq(c, stop.at, e - 1) \in Seq(Tokens)
    BY <1>1, <2>1, RunOfTokens
  <2>3. up \in Seq(Tokens)
    BY <2>2 DEF Typed
  <2>4. rd \in Nat
    BY <1>1, <2>1 DEF Typed
  <2>5. Outcome(v, ph, stop, body, up, rd, known)
    BY <1>5 DEF TakeUpload, e
  <2> HIDE DEF up, rd
  <2> QED BY <2>3, <2>4, <2>5, OutcomeType DEF Typed
<1> QED BY <1>1, <1>2, <1>3, <1>4, <1>5 DEF MediaMore

LEMMA MediaBeginType ==
  ASSUME NEW c \in Seq(Tokens), NEW stop \in StopType
  PROVE  MediaBegin(c, stop) \in StopType
<1>1. /\ stop.at \in Nat \ {0} /\ stop.headers \in [Names -> How] /\ stop.error \in BOOLEAN
      /\ Len(c) \in Nat
  BY DEF StopType
<1>2. CASE stop.headers["Type"] = "cut"
  <2>1. MediaBegin(c, stop) = Stop(stop.at, stop.headers, TRUE)
    BY <1>2 DEF MediaBegin
  <2> QED BY <1>1, <2>1 DEF Stop, StopType
<1>3. CASE stop.headers["Type"] # "cut" /\ stop.at + 4 > Len(c) + 1
  BY <1>3 DEF MediaBegin
<1>4. CASE /\ stop.headers["Type"] # "cut" /\ ~(stop.at + 4 > Len(c) + 1)
           /\ DelimAt(c, stop) \in {Len(c) - 1, Len(c) + 1}
  <2>1. MediaBegin(c, stop) = Stop(Len(c) + 1, stop.headers, stop.error)
    BY <1>4 DEF MediaBegin
  <2>2. Len(c) + 1 \in Nat \ {0}
    BY <1>1
  <2> QED BY <1>1, <2>1, <2>2 DEF Stop, StopType
<1>5. CASE /\ stop.headers["Type"] # "cut" /\ ~(stop.at + 4 > Len(c) + 1)
           /\ DelimAt(c, stop) \notin {Len(c) - 1, Len(c) + 1}
  <2> DEFINE part == PartHeader(c, stop)
             at == IF part.headers["Type"] = "absent" THEN part.at ELSE PartStart(part.at)
  <2>1. MediaBegin(c, stop) = Stop(at, stop.headers, stop.error \/ part.error)
    BY <1>5 DEF MediaBegin
  <2>2. stop.at + 4 \in Nat
    BY <1>1
  <2>3. DelimAt(c, stop) \in Nat
    BY <1>1, <2>2, BoundaryAtPosition DEF DelimAt
  <2>4. DelimAt(c, stop) + 3 \in Nat \ {0}
    BY <2>3
  <2>5. part \in StopType
    BY <1>1, <2>4, HeaderType DEF PartHeader
  <2> HIDE DEF part
  <2>6. part.at \in Nat \ {0} /\ part.error \in BOOLEAN
    BY <2>5 DEF StopType
  <2>7. at \in Nat \ {0}
    BY <2>6 DEF PartStart
  <2> HIDE DEF at
  <2> QED BY <1>1, <2>1, <2>6, <2>7 DEF Stop, StopType
<1> QED BY <1>2, <1>3, <1>4, <1>5

(* The first call, case by case.                                             *)
First(c) == MessageHeader(c, 6)

LEMMA FirstCases ==
  ASSUME NEW c \in Seq(Tokens), ParseFirst(c)
  PROVE  \/ Len(c) < 5 /\ Ends("more", "parse_start_line", Stop(1, NoHeaders, TRUE))
         \/ /\ Len(c) >= 5
            /\ \/ /\ ContentType(First(c).headers) = "unknown"
                  /\ Ends("more", "parse_content_type_finished",
                          [First(c) EXCEPT !.error = TRUE])
               \/ /\ ContentType(First(c).headers) # "unknown" /\ Pending(c, First(c))
                  /\ Ends("more", "parse_body_pending", First(c))
               \/ /\ ContentType(First(c).headers) = "multipart" /\ ~Pending(c, First(c))
                  /\ MediaMore(c, MediaBegin(c, First(c)), BoundaryKnown(c, First(c)))
               \/ /\ ContentType(First(c).headers) \notin {"unknown", "multipart"}
                  /\ ~Pending(c, First(c)) /\ ParseBody(c, First(c))
<1>1. Len(StartLine) = 5 /\ Len(StartLine) + 1 = 6 /\ Len(c) \in Nat
  BY DEF StartLine
<1>2. MessageHeader(c, Len(StartLine) + 1) = First(c)
  BY <1>1 DEF First
<1>3. Len(c) < 5 \/ Len(c) >= 5
  BY <1>1
<1>4. Len(c) < Len(StartLine) <=> Len(c) < 5
  BY <1>1
<1>5. ~(Len(c) >= 5 /\ Len(c) < 5)
  BY <1>1
<1> QED BY <1>2, <1>3, <1>4, <1>5 DEF ParseFirst

LEMMA FirstType ==
  ASSUME Typed, NEW c \in Seq(Tokens), ParseFirst(c)
  PROVE  Typed'
<1>1. First(c) \in StopType
  BY HeaderType DEF First
<1>2. "more" \in Verdicts /\ body \in Seq(Tokens) /\ upload \in Seq(Tokens)
  BY DEF Verdicts, Typed
<1>3. /\ "parse_start_line" \in Phases /\ "parse_content_type_finished" \in Phases
      /\ "parse_body_pending" \in Phases
  BY DEF Phases
<1>4. ASSUME NEW ph \in Phases, NEW stop \in StopType, Ends("more", ph, stop)
      PROVE  Typed'
  BY <1>2, <1>4, OutcomeType DEF Ends, Typed
<1>5. Stop(1, NoHeaders, TRUE) \in StopType
  BY NoHeadersType DEF Stop, StopType
<1>6. [First(c) EXCEPT !.error = TRUE] \in StopType
  BY <1>1 DEF StopType
<1>7. MediaBegin(c, First(c)) \in StopType
  BY <1>1, MediaBeginType
<1>8. BoundaryKnown(c, First(c)) \in BOOLEAN
  BY DEF BoundaryKnown
<1>9. CASE Ends("more", "parse_start_line", Stop(1, NoHeaders, TRUE))
  BY <1>3, <1>4, <1>5, <1>9
<1>10. CASE Ends("more", "parse_content_type_finished", [First(c) EXCEPT !.error = TRUE])
  BY <1>3, <1>4, <1>6, <1>10
<1>11. CASE Ends("more", "parse_body_pending", First(c))
  BY <1>1, <1>3, <1>4, <1>11
<1>12. CASE MediaMore(c, MediaBegin(c, First(c)), BoundaryKnown(c, First(c)))
  BY <1>7, <1>8, <1>12, MediaMoreType
<1>13. CASE ParseBody(c, First(c))
  BY <1>1, <1>13, ParseBodyType
<1> QED BY <1>9, <1>10, <1>11, <1>12, <1>13, FirstCases

LEMMA NextType ==
  ASSUME Typed, NEW c \in Seq(Tokens), ParseNext(c)
  PROVE  Typed'
<1>1. Stop(1, headers, FALSE) \in StopType /\ boundary \in BOOLEAN
  BY StopsAt1 DEF Typed
<1>2. CASE UNCHANGED parserVars
  BY <1>2 DEF parserVars, Typed
<1>3. CASE ParseBody(c, Stop(1, headers, FALSE))
  BY <1>1, <1>3, ParseBodyType
<1>4. CASE MediaMore(c, Stop(1, headers, FALSE), boundary)
  BY <1>1, <1>4, MediaMoreType
<1> QED BY <1>2, <1>3, <1>4 DEF ParseNext

(* How much was delivered, and in which phase nothing was.                   *)
Delivered ==
  /\ request \in Requests
  /\ sent \in 0..Len(Bytes(request)) /\ first \in 0..sent
  /\ first = 0 <=> sent = 0
  /\ first = 0 => phase = "not_started" /\ verdict = "more"
  /\ first > 0 => phase # "not_started"

TypeInv == Typed /\ Delivered

LEMMA Started ==
  ASSUME Typed, NEW c \in Seq(Tokens), ParseFirst(c) \/ ParseNext(c), phase # "not_started" \/ ParseFirst(c)
  PROVE  phase' # "not_started"
<1>1. ASSUME NEW v, NEW ph, ph # "not_started", NEW stop, NEW bd, NEW up, NEW rd, NEW bn,
             Outcome(v, ph, stop, bd, up, rd, bn)
      PROVE  phase' # "not_started"
  BY <1>1 DEF Outcome
<1>2. ASSUME NEW stop, ParseBody(c, stop) PROVE phase' # "not_started"
  BY <1>1, <1>2 DEF ParseBody, Ends
<1>3. ASSUME NEW stop, NEW known, MediaMore(c, stop, known) PROVE phase' # "not_started"
  BY <1>1, <1>3 DEF MediaMore, TakeUpload
<1>4. CASE ParseFirst(c)
  BY <1>1, <1>2, <1>3, <1>4, FirstCases DEF Ends
<1>5. CASE ParseNext(c) /\ phase # "not_started"
  BY <1>2, <1>3, <1>5 DEF ParseNext, parserVars
<1> QED BY <1>4, <1>5

\* One step: a call with the next chunk.
LEMMA OneCall ==
  ASSUME TypeInv, NEW size \in 1..Len(Bytes(request)), Receive(size)
  PROVE  /\ verdict = "more" /\ size \in Nat \ {0} /\ sent \in Nat
         /\ request \in Requests /\ request' = request
         /\ sent' = sent + size /\ sent + size <= Len(Bytes(request))
         /\ Len(Bytes(request)) \in Nat
         /\ Chunk(size) \in Seq(Tokens) /\ Len(Chunk(size)) = size
         /\ \A i \in 1..size : Chunk(size)[i] = Bytes(request)[sent + i]
         /\ \/ first = 0 /\ sent = 0 /\ ParseFirst(Chunk(size)) /\ first' = size
            \/ /\ first > 0 /\ first \in Nat /\ first <= sent /\ first' = first
               /\ phase # "not_started" /\ ParseNext(Chunk(size))
<1>1. request \in Requests /\ sent \in Nat /\ first \in Nat /\ first <= sent
  BY DEF TypeInv, Delivered
<1>2. Len(Bytes(request)) \in Nat
  BY <1>1, RequestText
<1>3. size \in Nat \ {0}
  BY <1>2
<1>4. /\ verdict = "more" /\ request' = request
      /\ sent' = sent + size /\ sent + size <= Len(Bytes(request))
  BY DEF Receive
<1>5. /\ Chunk(size) \in Seq(Tokens) /\ Len(Chunk(size)) = size
      /\ \A i \in 1..size : Chunk(size)[i] = Bytes(request)[sent + i]
  BY <1>1, <1>3, <1>4, ChunkText
<1>6. CASE first = 0
  <2>1. phase = "not_started" /\ sent = 0
    BY <1>6 DEF TypeInv, Delivered
  <2>2. ParseFirst(Chunk(size)) /\ first' = size
    BY <2>1 DEF Receive, Chunk
  <2> QED BY <1>1, <1>2, <1>3, <1>4, <1>5, <1>6, <2>1, <2>2
<1>7. CASE first > 0
  <2>1. phase # "not_started"
    BY <1>7 DEF TypeInv, Delivered
  <2>2. ParseNext(Chunk(size)) /\ first' = first
    BY <2>1 DEF Receive, Chunk
  <2> QED BY <1>1, <1>2, <1>3, <1>4, <1>5, <1>7, <2>1, <2>2
<1>8. first = 0 \/ first > 0
  BY <1>1
<1> QED BY <1>6, <1>7, <1>8

LEMMA TypeStep ==
  ASSUME TypeInv, NEW size \in 1..Len(Bytes(request)), Receive(size)
  PROVE  TypeInv'
<1>1. /\ size \in Nat \ {0} /\ sent \in Nat /\ request \in Requests /\ request' = request
      /\ sent' = sent + size /\ sent + size <= Len(Bytes(request))
      /\ Len(Bytes(request)) \in Nat /\ Chunk(size) \in Seq(Tokens)
      /\ \/ first = 0 /\ sent = 0 /\ ParseFirst(Chunk(size)) /\ first' = size
         \/ /\ first > 0 /\ first \in Nat /\ first <= sent /\ first' = first
            /\ phase # "not_started" /\ ParseNext(Chunk(size))
  BY OneCall
<1>2. Typed'
  BY <1>1, FirstType, NextType DEF TypeInv
<1>3. phase' # "not_started"
  BY <1>1, Started DEF TypeInv
<1>4. Len(Bytes(request')) = Len(Bytes(request))
  BY <1>1
<1>5. sent' \in 0..Len(Bytes(request')) /\ first' \in 0..sent' /\ first' > 0 /\ sent' > 0
  BY <1>1, <1>4
<1>6. ~(first' = 0) /\ ~(sent' = 0)
  BY <1>5
<1>7. Delivered'
  BY <1>1, <1>3, <1>5, <1>6 DEF Delivered
<1> QED BY <1>2, <1>7 DEF TypeInv

LEMMA TypeInit == Init => TypeInv
<1> SUFFICES ASSUME Init PROVE TypeInv
  OBVIOUS
<1>1. request \in Requests /\ Len(Bytes(request)) \in Nat
  BY RequestText DEF Init
<1>2. Delivered
  BY <1>1 DEF Init, Delivered
<1>3. <<>> \in Seq(Tokens) /\ NoHeaders \in [Names -> How]
  BY NoHeadersType
<1>4. Typed
  BY <1>3 DEF Init, Typed, Verdicts, Phases
<1> QED BY <1>2, <1>4 DEF TypeInv

LEMMA TypeInvariance == Spec => []TypeInv
<1>1. TypeInv /\ [Next]_vars => TypeInv'
  <2> SUFFICES ASSUME TypeInv, [Next]_vars PROVE TypeInv'
    OBVIOUS
  <2>1. CASE Next
    BY <2>1, TypeStep DEF Next
  <2>2. CASE UNCHANGED vars
    BY <2>2 DEF vars, parserVars, TypeInv, Typed, Delivered
  <2> QED BY <2>1, <2>2
<1> QED BY <1>1, TypeInit, PTL DEF Spec

(* A chunk never leaves more behind than was sent, a header known in a way   *)
(* that is none of the four, or a count that is no number.                   *)
THEOREM TypeCorrect == Spec => []TypeOK
<1>1. TypeInv => TypeOK
  BY DEF TypeInv, Typed, Delivered, TypeOK, Verdicts, How
<1> QED BY <1>1, TypeInvariance, PTL

-----------------------------------------------------------------------------
(* Requests with an ordinary body. *)

(* While a call with all it was given so far has returned "more", the        *)
(* headers came with the first chunk, and there is a body to come.           *)
Waits ==
  Simple /\ first > 0 /\ verdict = "more" =>
    /\ phase = "parse_body_pending" /\ sent = first /\ sent < Len(Bytes(request))
    /\ "Length" \in ToSet(request.names)

SimpleInv == TypeInv /\ Waits /\ CutAfterHeaders /\ BodyOnItsOwn

LEMMA ContentTypeSimple ==
  ASSUME Simple, NEW hs \in [Names -> How]
  PROVE  /\ ContentType(hs) # "multipart"
         /\ hs["Type"] \in {"absent", "whole"} => ContentType(hs) # "unknown"
<1>1. request.type = "none" \/ request.type = "json"
  BY DEF Simple
<1>2. "Type" \in Names
  BY DEF Names
<1>3. hs["Type"] = "absent" \/ hs["Type"] = "empty" \/ hs["Type"] = "cut" \/ hs["Type"] = "whole"
  BY <1>2 DEF How
<1>4. CASE hs["Type"] = "absent"
  BY <1>4 DEF ContentType
<1>5. CASE hs["Type"] = "empty"
  BY <1>5 DEF ContentType
<1>6. CASE hs["Type"] = "cut"
  BY <1>1, <1>6 DEF ContentType
<1>7. CASE hs["Type"] = "whole"
  BY <1>1, <1>7 DEF ContentType
<1> QED BY <1>3, <1>4, <1>5, <1>6, <1>7

LEMMA ContentLengthOf ==
  ASSUME request \in Requests, NEW hs \in [Names -> How]
  PROVE  /\ ContentLength(hs) \in Nat /\ request.length \in Nat
         /\ ContentLength(hs) > 0 => request.length > 0 /\ hs["Length"] # "absent"
         /\ hs["Length"] = "whole" => ContentLength(hs) = request.length
<1>0. request.length \in 0..99
  BY RequestsAssumption DEF RequestShape
<1>1. request.length \in Nat
  BY <1>0
<1>2. request.length \div 10 \in Nat /\ (request.length \div 10 > 0 => request.length > 0)
  BY <1>1
<1>3. CASE hs["Length"] = "whole"
  BY <1>1, <1>3 DEF ContentLength
<1>4. CASE hs["Length"] = "cut"
  <2>1. ContentLength(hs) = request.length \div 10
    BY <1>4 DEF ContentLength
  <2> QED BY <1>1, <1>2, <1>4, <2>1
<1>5. CASE hs["Length"] \notin {"whole", "cut"}
  <2>1. ContentLength(hs) = 0
    BY <1>5 DEF ContentLength
  <2> QED BY <1>1, <1>5, <2>1
<1> QED BY <1>3, <1>4, <1>5

(* The first chunk of a request: which case of parse() it meets.             *)
LEMMA FirstOfSimple ==
  ASSUME request \in Requests, sent = 0, Simple, NEW size \in Nat \ {0},
         size <= Len(Bytes(request)), size >= 5, NEW c, c = Chunk(size), Len(c) = size
  PROVE  /\ First(c) \in StopType
         /\ ContentType(First(c).headers) # "multipart"
         /\ Pending(c, First(c)) =>
              size < Len(Bytes(request)) /\ "Length" \in ToSet(request.names)
         /\ size >= HeaderEnd(request) =>
              /\ ContentType(First(c).headers) # "unknown"
              /\ First(c).at <= Len(c) + 1 /\ First(c).error = FALSE
              /\ \A name \in ToSet(request.names) : First(c).headers[name] = "whole"
         /\ size = HeaderEnd(request) /\ request.body # <<>> => Pending(c, First(c))
<1> DEFINE hs == First(c).headers
<1>1. First(c) \in StopType
  BY HeaderType DEF First
<1>2. hs \in [Names -> How] /\ First(c).at \in Nat
  BY <1>1 DEF StopType
<1>3. /\ \A name \in Names : hs[name] # "absent" => name \in ToSet(request.names)
      /\ size >= HeaderEnd(request) =>
           /\ First(c).at = HeaderEnd(request) - 3 /\ First(c).error = FALSE
           /\ \A name \in ToSet(request.names) : hs[name] = "whole"
  BY FirstHeaders DEF First
<1> HIDE DEF hs
<1>4. /\ HeaderEnd(request) \in Nat /\ Len(request.body) \in Nat
      /\ Len(Bytes(request)) = HeaderEnd(request) + Len(request.body)
      /\ request.body \in Seq(Tokens) /\ request.names \in Seq(Names)
  BY RequestText
<1>5. /\ ContentLength(hs) \in Nat /\ request.length \in Nat
      /\ ContentLength(hs) > 0 => request.length > 0 /\ hs["Length"] # "absent"
      /\ hs["Length"] = "whole" => ContentLength(hs) = request.length
  BY <1>2, ContentLengthOf
<1>6. /\ request.length > 0 => "Length" \in ToSet(request.names)
      /\ request.length > 0 <=> request.body # <<>>
  BY RequestsAssumption DEF RequestShape
<1>7. "Length" \in Names /\ "Type" \in Names
  BY DEF Names
<1>8. request.body # <<>> => Len(request.body) > 0
  BY <1>4
<1>9. ContentType(hs) # "multipart"
  BY <1>2, ContentTypeSimple
<1>10. ASSUME Pending(c, First(c))
       PROVE  size < Len(Bytes(request)) /\ "Length" \in ToSet(request.names)
  <2>1. ContentLength(hs) > 0 /\ First(c).at + 4 >= size + 1
    BY <1>10 DEF Pending, hs
  <2>2. "Length" \in ToSet(request.names) /\ Len(request.body) > 0
    BY <1>5, <1>6, <1>8, <2>1
  <2>3. ~(size >= HeaderEnd(request) + 1)
    BY <1>3, <1>4, <2>1
  <2>4. size < HeaderEnd(request) + 1
    BY <1>4, <2>3
  <2> QED BY <1>4, <2>2, <2>4
<1>11. ASSUME size >= HeaderEnd(request)
       PROVE  /\ ContentType(hs) # "unknown" /\ First(c).at <= Len(c) + 1
              /\ First(c).error = FALSE
              /\ \A name \in ToSet(request.names) : hs[name] = "whole"
  <2>1. hs["Type"] \in {"absent", "whole"}
    BY <1>3, <1>7, <1>11
  <2>2. ContentType(hs) # "unknown"
    BY <1>2, <2>1, ContentTypeSimple
  <2>3. First(c).at <= Len(c) + 1
    BY <1>3, <1>4, <1>11
  <2> QED BY <1>3, <1>11, <2>2, <2>3
<1>12. ASSUME size = HeaderEnd(request), request.body # <<>>
       PROVE  Pending(c, First(c))
  <2>1. size >= HeaderEnd(request)
    BY <1>4, <1>12
  <2>2. First(c).at + 4 >= size + 1
    BY <1>3, <1>4, <1>12, <2>1
  <2>3. hs["Length"] = "whole" /\ request.length > 0
    BY <1>3, <1>6, <1>12, <2>1
  <2>4. ContentLength(hs) > 0
    BY <1>5, <2>3
  <2> QED BY <2>2, <2>4 DEF Pending, hs
<1> QED BY <1>1, <1>9, <1>10, <1>11, <1>12 DEF hs

LEMMA SimpleFirstStep ==
  ASSUME SimpleInv, Simple, NEW size \in 1..Len(Bytes(request)), Receive(size), first = 0
  PROVE  Waits' /\ CutAfterHeaders' /\ BodyOnItsOwn'
<1> DEFINE c == Chunk(size)
<1>1. /\ size \in Nat \ {0} /\ request \in Requests /\ request' = request
      /\ sent = 0 /\ sent' = sent + size /\ size <= Len(Bytes(request))
      /\ Len(Bytes(request)) \in Nat /\ c \in Seq(Tokens) /\ Len(c) = size
      /\ ParseFirst(c) /\ first' = size
  BY OneCall DEF SimpleInv
<1>2. HeaderEnd(request) \in Nat /\ HeaderEnd(request) > 5
  BY <1>1, RequestText
<1>3. sent' = size /\ sent' = first'
  BY <1>1
<1>4. ASSUME NEW ph, NEW stop, stop.error = TRUE, Ends("more", ph, stop)
      PROVE  verdict' = "error"
  BY <1>4 DEF Ends, Outcome
<1>5. CASE Len(c) < 5
  <2>1. Ends("more", "parse_start_line", Stop(1, NoHeaders, TRUE))
    <3>1. ~(Len(c) >= 5)
      BY <1>1, <1>5
    <3> QED BY <1>1, <3>1, FirstCases
  <2>2. verdict' = "error"
    BY <1>4, <2>1 DEF Stop
  <2>3. ~(first' >= HeaderEnd(request')) /\ first' # HeaderEnd(request')
    BY <1>1, <1>2, <1>5
  <2> QED BY <2>2, <2>3 DEF Waits, CutAfterHeaders, BodyOnItsOwn
<1>6. CASE Len(c) >= 5
  <2> DEFINE st == First(c)
  <2>1. size >= 5 /\ ~(Len(c) < 5)
    BY <1>1, <1>6
  <2>2. /\ st \in StopType /\ ContentType(st.headers) # "multipart"
        /\ Pending(c, st) => size < Len(Bytes(request)) /\ "Length" \in ToSet(request.names)
        /\ size >= HeaderEnd(request) =>
             /\ ContentType(st.headers) # "unknown"
             /\ st.at <= Len(c) + 1 /\ st.error = FALSE
             /\ \A name \in ToSet(request.names) : st.headers[name] = "whole"
        /\ size = HeaderEnd(request) /\ request.body # <<>> => Pending(c, st)
    BY <1>1, <2>1, FirstOfSimple
  <2>3. size = HeaderEnd(request) => size >= HeaderEnd(request)
    BY <1>2
  <2>4. CASE /\ ContentType(st.headers) = "unknown"
             /\ Ends("more", "parse_content_type_finished", [st EXCEPT !.error = TRUE])
    <3>1. [st EXCEPT !.error = TRUE].error = TRUE
      BY <2>2 DEF StopType
    <3>2. verdict' = "error"
      BY <1>4, <2>4, <3>1
    <3>3. ~(first' >= HeaderEnd(request')) /\ first' # HeaderEnd(request')
      BY <1>1, <2>2, <2>3, <2>4
    <3> QED BY <3>2, <3>3 DEF Waits, CutAfterHeaders, BodyOnItsOwn
  <2>5. CASE Pending(c, st) /\ Ends("more", "parse_body_pending", st)
    <3>1. /\ verdict' = IF st.error THEN "error" ELSE "more"
          /\ phase' = "parse_body_pending" /\ headers' = st.headers
      BY <2>5 DEF Ends, Outcome
    <3>2. Waits'
      BY <1>1, <1>3, <2>2, <2>5, <3>1 DEF Waits
    <3>3. CutAfterHeaders'
      BY <1>1, <2>2, <3>1 DEF CutAfterHeaders
    <3>4. BodyOnItsOwn'
      BY <1>1, <1>3, <2>2, <2>3, <3>1 DEF BodyOnItsOwn
    <3> QED BY <3>2, <3>3, <3>4
  <2>6. CASE ~Pending(c, st) /\ ParseBody(c, st)
    <3>1. verdict' \in {"throws", "error", "finished"} /\ headers' = st.headers
      BY <2>6 DEF ParseBody, Ends, Outcome
    <3>2. size >= HeaderEnd(request) => verdict' = "finished"
      <4> SUFFICES ASSUME size >= HeaderEnd(request) PROVE verdict' = "finished"
        OBVIOUS
      <4>1. st.at <= Len(c) + 1 /\ st.error = FALSE /\ st.at \in Nat
        BY <2>2 DEF StopType
      <4>2. ~(st.at > Len(c) + 1)
        BY <1>1, <4>1
      <4> QED BY <2>6, <4>1, <4>2 DEF ParseBody, Outcome
    <3>3. Waits'
      BY <3>1 DEF Waits
    <3>4. CutAfterHeaders'
      BY <1>1, <2>2, <3>1, <3>2 DEF CutAfterHeaders
    <3>5. BodyOnItsOwn'
      BY <1>1, <2>2, <2>6 DEF BodyOnItsOwn
    <3> QED BY <3>3, <3>4, <3>5
  <2> QED BY <1>1, <2>1, <2>2, <2>4, <2>5, <2>6, FirstCases
<1> QED BY <1>1, <1>5, <1>6

LEMMA SimpleNextStep ==
  ASSUME SimpleInv, Simple, NEW size \in 1..Len(Bytes(request)), Receive(size), first # 0
  PROVE  Waits' /\ CutAfterHeaders' /\ BodyOnItsOwn'
<1> DEFINE c == Chunk(size)
           stop == Stop(1, headers, FALSE)
<1>1. /\ verdict = "more" /\ size \in Nat \ {0} /\ request \in Requests /\ request' = request
      /\ sent \in Nat /\ sent' = sent + size /\ sent + size <= Len(Bytes(request))
      /\ Len(Bytes(request)) \in Nat /\ c \in Seq(Tokens) /\ Len(c) = size
      /\ \A i \in 1..size : c[i] = Bytes(request)[sent + i]
      /\ first > 0 /\ first' = first /\ ParseNext(c)
  BY OneCall DEF SimpleInv
<1>2. phase = "parse_body_pending" /\ sent = first
  BY <1>1 DEF SimpleInv, Waits
<1>3. headers \in [Names -> How]
  BY DEF SimpleInv, TypeInv, Typed
<1>4. ContentType(headers) # "multipart"
  BY <1>3, ContentTypeSimple
<1>5. ParseBody(c, stop)
  BY <1>1, <1>2, <1>4 DEF ParseNext
<1>6. stop.at = 1 /\ stop.error = FALSE /\ stop.headers = headers
  BY DEF Stop
<1> HIDE DEF c, stop
<1>7. ~(stop.at > Len(c) + 1)
  BY <1>1, <1>6
<1>8. verdict' = "finished" /\ headers' = headers /\ body' = SubSeq(c, 1, Len(c))
  BY <1>5, <1>6, <1>7 DEF ParseBody, Outcome
<1>9. Waits'
  BY <1>8 DEF Waits
<1>10. CutAfterHeaders'
  BY <1>1, <1>8 DEF SimpleInv, CutAfterHeaders, Simple
<1>11. ASSUME request.body # <<>>, first = HeaderEnd(request)
       PROVE  sent' # first' /\ body' = SubSeq(request.body, 1, sent' - first')
  <2>1. /\ Len(Bytes(request)) = HeaderEnd(request) + Len(request.body)
        /\ request.body \in Seq(Tokens) /\ Len(request.body) \in Nat
        /\ \A i \in 1..Len(request.body) :
             Bytes(request)[HeaderEnd(request) + i] = request.body[i]
    BY <1>1, RequestText
  <2>2. sent' - first' = size /\ sent' # first' /\ size <= Len(request.body)
    BY <1>1, <1>2, <1>11, <2>1
  <2> DEFINE text == request.body
  <2>3. ASSUME NEW i \in 1..size
        PROVE  c[i] = text[i]
    <3>1. i \in 1..Len(request.body)
      BY <1>1, <2>1, <2>2
    <3>2. c[i] = Bytes(request)[HeaderEnd(request) + i]
      BY <1>1, <1>2, <1>11
    <3> QED BY <2>1, <3>1, <3>2
  <2>4. text \in Seq(Tokens) /\ size <= Len(text) /\ Len(text) \in Nat
    BY <2>1, <2>2
  <2> HIDE DEF text
  <2>5. SubSeq(c, 1, size) = SubSeq(text, 1, size)
    BY <1>1, <2>3, <2>4
  <2> QED BY <1>1, <1>8, <2>2, <2>5 DEF text
<1>12. BodyOnItsOwn'
  BY <1>1, <1>8, <1>11 DEF BodyOnItsOwn, Simple
<1> QED BY <1>9, <1>10, <1>12

LEMMA SimpleInvariance == Spec => []SimpleInv
<1>1. Init => SimpleInv
  <2> SUFFICES ASSUME Init PROVE SimpleInv
    OBVIOUS
  <2>1. TypeInv /\ first = 0
    BY TypeInit DEF Init
  <2>2. HeaderEnd(request) > 0 /\ HeaderEnd(request) \in Nat
    BY <2>1, RequestText DEF TypeInv, Delivered
  <2>3. ~(first > 0) /\ ~(first >= HeaderEnd(request)) /\ first # HeaderEnd(request)
    BY <2>1, <2>2
  <2> QED BY <2>1, <2>3 DEF SimpleInv, Waits, CutAfterHeaders, BodyOnItsOwn
<1>2. SimpleInv /\ [Next]_vars => SimpleInv'
  <2> SUFFICES ASSUME SimpleInv, [Next]_vars PROVE SimpleInv'
    OBVIOUS
  <2>1. ASSUME NEW size \in 1..Len(Bytes(request)), Receive(size) PROVE SimpleInv'
    <3>1. TypeInv' /\ request' = request
      BY <2>1, TypeStep, OneCall DEF SimpleInv
    <3>2. CASE Simple
      BY <2>1, <3>1, <3>2, SimpleFirstStep, SimpleNextStep DEF SimpleInv
    <3>3. CASE ~Simple
      <4>1. ~Simple'
        BY <3>1, <3>3 DEF Simple
      <4> QED BY <3>1, <4>1 DEF SimpleInv, Waits, CutAfterHeaders, BodyOnItsOwn
    <3> QED BY <3>2, <3>3
  <2>2. CASE UNCHANGED vars
    <3>1. TypeInv'
      BY <2>2 DEF vars, parserVars, SimpleInv, TypeInv, Typed, Delivered
    <3> QED BY <2>2, <3>1 DEF vars, parserVars, SimpleInv, Waits, CutAfterHeaders, BodyOnItsOwn,
                            Simple
  <2> QED BY <2>1, <2>2 DEF Next
<1> QED BY <1>1, <1>2, PTL DEF Spec

(* No request with an ordinary body leaves the session waiting for ever:     *)
(* when all of it arrived, however it was cut, a call of parse() returned or *)
(* threw.                                                                    *)
THEOREM SimpleIsDecided == Spec => []Decided
<1>1. SimpleInv => Decided
  <2> SUFFICES ASSUME SimpleInv, Simple, AllSent PROVE verdict # "more"
    BY DEF Decided
  <2>1. /\ first = 0 <=> sent = 0
        /\ first \in Nat /\ request \in Requests
    BY DEF SimpleInv, TypeInv, Delivered
  <2>2. Len(Bytes(request)) \in Nat /\ Len(Bytes(request)) > 0
    <3>1. /\ HeaderEnd(request) \in Nat /\ HeaderEnd(request) > 5
          /\ Len(request.body) \in Nat
          /\ Len(Bytes(request)) = HeaderEnd(request) + Len(request.body)
      BY <2>1, RequestText
    <3> QED BY <3>1
  <2>3. first > 0
    BY <2>1, <2>2 DEF AllSent
  <2> QED BY <2>2, <2>3 DEF SimpleInv, Waits, AllSent
<1> QED BY <1>1, SimpleInvariance, PTL

(* parse() decides a request without Content-Length on its first chunk.      *)
THEOREM NoLengthNoWait == Spec => []DecidedAtOnce
<1>1. SimpleInv => DecidedAtOnce
  BY DEF SimpleInv, Waits, DecidedAtOnce
<1> QED BY <1>1, SimpleInvariance, PTL

(* A cut after the empty line of the headers loses no header, and parse()    *)
(* rejects no supported request for it.                                      *)
THEOREM HeadersSurviveCuts == Spec => []CutAfterHeaders
<1>1. SimpleInv => CutAfterHeaders
  BY DEF SimpleInv
<1> QED BY <1>1, SimpleInvariance, PTL

(* A cut right after the headers: parse_body takes the next chunk as the     *)
(* body, all of it and nothing else.                                         *)
THEOREM BodyInAChunkOfItsOwn == Spec => []BodyOnItsOwn
<1>1. SimpleInv => BodyOnItsOwn
  BY DEF SimpleInv
<1> QED BY <1>1, SimpleInvariance, PTL

-----------------------------------------------------------------------------
(* Forms. *)

PartFrom(r) == HeaderEnd(r) + PartEnd(r)

\* What follows the data of the part.
Closing == <<"cr", "lf", "close", "cr", "lf">>

LEMMA FormText ==
  ASSUME NEW r \in Requests, r.type = "multipart"
  PROVE  /\ r.part \in Seq(Names) \ {<<>>} /\ Len(r.part) \in Nat \ {0}
         /\ "Type" \in ToSet(r.part)
         /\ "Type" \in ToSet(r.names) /\ "Length" \in ToSet(r.names)
         /\ r.length \in Nat /\ Len(r.body) <= r.length
         /\ Len(r.data) \in Nat \ {0} /\ PartEnd(r) = 5 + 5 * Len(r.part)
         /\ Len(r.body) = PartEnd(r) + Len(r.data) + 5
         /\ r.body[1] = "delim" /\ Block(r.body, 4, r.part)
         /\ \A i \in 1..Len(r.data) : r.body[PartEnd(r) + i] \in DataTokens
         /\ \A i \in 1..5 : r.body[PartEnd(r) + Len(r.data) + i] = Closing[i]
<1>1. /\ r.part \in Seq(Names) /\ "Type" \in ToSet(r.part)
      /\ r.data \in Seq(DataTokens) \ {<<>>}
      /\ r.body = FormBody(r.part, r.data)
  BY RequestsAssumption DEF RequestShape
<1>0. r.length \in 0..99
  BY RequestsAssumption DEF RequestShape
<1>2. /\ Len(r.body) <= r.length
      /\ r.type = "none" <=> "Type" \notin ToSet(r.names)
      /\ r.length > 0 => "Length" \in ToSet(r.names)
      /\ r.length > 0 <=> r.body # <<>>
  BY RequestsAssumption DEF RequestShape
<1>3. r.part # <<>>
  BY <1>1 DEF ToSet
<1>4. Len(r.part) \in Nat \ {0} /\ Len(r.data) \in Nat \ {0}
  BY <1>1, <1>3
<1>5. PartEnd(r) = 5 + 5 * Len(r.part)
  BY <1>4 DEF PartEnd
<1>6. DataTokens \subseteq Tokens
  BY DEF DataTokens
<1>7. r.data \in Seq(Tokens) /\ \A i \in 1..Len(r.data) : r.data[i] \in DataTokens
  <2> DEFINE d == r.data
             D == DataTokens
  <2>1. d \in Seq(D)
    BY <1>1
  <2> HIDE DEF d, D
  <2>2. \A i \in 1..Len(d) : d[i] \in D
    BY <2>1
  <2>3. d \in Seq(Tokens)
    <3>1. D \subseteq Tokens
      BY <1>6 DEF D
    <3> QED BY <2>1, <3>1
  <2> QED BY <2>2, <2>3 DEF d, D
<1> DEFINE head == <<"delim", "cr", "lf">>
           ns == r.part
           tail == r.data
           part == Text(head, ns, tail)
           end == Closing
<1>8. /\ head \in Seq(Tokens) /\ Len(head) = 3 /\ head[1] = "delim"
      /\ end \in Seq(Tokens) /\ Len(end) = 5
  BY DEF Tokens, Closing
<1>9. r.body = part \o end
  BY <1>1 DEF FormBody, Text, Closing
<1>10. ns \in Seq(Names) /\ tail \in Seq(Tokens)
  BY <1>1, <1>7
<1> HIDE DEF head, ns, tail, end
<1>11. /\ part \in Seq(Tokens) /\ Len(part) = Len(head) + 5 * Len(ns) + 2 + Len(tail)
       /\ Block(part, Len(head) + 1, ns)
       /\ \A i \in 1..Len(head) : part[i] = head[i]
       /\ \A i \in 1..Len(tail) : part[Len(head) + 5 * Len(ns) + 2 + i] = tail[i]
  BY <1>8, <1>10, BlockIn
<1> HIDE DEF part
<1>12. /\ part \o end \in Seq(Tokens) /\ Len(part \o end) = Len(part) + Len(end)
       /\ Len(part) \in Nat
       /\ \A i \in 1..Len(part) : (part \o end)[i] = part[i]
       /\ \A i \in 1..Len(end) : (part \o end)[Len(part) + i] = end[i]
  BY <1>8, <1>11, Joined
<1> DEFINE c == part \o end
           n == Len(ns)
           M == Len(tail)
<1>13. n \in Nat \ {0} /\ M \in Nat \ {0} /\ PartEnd(r) = 5 + 5 * n
  BY <1>4, <1>5 DEF ns, tail
<1>14. Len(part) = 5 + 5 * n + M
  BY <1>8, <1>11, <1>13
<1>15. /\ Len(c) = Len(part) + 5
       /\ \A i \in 1..Len(part) : c[i] = part[i]
       /\ \A i \in 1..5 : c[Len(part) + i] = end[i]
  BY <1>8, <1>12
<1> HIDE DEF c, n, M
<1>16. Len(c) = PartEnd(r) + M + 5
  BY <1>13, <1>14, <1>15
<1>17. c[1] = "delim"
  <2>1. 1 \in 1..Len(part) /\ 1 \in 1..Len(head)
    BY <1>8, <1>13, <1>14
  <2>2. c[1] = part[1] /\ part[1] = head[1]
    BY <1>11, <1>15, <2>1
  <2> QED BY <1>8, <2>2
<1>18. Block(c, 4, ns)
  <2>1. Block(part, 4, ns)
    BY <1>8, <1>11
  <2>2. ASSUME NEW j \in 0..n - 1 PROVE c[4 + 5 * j] = ns[j + 1]
    <3>1. 4 + 5 * j \in 1..Len(part)
      BY <1>13, <1>14
    <3>2. part[4 + 5 * j] = ns[j + 1]
      BY <2>1, <3>1 DEF Block, n
    <3> QED BY <1>15, <3>1, <3>2
  <2>3. c[4 + 5 * n] = "cr"
    <3>1. 4 + 5 * n \in 1..Len(part)
      BY <1>13, <1>14
    <3>2. part[4 + 5 * n] = "cr"
      BY <2>1, <3>1 DEF Block, n
    <3> QED BY <1>15, <3>1, <3>2
  <2>4. c[4 + 5 * n + 1] = "lf"
    <3>1. 4 + 5 * n + 1 \in 1..Len(part)
      BY <1>13, <1>14
    <3>2. part[4 + 5 * n + 1] = "lf"
      BY <2>1, <3>1 DEF Block, n
    <3> QED BY <1>15, <3>1, <3>2
  <2> QED BY <2>2, <2>3, <2>4 DEF Block, n
<1>19. ASSUME NEW i \in 1..M PROVE c[PartEnd(r) + i] \in DataTokens
  <2>1. PartEnd(r) + i \in 1..Len(part) /\ Len(head) + 5 * Len(ns) + 2 + i = PartEnd(r) + i
    BY <1>8, <1>13, <1>14 DEF n
  <2>2. part[PartEnd(r) + i] = tail[i]
    BY <1>11, <2>1 DEF M
  <2> QED BY <1>7, <1>15, <2>1, <2>2 DEF M, tail
<1>20. ASSUME NEW i \in 1..5 PROVE c[PartEnd(r) + M + i] = end[i]
  <2>1. Len(part) + i = PartEnd(r) + M + i
    BY <1>13, <1>14
  <2> QED BY <1>15, <2>1
<1>21. r.body = c
  BY <1>9 DEF c
<1>22. "Type" \in ToSet(r.names) /\ "Length" \in ToSet(r.names) /\ r.length \in Nat
  <2>1. r.length \in Nat
    BY <1>0
  <2>2. r.body # <<>>
    BY <1>13, <1>16, <1>21
  <2> QED BY <1>2, <2>1, <2>2
<1> QED BY <1>1, <1>2, <1>3, <1>4, <1>5, <1>16, <1>17, <1>18, <1>19, <1>20, <1>21, <1>22
       DEF ns, tail, M, end

(* Where the parts of the form are in the bytes of the request.              *)
LEMMA FormBytes ==
  ASSUME NEW r \in Requests, r.type = "multipart"
  PROVE  /\ HeaderEnd(r) \in Nat /\ HeaderEnd(r) > 5 /\ Len(r.part) \in Nat \ {0}
         /\ PartFrom(r) = HeaderEnd(r) + 5 + 5 * Len(r.part) /\ PartFrom(r) \in Nat
         /\ Bytes(r) \in Seq(Tokens) /\ Len(Bytes(r)) \in Nat /\ Len(r.data) \in Nat \ {0}
         /\ Len(Bytes(r)) = PartFrom(r) + Len(r.data) + 5
         /\ Len(Bytes(r)) - PartFrom(r) < r.length
         /\ Bytes(r)[HeaderEnd(r) + 1] = "delim"
         /\ Block(Bytes(r), HeaderEnd(r) + 4, r.part)
         /\ \A i \in 1..Len(r.data) : Bytes(r)[PartFrom(r) + i] \in DataTokens
         /\ \A i \in 1..5 : Bytes(r)[PartFrom(r) + Len(r.data) + i] = Closing[i]
<1> DEFINE H == HeaderEnd(r)
           text == Bytes(r)
           bd == r.body
           n == Len(r.part)
           M == Len(r.data)
<1>1. /\ H = 7 + 5 * Len(r.names) /\ Len(r.names) \in Nat \ {0} /\ Len(bd) \in Nat
      /\ text \in Seq(Tokens) /\ Len(text) = H + Len(bd)
      /\ \A i \in 1..Len(bd) : text[H + i] = bd[i]
  BY RequestText
<1>2. /\ n \in Nat \ {0} /\ M \in Nat \ {0} /\ PartEnd(r) = 5 + 5 * n
      /\ r.length \in Nat /\ Len(bd) <= r.length
      /\ Len(bd) = PartEnd(r) + M + 5
      /\ bd[1] = "delim" /\ Block(bd, 4, r.part)
      /\ \A i \in 1..M : bd[PartEnd(r) + i] \in DataTokens
      /\ \A i \in 1..5 : bd[PartEnd(r) + M + i] = Closing[i]
  BY FormText
<1> HIDE DEF H, text, bd, n, M
<1>3. H \in Nat /\ H > 5
  BY <1>1
<1>4. PartFrom(r) = H + 5 + 5 * n /\ PartFrom(r) \in Nat
  BY <1>2, <1>3 DEF PartFrom, H
<1>5. Len(text) = PartFrom(r) + M + 5 /\ Len(text) \in Nat
  <2>1. Len(text) = H + Len(bd) /\ Len(bd) = PartEnd(r) + M + 5
    BY <1>1, <1>2
  <2>2. M \in Nat /\ n \in Nat /\ PartEnd(r) = 5 + 5 * n
    BY <1>2
  <2> QED BY <1>3, <1>4, <2>1, <2>2
<1>6. Len(text) - PartFrom(r) < r.length
  BY <1>2, <1>4, <1>5
<1>7. text[H + 1] = "delim"
  <2>1. 1 \in 1..Len(bd)
    BY <1>2
  <2> QED BY <1>1, <1>2, <2>1
<1>8. Block(text, H + 4, r.part)
  <2>1. ASSUME NEW j \in 0..n - 1 PROVE text[H + 4 + 5 * j] = r.part[j + 1]
    <3>1. 4 + 5 * j \in 1..Len(bd) /\ 4 + 5 * j <= Len(bd)
      BY <1>2
    <3>2. bd[4 + 5 * j] = r.part[j + 1]
      BY <1>2, <3>1 DEF Block, n
    <3>3. H + 4 + 5 * j = H + (4 + 5 * j)
      BY <1>3
    <3> QED BY <1>1, <3>1, <3>2, <3>3
  <2>2. text[H + 4 + 5 * n] = "cr"
    <3>1. 4 + 5 * n \in 1..Len(bd) /\ 4 + 5 * n <= Len(bd)
      BY <1>2
    <3>2. bd[4 + 5 * n] = "cr"
      BY <1>2, <3>1 DEF Block, n
    <3>3. H + 4 + 5 * n = H + (4 + 5 * n)
      BY <1>2, <1>3
    <3> QED BY <1>1, <3>1, <3>2, <3>3
  <2>3. text[H + 4 + 5 * n + 1] = "lf"
    <3>1. 4 + 5 * n + 1 \in 1..Len(bd) /\ 4 + 5 * n + 1 <= Len(bd)
      BY <1>2
    <3>2. bd[4 + 5 * n + 1] = "lf"
      BY <1>2, <3>1 DEF Block, n
    <3>3. H + 4 + 5 * n + 1 = H + (4 + 5 * n + 1)
      BY <1>2, <1>3
    <3> QED BY <1>1, <3>1, <3>2, <3>3
  <2> QED BY <2>1, <2>2, <2>3 DEF Block, n
<1>9. ASSUME NEW i \in 1..M PROVE text[PartFrom(r) + i] \in DataTokens
  <2>1. PartEnd(r) + i \in 1..Len(bd) /\ PartFrom(r) + i = H + (PartEnd(r) + i)
    BY <1>2, <1>3, <1>4
  <2> QED BY <1>1, <1>2, <2>1
<1>10. ASSUME NEW i \in 1..5 PROVE text[PartFrom(r) + M + i] = Closing[i]
  <2>1. PartEnd(r) + M + i \in 1..Len(bd) /\ PartFrom(r) + M + i = H + (PartEnd(r) + M + i)
    BY <1>2, <1>3, <1>4
  <2> QED BY <1>1, <1>2, <2>1
<1> QED BY <1>1, <1>2, <1>3, <1>4, <1>5, <1>6, <1>7, <1>8, <1>9, <1>10 DEF H, text, n, M

LEMMA PartFromType ==
  ASSUME NEW r \in Requests, r.type = "multipart"
  PROVE  PartFrom(r) \in Nat /\ PartFrom(r) > 5
<1> DEFINE H == HeaderEnd(r)
           n == Len(r.part)
<1>1. H \in Nat /\ n \in Nat /\ PartFrom(r) = H + 5 + 5 * n /\ H > 5
  BY FormBytes
<1> HIDE DEF H, n
<1> QED BY <1>1

(* In the rest of the form the boundary value comes once, in the closing     *)
(* line, and the only CRLF from there on is its end: what a call takes of a  *)
(* chunk goes up to the chunk's end.                                         *)
LEMMA RestOfForm ==
  ASSUME NEW r \in Requests, r.type = "multipart",
         NEW c, NEW k \in Nat, Len(c) \in Nat, k + Len(c) <= Len(Bytes(r)),
         \A i \in 1..Len(c) : c[i] = Bytes(r)[k + i],
         NEW at \in Nat \ {0}, at <= Len(c), k + at > PartFrom(r)
  PROVE  /\ EndFrom(c, at, TRUE) = Len(c) + 1
         /\ Crlfs(c, at, TRUE) # {} => k + Len(c) = Len(Bytes(r))
<1> DEFINE P == PartFrom(r)
           M == Len(r.data)
           text == Bytes(r)
           b == BoundaryAt(c, at, TRUE)
<1>1. /\ P \in Nat /\ M \in Nat \ {0} /\ Len(text) \in Nat /\ Len(text) = P + M + 5
      /\ \A i \in 1..M : text[P + i] \in DataTokens
      /\ \A i \in 1..5 : text[P + M + i] = Closing[i]
  BY FormBytes
<1>2. /\ b \in Nat /\ b <= Len(c) + 1 /\ at <= b
      /\ b <= Len(c) => c[b] \in {"delim", "close"}
  <2>1. at \in Nat /\ at <= Len(c) + 1
    OBVIOUS
  <2>2. /\ b \in Nat /\ b <= Len(c) + 1
        /\ at <= Len(c) + 1 => at <= b
        /\ b <= Len(c) /\ TRUE => c[b] \in {"delim", "close"}
    BY <2>1, BoundaryAtPosition, Zenon
  <2> QED BY <2>1, <2>2
<1> HIDE DEF P, M, text, b
<1>3. /\ text[P + M + 1] = "cr" /\ text[P + M + 2] = "lf" /\ text[P + M + 3] = "close"
      /\ text[P + M + 4] = "cr" /\ text[P + M + 5] = "lf"
  BY <1>1 DEF Closing
<1>4. ASSUME NEW q \in Crlfs(c, at, TRUE)
      PROVE  q + 1 = Len(c) /\ k + Len(c) = Len(text) /\ q \in Nat
  <2>1. q \in b..Len(c) /\ q + 1 <= Len(c) /\ c[q] = "cr"
    BY <1>4 DEF Crlfs, EmptyLineAt, b
  <2>2. q \in Nat /\ q \in 1..Len(c) /\ b \in 1..Len(c) /\ b <= q
    BY <1>2, <2>1
  <2>3. text[k + q] = "cr" /\ text[k + b] \in {"delim", "close"}
    BY <1>2, <2>1, <2>2 DEF text
  <2>4. PICK i \in Nat : k + b = P + i /\ i > 0
    <3>1. P \in Nat /\ b \in Nat /\ at <= b /\ k + at > P
      BY <1>1, <1>2 DEF P
    <3>2. k + b - P \in Nat /\ k + b - P > 0 /\ k + b = P + (k + b - P)
      BY <3>1
    <3> QED BY <3>2
  <2>5. i > M
    <3>1. M \in Nat
      BY <1>1
    <3>2. ASSUME i <= M PROVE FALSE
      <4>1. i \in 1..M
        BY <2>4, <3>1, <3>2
      <4>2. text[P + i] \in DataTokens
        BY <1>1, <4>1
      <4> QED BY <2>3, <2>4, <4>2 DEF DataTokens
    <3> QED BY <2>4, <3>1, <3>2
  <2>6. i # M + 1 /\ i # M + 2
    <3>1. P + (M + 1) = P + M + 1 /\ P + (M + 2) = P + M + 2
      BY <1>1
    <3> QED BY <1>3, <2>3, <2>4, <3>1
  <2>7. i >= M + 3
    <3>1. i \in Nat /\ M \in Nat
      BY <1>1, <2>4
    <3> QED BY <2>5, <2>6, <3>1
  <2>8. k + q >= P + M + 3 /\ k + q <= P + M + 4
    BY <1>1, <2>1, <2>2, <2>4, <2>7 DEF text
  <2>9. k + q # P + M + 3
    BY <1>3, <2>3
  <2>10. k + q = P + M + 4
    BY <1>1, <2>2, <2>8, <2>9
  <2>11. /\ P \in Nat /\ M \in Nat /\ Len(text) = P + M + 5
         /\ k + Len(c) <= Len(text)
    BY <1>1 DEF text
  <2>12. q \in Nat /\ q + 1 <= Len(c) /\ Len(c) \in Nat /\ k \in Nat
    BY <2>1, <2>2
  <2>13. Len(c) = q + 1
    <3> DEFINE L == Len(c)
               T == Len(text)
    <3>1. /\ L \in Nat /\ k \in Nat /\ q \in Nat /\ P \in Nat /\ M \in Nat
          /\ q + 1 <= L /\ k + L <= T /\ T = P + M + 5 /\ k + q = P + M + 4
      BY <2>10, <2>11, <2>12
    <3> HIDE DEF L, T
    <3>2. L = q + 1
      BY <3>1
    <3> QED BY <3>2 DEF L
  <2>14. k + Len(c) = Len(text)
    BY <2>10, <2>11, <2>12, <2>13
  <2> QED BY <2>12, <2>13, <2>14
<1>5. /\ Crlfs(c, at, TRUE) = {} => EndFrom(c, at, TRUE) = Len(c) + 1
      /\ Crlfs(c, at, TRUE) # {} => \E q \in Crlfs(c, at, TRUE) : EndFrom(c, at, TRUE) = q + 2
  <2>1. at \in Nat
    OBVIOUS
  <2> QED BY <2>1, EndFromPosition, Zenon
<1>6. CASE Crlfs(c, at, TRUE) = {}
  BY <1>5, <1>6
<1>7. CASE Crlfs(c, at, TRUE) # {}
  <2>1. PICK q \in Crlfs(c, at, TRUE) : EndFrom(c, at, TRUE) = q + 2
    BY <1>5, <1>7
  <2>2. q + 1 = Len(c) /\ k + Len(c) = Len(text) /\ q \in Nat
    BY <1>4, <2>1
  <2>3. q + 2 = Len(c) + 1
    <3>1. q \in Nat /\ Len(c) = q + 1
      BY <2>2
    <3> QED BY <3>1
  <2> QED BY <2>1, <2>2, <2>3 DEF text
<1> QED BY <1>6, <1>7

LEMMA SameText ==
  ASSUME NEW s \in Seq(Tokens), NEW t \in Seq(Tokens), Len(s) = Len(t),
         \A i \in 1..Len(s) : s[i] = t[i]
  PROVE  s = t
OBVIOUS

LEMMA NoText ==
  ASSUME NEW text \in Seq(Tokens), NEW m \in Nat, NEW n \in Nat, n < m
  PROVE  SubSeq(text, m, n) = <<>>
OBVIOUS

\* The chunk c is what comes in the text after its first k tokens.
PieceOf(c, text, k) ==
  k + Len(c) <= Len(text) /\ \A i \in 1..Len(c) : c[i] = text[k + i]

\* The text from some position to the chunk, and the chunk from some position.
Joins(text, c, from, k, at) ==
  SubSeq(text, from + 1, k + at - 1) \o SubSeq(c, at, Len(c)) =
    SubSeq(text, from + 1, k + Len(c))

LEMMA TextJoined ==
  ASSUME NEW text \in Seq(Tokens), NEW c \in Seq(Tokens), NEW from \in Nat, NEW k \in Nat,
         PieceOf(c, text, k), NEW at \in Nat \ {0}, at <= Len(c), k + at > from
  PROVE  Joins(text, c, from, k, at)
<1> DEFINE a == SubSeq(text, from + 1, k + at - 1)
           b == SubSeq(c, at, Len(c))
           d == SubSeq(text, from + 1, k + Len(c))
<1>0. k + Len(c) <= Len(text) /\ \A i \in 1..Len(c) : c[i] = text[k + i]
  BY DEF PieceOf
<1>1. Len(c) \in Nat /\ Len(text) \in Nat
  OBVIOUS
<1>2. /\ a \in Seq(Tokens) /\ Len(a) = k + at - 1 - from
      /\ \A i \in 1..k + at - 1 - from : a[i] = text[from + i]
  BY <1>0, <1>1
<1>3. /\ b \in Seq(Tokens) /\ Len(b) = Len(c) + 1 - at
      /\ \A i \in 1..Len(c) + 1 - at : b[i] = c[at - 1 + i]
  BY <1>0, <1>1
<1>4. /\ d \in Seq(Tokens) /\ Len(d) = k + Len(c) - from
      /\ \A i \in 1..k + Len(c) - from : d[i] = text[from + i]
  BY <1>0, <1>1
<1> HIDE DEF a, b, d
<1>5. /\ a \o b \in Seq(Tokens) /\ Len(a \o b) = Len(a) + Len(b)
      /\ Len(a) \in Nat /\ Len(b) \in Nat
      /\ \A i \in 1..Len(a) : (a \o b)[i] = a[i]
      /\ \A i \in 1..Len(b) : (a \o b)[Len(a) + i] = b[i]
  BY <1>2, <1>3, Joined
<1> DEFINE e == a \o b
<1>6. e \in Seq(Tokens) /\ Len(e) = Len(d)
  BY <1>1, <1>2, <1>3, <1>4, <1>5
<1>7. ASSUME NEW i \in 1..Len(e) PROVE e[i] = d[i]
  <2>1. i \in 1..k + Len(c) - from /\ d[i] = text[from + i]
    BY <1>1, <1>4, <1>6
  <2>2. CASE i <= Len(a)
    <3>1. i \in 1..Len(a) /\ i \in 1..k + at - 1 - from
      BY <1>2, <2>1, <2>2
    <3> QED BY <1>2, <1>5, <2>1, <3>1
  <2>3. CASE i > Len(a)
    <3> DEFINE j == i - Len(a)
    <3>1. j \in 1..Len(b) /\ i = Len(a) + j
      BY <1>1, <1>2, <1>3, <1>4, <1>5, <2>1, <2>3
    <3>2. e[i] = b[j]
      BY <1>5, <3>1
    <3>3. j \in 1..Len(c) + 1 - at /\ at - 1 + j \in 1..Len(c)
      BY <1>1, <1>3, <3>1
    <3>4. b[j] = text[k + (at - 1 + j)]
      BY <1>0, <1>3, <3>3
    <3>5. k + (at - 1 + j) = from + i
      BY <1>1, <1>2, <3>1
    <3> QED BY <2>1, <3>2, <3>4, <3>5
  <2> QED BY <1>5, <2>1, <2>2, <2>3
<1> HIDE DEF e
<1>8. e = d
  <2>1. d \in Seq(Tokens)
    BY <1>4
  <2> QED BY <1>6, <1>7, <2>1, SameText
<1> QED BY <1>8 DEF Joins, e, a, b, d

\* From its position m on, the chunk at the end of a text is the rest of it.
SameRest(text, c, k, m) ==
  SubSeq(text, k + m + 1, k + Len(c)) = SubSeq(c, m + 1, Len(c))

LEMMA RestIsSame ==
  ASSUME NEW text \in Seq(Tokens), NEW c \in Seq(Tokens), NEW k \in Nat, PieceOf(c, text, k),
         NEW m \in Nat, m <= Len(c)
  PROVE  SameRest(text, c, k, m)
<1> DEFINE a == SubSeq(text, k + m + 1, k + Len(c))
           b == SubSeq(c, m + 1, Len(c))
<1>1. /\ k + Len(c) <= Len(text) /\ Len(c) \in Nat /\ Len(text) \in Nat
      /\ \A i \in 1..Len(c) : c[i] = text[k + i]
  BY DEF PieceOf
<1>2. /\ a \in Seq(Tokens) /\ Len(a) = Len(c) - m
      /\ \A i \in 1..Len(c) - m : a[i] = text[k + (m + i)]
  BY <1>1
<1>3. /\ b \in Seq(Tokens) /\ Len(b) = Len(c) - m
      /\ \A i \in 1..Len(c) - m : b[i] = c[m + i]
  BY <1>1
<1>4. ASSUME NEW i \in 1..Len(c) - m PROVE a[i] = b[i]
  <2>1. m + i \in 1..Len(c)
    BY <1>1
  <2> QED BY <1>1, <1>2, <1>3, <2>1
<1> HIDE DEF a, b
<1>5. a = b
  BY <1>2, <1>3, <1>4, SameText
<1> QED BY <1>5 DEF SameRest, a, b

IsForm == request.type = "multipart"

(* Of a form whose first chunk held the headers of the part: the upload is   *)
(* all that was sent of the part and what follows it, the count is its size, *)
(* and the next call, if there is one, is for parse_media_type_more.         *)
Taken ==
  /\ \/ verdict = "more" /\ phase = "parse_media_type_need_more"
     \/ verdict = "finished" /\ sent = Len(Bytes(request))
  /\ headers \in [Names -> How] /\ headers["Length"] = "whole" /\ boundary = TRUE
  /\ readed = sent - PartFrom(request)
  /\ upload = SubSeq(Bytes(request), PartFrom(request) + 1, sent)

FormInv ==
  /\ TypeInv
  /\ first = 0 => upload = <<>> /\ readed = 0
  /\ IsForm /\ first >= PartFrom(request) => Taken

(* parse_media_type_more at position at of a chunk, with the count and the   *)
(* upload it has so far.                                                     *)
LEMMA MoreTaken ==
  ASSUME request \in Requests, request' = request, IsForm,
         NEW c \in Seq(Tokens), NEW k \in Nat, sent' = k + Len(c), PieceOf(c, Bytes(request), k),
         NEW at \in Nat \ {0}, at <= Len(c) + 1, k + at > PartFrom(request),
         NEW hs \in [Names -> How], hs["Length"] = "whole",
         readed = k + at - 1 - PartFrom(request),
         upload = SubSeq(Bytes(request), PartFrom(request) + 1, k + at - 1),
         MediaMore(c, Stop(at, hs, FALSE), TRUE)
  PROVE  Taken'
<1> DEFINE stop == Stop(at, hs, FALSE)
           text == Bytes(request)
           P == PartFrom(request)
           size == k + Len(c)
<1>1. stop.at = at /\ stop.headers = hs /\ stop.error = FALSE
  BY DEF Stop
<1>2. /\ P \in Nat /\ text \in Seq(Tokens) /\ Len(text) \in Nat
      /\ Len(text) - P < request.length
  BY FormBytes DEF IsForm
<1>3. Len(c) \in Nat /\ size \in Nat /\ size <= Len(text)
  BY DEF PieceOf
<1>4. HasLength(hs)
  BY DEF HasLength
<1>5. ContentLength(hs) = request.length
  BY DEF ContentLength
<1>6. ASSUME NEW v, NEW ph, NEW up, NEW rd, Outcome(v, ph, stop, body, up, rd, TRUE),
             \/ v = "more" /\ ph = "parse_media_type_need_more"
             \/ v = "finished" /\ size = Len(text),
             rd = size - P, up = SubSeq(text, P + 1, size)
      PROVE  Taken'
  <2>1. /\ verdict' = v /\ phase' = ph /\ headers' = hs /\ boundary' = TRUE
        /\ readed' = rd /\ upload' = up
    BY <1>1, <1>6 DEF Outcome
  <2> QED BY <1>6, <2>1 DEF Taken
<1>7. CASE at = Len(c) + 1
  <2>1. k + at - 1 = size
    BY <1>3, <1>7
  <2>2. ~(at > Len(c) + 1) /\ ~(at <= Len(c))
    BY <1>3, <1>7
  <2>3. Outcome("more", "parse_media_type_need_more", stop, body, upload, readed, TRUE)
    BY <1>1, <1>4, <2>2 DEF MediaMore
  <2>4. readed = size - P /\ upload = SubSeq(text, P + 1, size)
    <3> DEFINE was == k + at - 1
    <3>1. readed = was - P
      BY <1>2
    <3>2. upload = SubSeq(text, P + 1, was)
      OBVIOUS
    <3>3. was = size
      BY <2>1
    <3> HIDE DEF was, size, text, P
    <3> QED BY <3>1, <3>2, <3>3
  <2> HIDE DEF size, text, P, stop
  <2> QED BY <1>6, <2>3, <2>4
<1>8. CASE at <= Len(c)
  <2> DEFINE end == EndFrom(c, at, TRUE)
             up == upload \o SubSeq(c, at, end - 1)
             rd == readed + (end - at)
  <2>1. /\ end = Len(c) + 1
        /\ Crlfs(c, at, TRUE) # {} => size = Len(text)
    <3>1. Len(c) \in Nat /\ k + Len(c) <= Len(Bytes(request)) /\ k + at > PartFrom(request)
      BY <1>3
    <3> QED BY <1>8, <3>1, RestOfForm, Zenon DEF IsForm, PieceOf
  <2> HIDE DEF end
  <2>2. end - 1 = Len(c) /\ end - at = Len(c) + 1 - at
    BY <1>3, <2>1
  <2>3. up = SubSeq(text, P + 1, size)
    <3>1. SubSeq(text, P + 1, k + at - 1) \o SubSeq(c, at, Len(c)) = SubSeq(text, P + 1, size)
      <4> HIDE DEF text, P
      <4>1. k + at > P /\ PieceOf(c, text, k)
        BY DEF P, text
      <4>2. text \in Seq(Tokens) /\ P \in Nat
        BY <1>2
      <4>3. Joins(text, c, P, k, at)
        BY <1>8, <4>1, <4>2, TextJoined
      <4> QED BY <4>3 DEF Joins
    <3> QED BY <2>2, <3>1
  <2>4. rd = size - P
    <3>1. readed = k + (at - 1 - P) /\ rd = readed + (Len(c) + 1 - at)
      BY <2>2
    <3>2. P \in Nat /\ Len(c) \in Nat
      BY <1>2, <1>3
    <3> HIDE DEF P, rd
    <3> QED BY <3>1, <3>2
  <2>5. ~(at > Len(c) + 1) /\ at # Len(c) + 1
    BY <1>3, <1>8
  <2>6. \/ TakeUpload("more", "parse_media_type_need_more", c, stop, TRUE)
        \/ ~FormOpen(c, stop, TRUE) /\ TakeUpload("finished", "finished", c, stop, TRUE)
    BY <1>1, <1>4, <2>5 DEF MediaMore
  <2>7. ~FormOpen(c, stop, TRUE) => size = Len(text)
    <3>1. rd < request.length
      <4>1. size - P <= Len(text) - P
        BY <1>2, <1>3
      <4>2. request.length \in Nat
        BY FormText DEF IsForm
      <4> HIDE DEF rd, size, text, P
      <4> QED BY <1>2, <1>3, <2>4, <4>1, <4>2
    <3>2. ~FormOpen(c, stop, TRUE) => Crlfs(c, at, TRUE) # {}
      BY <1>1, <1>5, <3>1 DEF FormOpen, end
    <3> QED BY <2>1, <3>2
  <2>8. \/ Outcome("more", "parse_media_type_need_more", stop, body, up, rd, TRUE)
        \/ size = Len(text) /\ Outcome("finished", "finished", stop, body, up, rd, TRUE)
    BY <1>1, <2>6, <2>7 DEF TakeUpload, end
  <2> HIDE DEF up, rd, size, text, P, stop
  <2> QED BY <1>6, <2>3, <2>4, <2>8
<1> QED BY <1>3, <1>7, <1>8

(* A first chunk with the headers of the part: parse_media_type_begin stops  *)
(* at the first byte of the part.                                            *)
LEMMA FormBegins ==
  ASSUME request \in Requests, IsForm, sent = 0, NEW size \in Nat \ {0},
         size <= Len(Bytes(request)), size >= PartFrom(request)
  PROVE  LET c == Chunk(size)
             hs == First(c).headers
         IN  /\ hs \in [Names -> How] /\ hs["Length"] = "whole"
             /\ ContentType(hs) = "multipart" /\ ~Pending(c, First(c))
             /\ BoundaryKnown(c, First(c)) = TRUE
             /\ MediaBegin(c, First(c)) = Stop(PartFrom(request) + 1, hs, FALSE)
<1> DEFINE c == Chunk(size)
           st == First(c)
           hs == st.headers
           H == HeaderEnd(request)
           P == PartFrom(request)
           ns == request.part
           text == Bytes(request)
           p == H + 4
<1>1. /\ H \in Nat /\ H > 5 /\ Len(ns) \in Nat \ {0} /\ P = H + 5 + 5 * Len(ns)
      /\ Len(text) \in Nat /\ text[H + 1] = "delim" /\ Block(text, H + 4, ns)
  BY FormBytes DEF IsForm
<1>2. /\ ns \in Seq(Names) \ {<<>>} /\ "Type" \in ToSet(ns)
      /\ "Type" \in ToSet(request.names) /\ "Length" \in ToSet(request.names)
  BY FormText DEF IsForm
<1>3. /\ c \in Seq(Tokens) /\ Len(c) = size
      /\ \A i \in 1..size : c[i] = text[0 + i]
  BY ChunkText
<1>4. size >= H /\ size >= 5 /\ size > H + 8 /\ size <= Len(text)
  BY <1>1
<1>5. st \in StopType
  BY <1>3, HeaderType DEF First
<1>6. /\ st.at = H - 3 /\ st.error = FALSE
      /\ \A name \in ToSet(request.names) : hs[name] = "whole"
  BY <1>4, FirstHeaders DEF First
<1>7. hs \in [Names -> How] /\ hs["Type"] = "whole" /\ hs["Length"] = "whole"
  BY <1>2, <1>5, <1>6 DEF StopType
<1>8. ContentType(hs) = "multipart"
  BY <1>7 DEF ContentType, IsForm
<1>9. st.at + 4 = H + 1
  BY <1>1, <1>6
<1> HIDE DEF c, st, hs, H, P, ns, text
<1>10. ~Pending(c, st)
  <2>1. ~(st.at + 4 >= Len(c) + 1)
    BY <1>1, <1>3, <1>4, <1>9
  <2> QED BY <2>1 DEF Pending
<1>11. BoundaryKnown(c, st) = TRUE
  <2>1. st.at + 4 <= Len(c) + 1
    BY <1>1, <1>3, <1>4, <1>9
  <2> QED BY <1>7, <2>1 DEF BoundaryKnown, hs
<1>12. DelimAt(c, st) = H + 1
  <2> DEFINE q == H + 1
             b == BoundaryAt(c, q, TRUE)
  <2>1. q \in Nat /\ q \in 1..Len(c) /\ q <= Len(c) + 1 /\ Len(c) \in Nat /\ q \in 1..size
    BY <1>1, <1>3, <1>4
  <2>2. c[q] = text[0 + q] /\ 0 + q = q
    BY <1>3, <2>1
  <2>3. c[q] \in {"delim", "close"}
    BY <1>1, <2>2
  <2>4. DelimAt(c, st) = b
    BY <1>9 DEF DelimAt
  <2>5. q \in q..Len(c)
    BY <2>1
  <2> HIDE DEF q
  <2>6. /\ b \in Nat
        /\ q <= Len(c) + 1 => q <= b
        /\ \A i \in q..Len(c) : c[i] \in {"delim", "close"} => b <= i
    BY <2>1, BoundaryAtPosition, Zenon
  <2>7. b <= q /\ q <= b /\ b \in Nat
    <3>1. b <= q
      BY <2>3, <2>5, <2>6, Zenon
    <3> QED BY <2>1, <2>6, <3>1
  <2> HIDE DEF b
  <2>8. b = q
    BY <2>1, <2>7
  <2> QED BY <2>4, <2>8 DEF q
<1>13. /\ PartHeader(c, st).at = P - 3 /\ PartHeader(c, st).error = FALSE
       /\ PartHeader(c, st).headers["Type"] = "whole"
  <2>1. p \in Nat \ {0} /\ p <= Len(c) /\ Len(c) \in Nat
    BY <1>1, <1>3, <1>4
  <2>2. Block(c, p, ns)
    <3>1. /\ 0 + Len(c) <= Len(text) /\ 0 \in Nat /\ ns \in Seq(Names)
          /\ \A i \in 1..Len(c) : c[i] = text[0 + i]
      BY <1>2, <1>3, <1>4
    <3>2. Block(text, 0 + p, ns)
      <4>1. 0 + p = H + 4
        BY <1>1
      <4> QED BY <1>1, <4>1
    <3> HIDE DEF p
    <3> QED BY <1>1, <2>1, <3>1, <3>2, BlockInChunk
  <2>3. PartHeader(c, st) = MessageHeader(c, p)
    <3>1. DelimAt(c, st) + 3 = p
      BY <1>1, <1>12
    <3> QED BY <3>1 DEF PartHeader
  <2>4. p + 5 * Len(ns) + 1 <= Len(c) /\ p + 5 * Len(ns) - 2 = P - 3
    BY <1>1, <1>3 DEF P
  <2> HIDE DEF p
  <2>5. p + 5 * Len(ns) + 1 <= Len(c) =>
          /\ MessageHeader(c, p).at = p + 5 * Len(ns) - 2
          /\ MessageHeader(c, p).error = FALSE
          /\ \A name \in ToSet(ns) : MessageHeader(c, p).headers[name] = "whole"
    BY <1>2, <2>1, <2>2, HeaderBlock
  <2> QED BY <1>2, <2>3, <2>4, <2>5
<1>14. MediaBegin(c, st) = Stop(P + 1, hs, FALSE)
  <2>1. ~(st.at + 4 > Len(c) + 1)
    BY <1>1, <1>3, <1>4, <1>9
  <2>2. DelimAt(c, st) \notin {Len(c) - 1, Len(c) + 1}
    BY <1>1, <1>3, <1>4, <1>12
  <2>3. PartStart(PartHeader(c, st).at) = P + 1
    BY <1>1, <1>13 DEF PartStart
  <2> QED BY <1>6, <1>7, <1>13, <2>1, <2>2, <2>3 DEF MediaBegin, hs
<1> QED BY <1>7, <1>8, <1>10, <1>11, <1>14 DEF c, st, hs, P

LEMMA FormFirstStep ==
  ASSUME FormInv, IsForm, NEW size \in 1..Len(Bytes(request)), Receive(size), first = 0,
         first' >= PartFrom(request)
  PROVE  Taken'
<1> DEFINE c == Chunk(size)
           hs == First(c).headers
           at == PartFrom(request) + 1
<1>1. /\ size \in Nat \ {0} /\ request \in Requests /\ request' = request
      /\ sent = 0 /\ sent' = sent + size /\ sent + size <= Len(Bytes(request))
      /\ c \in Seq(Tokens) /\ Len(c) = size
      /\ \A i \in 1..size : c[i] = Bytes(request)[sent + i]
      /\ ParseFirst(c) /\ first' = size
  BY OneCall DEF FormInv
<1>2. PartFrom(request) \in Nat /\ PartFrom(request) > 5
  BY <1>1, PartFromType DEF IsForm
<1>3. size >= PartFrom(request) /\ size <= Len(Bytes(request))
  BY <1>1
<1>4. /\ hs \in [Names -> How] /\ hs["Length"] = "whole"
      /\ ContentType(hs) = "multipart" /\ ~Pending(c, First(c))
      /\ BoundaryKnown(c, First(c)) = TRUE
      /\ MediaBegin(c, First(c)) = Stop(at, hs, FALSE)
  BY <1>1, <1>3, FormBegins
<1>5. MediaMore(c, Stop(at, hs, FALSE), TRUE)
  <2>1. ~(Len(c) < 5)
    BY <1>1, <1>2, <1>3
  <2> QED BY <1>1, <1>4, <2>1, FirstCases
<1>6. PieceOf(c, Bytes(request), 0)
  BY <1>1 DEF PieceOf
<1>7. readed = 0 + at - 1 - PartFrom(request)
  BY <1>1, <1>2 DEF FormInv
<1>8. upload = SubSeq(Bytes(request), PartFrom(request) + 1, 0 + at - 1)
  <2>1. upload = <<>>
    BY DEF FormInv
  <2> DEFINE text == Bytes(request)
             m == PartFrom(request) + 1
             n == 0 + at - 1
  <2>2. n < m /\ n \in Nat /\ m \in Nat
    BY <1>2
  <2>3. text \in Seq(Tokens)
    BY <1>1, RequestText
  <2> HIDE DEF text, m, n
  <2>4. SubSeq(text, m, n) = <<>>
    BY <2>2, <2>3, NoText
  <2> QED BY <2>1, <2>4 DEF text, m, n
<1>9. at \in Nat \ {0} /\ at <= Len(c) + 1 /\ 0 + at > PartFrom(request)
  BY <1>1, <1>2, <1>3
<1>10. sent' = 0 + Len(c)
  BY <1>1
<1> DEFINE k == 0
<1>11. /\ k \in Nat /\ PieceOf(c, Bytes(request), k) /\ k + at > PartFrom(request)
       /\ readed = k + at - 1 - PartFrom(request) /\ sent' = k + Len(c)
       /\ upload = SubSeq(Bytes(request), PartFrom(request) + 1, k + at - 1)
  BY <1>6, <1>7, <1>8, <1>9, <1>10
<1>12. /\ hs \in [Names -> How] /\ hs["Length"] = "whole" /\ c \in Seq(Tokens)
       /\ request \in Requests /\ request' = request
  BY <1>1, <1>4
<1> HIDE DEF c, hs, at, k
<1> QED BY <1>5, <1>9, <1>11, <1>12, MoreTaken

LEMMA FormNextStep ==
  ASSUME FormInv, IsForm, NEW size \in 1..Len(Bytes(request)), Receive(size), first # 0,
         first >= PartFrom(request)
  PROVE  Taken'
<1> DEFINE c == Chunk(size)
           at == 1
<1>1. /\ verdict = "more" /\ size \in Nat \ {0} /\ request \in Requests /\ request' = request
      /\ sent \in Nat /\ sent' = sent + size /\ sent + size <= Len(Bytes(request))
      /\ c \in Seq(Tokens) /\ Len(c) = size
      /\ \A i \in 1..size : c[i] = Bytes(request)[sent + i]
      /\ first \in Nat /\ first <= sent /\ ParseNext(c)
  BY OneCall DEF FormInv
<1>2. Taken
  BY DEF FormInv
<1>3. /\ phase = "parse_media_type_need_more" /\ boundary = TRUE
      /\ headers \in [Names -> How] /\ headers["Length"] = "whole"
      /\ readed = sent - PartFrom(request)
      /\ upload = SubSeq(Bytes(request), PartFrom(request) + 1, sent)
  BY <1>1, <1>2 DEF Taken
<1>4. MediaMore(c, Stop(at, headers, FALSE), TRUE)
  BY <1>1, <1>3 DEF ParseNext
<1>5. PartFrom(request) \in Nat
  BY <1>1, FormBytes DEF IsForm
<1>6. PieceOf(c, Bytes(request), sent) /\ sent' = sent + Len(c)
  BY <1>1 DEF PieceOf
<1>7. sent + at - 1 = sent
  BY <1>1
<1>8. /\ readed = sent + at - 1 - PartFrom(request)
      /\ upload = SubSeq(Bytes(request), PartFrom(request) + 1, sent + at - 1)
  BY <1>1, <1>3, <1>5, <1>7
<1>9. at \in Nat \ {0} /\ at <= Len(c) + 1 /\ sent + at > PartFrom(request)
  BY <1>1, <1>5
<1> HIDE DEF c, at
<1>10. PICK k, hs : k = sent /\ hs = headers
  OBVIOUS
<1> QED BY <1>1, <1>3, <1>4, <1>6, <1>8, <1>9, <1>10, MoreTaken

LEMMA FormInvariance == Spec => []FormInv
<1>1. Init => FormInv
  <2> SUFFICES ASSUME Init PROVE FormInv
    OBVIOUS
  <2>1. TypeInv /\ first = 0 /\ upload = <<>> /\ readed = 0
    BY TypeInit DEF Init
  <2>2. IsForm => PartFrom(request) \in Nat /\ PartFrom(request) > 0
    <3> SUFFICES ASSUME IsForm PROVE PartFrom(request) \in Nat /\ PartFrom(request) > 0
      OBVIOUS
    <3>1. request \in Requests
      BY <2>1 DEF TypeInv, Delivered
    <3>2. PartFrom(request) \in Nat /\ PartFrom(request) > 5
      BY <3>1, PartFromType DEF IsForm
    <3> QED BY <3>2
  <2>3. ~(IsForm /\ first >= PartFrom(request))
    BY <2>1, <2>2
  <2> QED BY <2>1, <2>3 DEF FormInv
<1>2. FormInv /\ [Next]_vars => FormInv'
  <2> SUFFICES ASSUME FormInv, [Next]_vars PROVE FormInv'
    OBVIOUS
  <2>1. ASSUME NEW size \in 1..Len(Bytes(request)), Receive(size) PROVE FormInv'
    <3>1. TypeInv' /\ request' = request
      BY <2>1, TypeStep, OneCall DEF FormInv
    <3>2. IsForm' = IsForm /\ PartFrom(request)' = PartFrom(request)
      BY <3>1 DEF IsForm
    <3>3. first' # 0 /\ (first = 0 \/ first' = first)
      BY <2>1, OneCall DEF FormInv
    <3>4. ASSUME IsForm, first' >= PartFrom(request) PROVE Taken'
      <4>1. CASE first = 0
        BY <2>1, <3>4, <4>1, FormFirstStep
      <4>2. CASE first # 0
        BY <2>1, <3>3, <3>4, <4>2, FormNextStep
      <4> QED BY <4>1, <4>2
    <3> QED BY <3>1, <3>2, <3>3, <3>4 DEF FormInv
  <2>2. CASE UNCHANGED vars
    <3>1. TypeInv'
      BY <2>2 DEF vars, parserVars, FormInv, TypeInv, Typed, Delivered
    <3> QED BY <2>2, <3>1 DEF vars, parserVars, FormInv, Taken, IsForm
  <2> QED BY <2>1, <2>2 DEF Next
<1> QED BY <1>1, <1>2, PTL DEF Spec

(* A form whose part headers came with the first chunk is not rejected, and  *)
(* the parser does not throw on it; the upload holds at any time what was    *)
(* sent of the part, no byte lost or twice.                                  *)
THEOREM UploadLosesNothing == Spec => []FormKept
<1>1. FormInv => FormKept
  BY DEF FormInv, Taken, IsForm, PartFrom, FormKept
<1> QED BY <1>1, FormInvariance, PTL

(* parse_media_type_more finishes such a form only with all bytes of the     *)
(* part, up to the end of the closing boundary line.                         *)
THEOREM UploadIsComplete == Spec => []UploadExact
<1>1. FormInv => UploadExact
  <2> SUFFICES ASSUME FormInv, IsForm, verdict = "finished", first >= PartFrom(request)
               PROVE  upload = SubSeq(request.body, PartEnd(request) + 1, Len(request.body))
    BY DEF UploadExact, IsForm, PartFrom
  <2>1. request \in Requests
    BY DEF FormInv, TypeInv, Delivered
  <2>2. upload = SubSeq(Bytes(request), PartFrom(request) + 1, Len(Bytes(request)))
    BY DEF FormInv, Taken
  <2> DEFINE text == Bytes(request)
             bd == request.body
             k == HeaderEnd(request)
             m == PartEnd(request)
  <2>3. /\ text \in Seq(Tokens) /\ bd \in Seq(Tokens) /\ k \in Nat
        /\ Len(text) = k + Len(bd) /\ Len(text) \in Nat
        /\ \A i \in 1..Len(bd) : text[k + i] = bd[i]
    BY <2>1, RequestText
  <2>4. m \in Nat /\ m <= Len(bd)
    <3>1. /\ Len(request.part) \in Nat /\ Len(request.data) \in Nat
          /\ m = 5 + 5 * Len(request.part) /\ Len(bd) = m + Len(request.data) + 5
      BY <2>1, FormText DEF IsForm
    <3> DEFINE n == Len(request.part)
               d == Len(request.data)
               l == Len(bd)
    <3>2. n \in Nat /\ d \in Nat /\ m = 5 + 5 * n /\ l = m + d + 5
      BY <3>1
    <3> HIDE DEF n, d, l, m
    <3>3. m \in Nat /\ m <= l
      BY <3>2
    <3> QED BY <3>3 DEF l
  <2>5. PieceOf(bd, text, k)
    BY <2>3 DEF PieceOf
  <2> HIDE DEF text, bd, k, m
  <2>6. SameRest(text, bd, k, m)
    BY <2>3, <2>4, <2>5, RestIsSame
  <2>7. PartFrom(request) + 1 = k + m + 1
    BY DEF PartFrom, k, m
  <2>8. upload = SubSeq(text, k + m + 1, Len(text))
    BY <2>2, <2>7 DEF text
  <2>9. upload = SubSeq(bd, m + 1, Len(bd))
    BY <2>3, <2>6, <2>8 DEF SameRest
  <2> QED BY <2>9 DEF bd, m
<1> QED BY <1>1, FormInvariance, PTL

=============================================================================
