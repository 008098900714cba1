----------------------------- MODULE RouteProofs -----------------------------
(***************************************************************************)
(* Proofs about module Route: for every path that is plain for a target,   *)
(* of any length and with any number of parameters, the matching of the    *)
(* code is the reading of the path segment by segment.                     *)
(*                                                                         *)
(* Both are brought to the positions of the slashes of a path and of a     *)
(* target, SlashNo.  A plain path with parameters has a Shape: they are    *)
(* its segments from a to b.  Given the shape, parse() finds them and      *)
(* their names (ColonsAre, NamesAre), their values are segments of the     *)
(* target (ValuesAre), and full_path_binded is the target as far as it was *)
(* filled and the path behind (Filled).                                    *)
(*                                                                         *)
(* The theorems of the library on induction take an operator as their      *)
(* parameter; here a set is used in its place, and the order of the        *)
(* naturals, which is well founded.                                        *)
(***************************************************************************)
EXTENDS Route, FiniteSetTheorems, WellFoundedInduction, TLAPS

-----------------------------------------------------------------------------
(* Induction, and functions defined by it. *)

(* Every nonempty set of naturals has a smallest member, which is its Min.   *)
LEMMA MinOf ==
  ASSUME NEW S, S \subseteq Nat, S # {}
  PROVE  Min(S) \in S /\ \A m \in S : Min(S) <= m
<1> DEFINE less == OpToRel(<, Nat)
<1>1. PICK n \in S : \A m \in S : ~(<<m, n>> \in less)
  BY NatLessThanWellFounded, WFMin
<1>2. ASSUME NEW m \in S PROVE n <= m
  <2>1. m \in Nat /\ n \in Nat
    OBVIOUS
  <2>2. ~(m < n)
    BY <1>1, <2>1 DEF OpToRel
  <2> QED BY <2>1, <2>2
<1> QED BY <1>1, <1>2 DEF Min

(* A set with 0 and with the successors of its members has all naturals.     *)
LEMMA SetInduction ==
  ASSUME NEW T, 0 \in T, \A n \in Nat : n \in T => n + 1 \in T
  PROVE  Nat \subseteq T
<1> SUFFICES ASSUME ~(Nat \subseteq T) PROVE FALSE
  OBVIOUS
<1> DEFINE rest == Nat \ T
           n == Min(rest)
<1>1. n \in rest /\ \A m \in rest : n <= m
  <2>1. rest \subseteq Nat /\ rest # {}
    OBVIOUS
  <2> QED
    BY <2>1, MinOf
<1> HIDE DEF n
<1>2. n - 1 \in Nat /\ n - 1 \notin rest
  BY <1>1
<1> QED
  BY <1>1, <1>2

Iterates(f, S, x, F) ==
  f \in [Nat -> S] /\ f[0] = x /\ \A k \in Nat : f[k + 1] = F[<<k, f[k]>>]

(* A function can be defined by what each value is made of the one before.   *)
LEMMA Iteration ==
  ASSUME NEW S, NEW x \in S, NEW F \in [Nat \X S -> S]
  PROVE  \E f : Iterates(f, S, x, F)
<1> DEFINE Starts(f, n) == /\ f \in [Nat -> S] /\ f[0] = x
                           /\ \A k \in Nat : k < n => f[k + 1] = F[<<k, f[k]>>]
           Some == {n \in Nat : \E f : Starts(f, n)}
<1>1. 0 \in Some
  <2>1. Starts([k \in Nat |-> x], 0)
    OBVIOUS
  <2> QED
    BY <2>1
<1>2. ASSUME NEW n \in Nat, n \in Some PROVE n + 1 \in Some
  <2>1. PICK f : Starts(f, n)
    BY <1>2
  <2> DEFINE g == [f EXCEPT ![n + 1] = F[<<n, f[n]>>]]
  <2>2. F[<<n, f[n]>>] \in S
    BY <2>1
  <2>3. g \in [Nat -> S] /\ g[0] = x
    BY <2>1, <2>2
  <2>4. ASSUME NEW k \in Nat, k < n + 1 PROVE g[k + 1] = F[<<k, g[k]>>]
    <3>1. CASE k < n BY <3>1, <2>1
    <3>2. CASE k = n BY <3>2, <2>1
    <3> QED BY <3>1, <3>2, <2>4
  <2>5. Starts(g, n + 1)
    BY <2>3, <2>4
  <2>6. \E h : Starts(h, n + 1)
    <3> HIDE DEF Starts, g
    <3> QED BY <2>5
  <2> QED
    BY <2>6
<1>3. Nat \subseteq Some
  <2> HIDE DEF Some
  <2> QED BY <1>1, <1>2, SetInduction
<1> DEFINE part == [n \in Nat |-> CHOOSE f : Starts(f, n)]
<1>4. \A n \in Nat : Starts(part[n], n)
  <2> SUFFICES ASSUME NEW n \in Nat PROVE Starts(part[n], n)
    OBVIOUS
  <2>1. \E f : Starts(f, n)
    BY <1>3
  <2>2. part[n] = CHOOSE f : Starts(f, n)
    OBVIOUS
  <2> HIDE DEF Starts, part
  <2> QED BY <2>1, <2>2
<1> HIDE DEF part
<1>5. ASSUME NEW n \in Nat PROVE part[n + 1][n] = part[n][n]
  <2> DEFINE Same == {k \in Nat : k <= n => part[n + 1][k] = part[n][k]}
  <2>0. Starts(part[n + 1], n + 1) /\ Starts(part[n], n)
    BY <1>4
  <2>1. 0 \in Same
    BY <2>0
  <2>2. ASSUME NEW k \in Nat, k \in Same PROVE k + 1 \in Same
    <3> SUFFICES ASSUME k + 1 <= n PROVE part[n + 1][k + 1] = part[n][k + 1]
      OBVIOUS
    <3>1. part[n + 1][k] = part[n][k] /\ k < n /\ k < n + 1
      BY <2>2
    <3> QED BY <2>0, <3>1
  <2>3. Nat \subseteq Same
    <3> HIDE DEF Same
    <3> QED BY <2>1, <2>2, SetInduction
  <2> QED BY <2>3
<1> DEFINE f == [k \in Nat |-> part[k][k]]
<1>6. f \in [Nat -> S] /\ f[0] = x
  BY <1>4
<1>7. ASSUME NEW k \in Nat PROVE f[k + 1] = F[<<k, f[k]>>]
  <2>1. part[k + 1][k + 1] = F[<<k, part[k + 1][k]>>]
    <3>1. Starts(part[k + 1], k + 1) /\ k < k + 1
      BY <1>4
    <3> QED BY <3>1
  <2>2. part[k + 1][k] = part[k][k]
    BY <1>5
  <2>3. f[k] = part[k][k] /\ f[k + 1] = part[k + 1][k + 1]
    OBVIOUS
  <2> HIDE DEF f
  <2> QED BY <2>1, <2>2, <2>3
<1>8. Iterates(f, S, x, F)
  BY <1>6, <1>7 DEF Iterates
<1> HIDE DEF f
<1> QED BY <1>8

-----------------------------------------------------------------------------
(* The slashes of a path or a target. *)

(* The first of the positions from p on that hold a token, or the end.       *)
LEMMA FirstFrom ==
  ASSUME NEW s \in Seq(STRING), NEW p \in Nat \ {0}, NEW token,
         NEW q, q = Min({i \in p..Len(s) : s[i] = token} \cup {Len(s) + 1})
  PROVE  /\ q \in 1..(Len(s) + 1)
         /\ q <= Len(s) => p <= q /\ s[q] = token
         /\ \A i \in p..Len(s) : s[i] = token => q <= i
<1> DEFINE at == {i \in p..Len(s) : s[i] = token} \cup {Len(s) + 1}
<1>1. at \subseteq Nat /\ at # {} /\ Len(s) \in Nat
  OBVIOUS
<1>2. q \in at /\ \A i \in at : q <= i
  <2>1. q = Min(at)
    OBVIOUS
  <2> HIDE DEF at
  <2> QED BY <1>1, <2>1, MinOf
<1> QED BY <1>1, <1>2

LEMMA SlashFromIs ==
  ASSUME NEW s \in Seq(STRING), NEW p \in Nat \ {0}
  PROVE  /\ SlashFrom(s, p) \in 1..(Len(s) + 1)
         /\ SlashFrom(s, p) <= Len(s) => p <= SlashFrom(s, p) /\ s[SlashFrom(s, p)] = Slash
         /\ \A i \in p..Len(s) : s[i] = Slash => SlashFrom(s, p) <= i
<1>1. SlashFrom(s, p) = Min({i \in p..Len(s) : s[i] = Slash} \cup {Len(s) + 1})
  BY DEF SlashFrom
<1> QED BY <1>1, FirstFrom

LEMMA ColonFromIs ==
  ASSUME NEW s \in Seq(STRING), NEW p \in Nat \ {0}
  PROVE  /\ ColonFrom(s, p) \in 1..(Len(s) + 1)
         /\ ColonFrom(s, p) <= Len(s) => p <= ColonFrom(s, p) /\ s[ColonFrom(s, p)] = Colon
         /\ \A i \in p..Len(s) : s[i] = Colon => ColonFrom(s, p) <= i
<1>1. ColonFrom(s, p) = Min({i \in p..Len(s) : s[i] = Colon} \cup {Len(s) + 1})
  BY DEF ColonFrom
<1> QED BY <1>1, FirstFrom

(* There is but one such position.                                           *)
LEMMA SlashFromAt ==
  ASSUME NEW s \in Seq(STRING), NEW p \in Nat \ {0},
         NEW q \in p..(Len(s) + 1), q = Len(s) + 1 \/ s[q] = Slash,
         \A i \in p..(q - 1) : s[i] # Slash
  PROVE  SlashFrom(s, p) = q
<1> DEFINE r == SlashFrom(s, p)
<1>1. /\ r \in 1..(Len(s) + 1) /\ (r <= Len(s) => p <= r /\ s[r] = Slash)
      /\ \A i \in p..Len(s) : s[i] = Slash => r <= i
  BY SlashFromIs
<1> HIDE DEF r
<1>2. Len(s) \in Nat
  OBVIOUS
<1>3. ~(r < q)
  BY <1>1, <1>2
<1>4. ~(q < r)
  BY <1>1, <1>2
<1> QED BY <1>1, <1>2, <1>3, <1>4 DEF r

(* The k-th slash is the first behind the one before.                        *)
LEMMA SlashNoIs ==
  ASSUME NEW s \in Seq(STRING)
  PROVE  /\ SlashNo(s) \in [Nat -> 0..(Len(s) + 1)]
         /\ SlashNo(s)[0] = 0
         /\ \A k \in Nat : /\ SlashNo(s)[k] \in 0..(Len(s) + 1)
                           /\ SlashNo(s)[k + 1] = SlashFrom(s, SlashNo(s)[k] + 1)
<1> DEFINE S == 0..(Len(s) + 1)
           Def(f) == f = [k \in Nat |-> IF k = 0 THEN 0 ELSE SlashFrom(s, f[k - 1] + 1)]
           F == [z \in Nat \X S |-> SlashFrom(s, z[2] + 1)]
<1>0. Len(s) \in Nat
  OBVIOUS
<1>10. \A i \in S : SlashFrom(s, i + 1) \in S
  BY SlashFromIs
<1>1. SlashNo(s) = CHOOSE f : Def(f)
  BY DEF SlashNo
<1>2. PICK g \in [Nat -> S] : g[0] = 0 /\ \A k \in Nat : g[k + 1] = F[<<k, g[k]>>]
  <2> DEFINE x == 0
  <2>1. x \in S
    BY <1>0
  <2>2. F \in [Nat \X S -> S] /\ x \in S
    <3> HIDE DEF S, x
    <3> QED BY <1>10, <2>1
  <2>3. \E f : Iterates(f, S, x, F)
    <3> HIDE DEF F, S, x
    <3> QED BY <2>2, Iteration
  <2> QED BY <2>3 DEF Iterates
<1>3. \A k \in Nat : g[k + 1] = SlashFrom(s, g[k] + 1)
  BY <1>2
<1>4. Def(g)
  <2> SUFFICES ASSUME NEW k \in Nat
               PROVE  g[k] = IF k = 0 THEN 0 ELSE SlashFrom(s, g[k - 1] + 1)
    BY <1>2
  <2>1. k # 0 => k - 1 \in Nat /\ k = (k - 1) + 1
    OBVIOUS
  <2> QED BY <1>2, <1>3, <2>1
<1>5. Def(SlashNo(s))
  <2> HIDE DEF Def
  <2> QED BY <1>1, <1>4
<1> HIDE DEF Def
<1> DEFINE f == SlashNo(s)
<1>6. f = [k \in Nat |-> IF k = 0 THEN 0 ELSE SlashFrom(s, f[k - 1] + 1)]
  BY <1>5 DEF Def
<1> HIDE DEF f
<1>7. f[0] = 0
  BY <1>6
<1>8. ASSUME NEW k \in Nat PROVE f[k + 1] = SlashFrom(s, f[k] + 1)
  <2>1. k + 1 \in Nat /\ k + 1 # 0 /\ (k + 1) - 1 = k
    OBVIOUS
  <2>2. f[k + 1] = SlashFrom(s, f[(k + 1) - 1] + 1)
    BY <1>6, <2>1
  <2> QED BY <2>1, <2>2
<1>9. f \in [Nat -> S]
  <2> DEFINE T == {k \in Nat : f[k] \in S}
  <2>1. 0 \in T
    BY <1>7
  <2>2. ASSUME NEW k \in Nat, k \in T PROVE k + 1 \in T
    <3> HIDE DEF S
    <3>1. SlashFrom(s, f[k] + 1) \in S
      BY <2>2, <1>10
    <3>2. f[k + 1] = SlashFrom(s, f[k] + 1)
      BY <1>8
    <3>3. f[k + 1] \in S
      BY <3>1, <3>2
    <3> QED BY <3>3
  <2>3. Nat \subseteq T
    <3> HIDE DEF T
    <3> QED BY <2>1, <2>2, SetInduction
  <2> QED BY <1>6, <2>3
<1>11. \A k \in Nat : f[k] \in S
  BY <1>9
<1> QED BY <1>7, <1>8, <1>9, <1>11 DEF f


(* One slash and the next: between them there is none.                       *)
LEMMA SlashNext ==
  ASSUME NEW s \in Seq(STRING), NEW k \in Nat
  PROVE  /\ SlashNo(s)[k] \in 0..(Len(s) + 1) /\ SlashNo(s)[k + 1] \in 1..(Len(s) + 1)
         /\ SlashNo(s)[k + 1] = SlashFrom(s, SlashNo(s)[k] + 1)
         /\ SlashNo(s)[k] <= Len(s) => SlashNo(s)[k] < SlashNo(s)[k + 1]
         /\ SlashNo(s)[k] = Len(s) + 1 => SlashNo(s)[k + 1] = Len(s) + 1
         /\ SlashNo(s)[k + 1] <= Len(s) => s[SlashNo(s)[k + 1]] = Slash
         /\ \A i \in (SlashNo(s)[k] + 1)..(SlashNo(s)[k + 1] - 1) : s[i] # Slash
<1> DEFINE a == SlashNo(s)[k]
           b == SlashNo(s)[k + 1]
<1>0. Len(s) \in Nat
  OBVIOUS
<1>1. a \in 0..(Len(s) + 1) /\ b = SlashFrom(s, a + 1)
  BY SlashNoIs
<1> HIDE DEF a, b
<1>2. a + 1 \in Nat \ {0}
  BY <1>0, <1>1
<1>3. /\ b \in 1..(Len(s) + 1) /\ (b <= Len(s) => a + 1 <= b /\ s[b] = Slash)
      /\ \A i \in (a + 1)..Len(s) : s[i] = Slash => b <= i
  BY <1>1, <1>2, SlashFromIs
<1>4. a <= Len(s) => a < b
  BY <1>0, <1>1, <1>3
<1>5. a = Len(s) + 1 => b = Len(s) + 1
  BY <1>0, <1>1, <1>3
<1>6. \A i \in (a + 1)..(b - 1) : s[i] # Slash
  BY <1>0, <1>1, <1>3
<1> QED
  BY <1>1, <1>3, <1>4, <1>5, <1>6 DEF a, b

LEMMA SlashAt ==
  ASSUME NEW s \in Seq(STRING), NEW k \in Nat \ {0}
  PROVE  /\ SlashNo(s)[k] \in 1..(Len(s) + 1)
         /\ SlashNo(s)[k] <= Len(s) => s[SlashNo(s)[k]] = Slash
<1> DEFINE j == k - 1
<1>1. j \in Nat /\ j + 1 = k
  OBVIOUS
<1> HIDE DEF j
<1>2. /\ SlashNo(s)[j + 1] \in 1..(Len(s) + 1)
      /\ SlashNo(s)[j + 1] <= Len(s) => s[SlashNo(s)[j + 1]] = Slash
  BY <1>1, SlashNext
<1> QED BY <1>1, <1>2

(* The slashes are in order.                                                 *)
LEMMA SlashOrder ==
  ASSUME NEW s \in Seq(STRING), NEW j \in Nat, NEW k \in Nat, j < k
  PROVE  /\ SlashNo(s)[j] <= SlashNo(s)[k]
         /\ SlashNo(s)[j] <= Len(s) => SlashNo(s)[j] < SlashNo(s)[k]
<1> DEFINE Ordered(n) == /\ SlashNo(s)[j] <= SlashNo(s)[j + 1 + n]
                         /\ SlashNo(s)[j] <= Len(s) => SlashNo(s)[j] < SlashNo(s)[j + 1 + n]
           T == {n \in Nat : Ordered(n)}
<1>0. Len(s) \in Nat
  OBVIOUS
<1>1. 0 \in T
  <2>1. j + 1 + 0 = j + 1 /\ j + 1 \in Nat
    OBVIOUS
  <2>2. /\ SlashNo(s)[j] \in 0..(Len(s) + 1) /\ SlashNo(s)[j + 1] \in 0..(Len(s) + 1)
        /\ SlashNo(s)[j] <= Len(s) => SlashNo(s)[j] < SlashNo(s)[j + 1]
        /\ SlashNo(s)[j] = Len(s) + 1 => SlashNo(s)[j + 1] = Len(s) + 1
    BY SlashNext
  <2>3. Ordered(0)
    BY <2>1, <2>2, <1>0
  <2> QED BY <2>3
<1>2. ASSUME NEW n \in Nat, n \in T PROVE n + 1 \in T
  <2> DEFINE m == j + 1 + n
  <2>1. m \in Nat /\ j + 1 + (n + 1) = m + 1
    OBVIOUS
  <2>2. SlashNo(s)[j] <= SlashNo(s)[m] /\ (SlashNo(s)[j] <= Len(s) => SlashNo(s)[j] < SlashNo(s)[m])
    BY <1>2
  <2> HIDE DEF m
  <2>3. /\ SlashNo(s)[m] \in 0..(Len(s) + 1) /\ SlashNo(s)[m + 1] \in 0..(Len(s) + 1)
        /\ SlashNo(s)[m] <= Len(s) => SlashNo(s)[m] < SlashNo(s)[m + 1]
        /\ SlashNo(s)[m] = Len(s) + 1 => SlashNo(s)[m + 1] = Len(s) + 1
    BY <2>1, SlashNext
  <2>4. SlashNo(s)[j] \in 0..(Len(s) + 1)
    BY SlashNoIs
  <2>5. Ordered(n + 1)
    BY <1>0, <2>1, <2>2, <2>3, <2>4
  <2> QED BY <2>5
<1>3. Nat \subseteq T
  <2> HIDE DEF T
  <2> QED BY <1>1, <1>2, SetInduction
<1>4. k - j - 1 \in T
  <2>1. k - j - 1 \in Nat
    OBVIOUS
  <2> QED BY <1>3, <2>1
<1>5. j + 1 + (k - j - 1) = k
  OBVIOUS
<1> QED
  BY <1>4, <1>5

(* Where every position lies.                                                *)
LEMMA SlashCovers ==
  ASSUME NEW s \in Seq(STRING), NEW i \in 0..Len(s)
  PROVE  \E k \in Nat : SlashNo(s)[k] <= i /\ i < SlashNo(s)[k + 1]
<1> DEFINE T == {n \in Nat : n <= Len(s) =>
                    \E k \in Nat : SlashNo(s)[k] <= n /\ n < SlashNo(s)[k + 1]}
<1>0. Len(s) \in Nat
  OBVIOUS
<1>1. 0 \in T
  <2>1. SlashNo(s)[0] = 0
    BY SlashNoIs
  <2>2. SlashNo(s)[0 + 1] \in 1..(Len(s) + 1)
    BY SlashNext
  <2> QED BY <1>0, <2>1, <2>2
<1>2. ASSUME NEW n \in Nat, n \in T PROVE n + 1 \in T
  <2> SUFFICES ASSUME n + 1 <= Len(s)
               PROVE  \E k \in Nat : SlashNo(s)[k] <= n + 1 /\ n + 1 < SlashNo(s)[k + 1]
    OBVIOUS
  <2>1. PICK k \in Nat : SlashNo(s)[k] <= n /\ n < SlashNo(s)[k + 1]
    BY <1>2, <1>0
  <2> DEFINE m == k + 1
  <2>2. /\ m \in Nat /\ SlashNo(s)[k] \in 0..(Len(s) + 1) /\ SlashNo(s)[m] \in 0..(Len(s) + 1)
        /\ SlashNo(s)[m + 1] \in 0..(Len(s) + 1)
        /\ SlashNo(s)[m] <= Len(s) => SlashNo(s)[m] < SlashNo(s)[m + 1]
    <3>1. m \in Nat
      OBVIOUS
    <3>2. SlashNo(s)[k] \in 0..(Len(s) + 1)
      BY SlashNoIs
    <3> HIDE DEF m
    <3>3. /\ SlashNo(s)[m] \in 0..(Len(s) + 1) /\ SlashNo(s)[m + 1] \in 1..(Len(s) + 1)
          /\ SlashNo(s)[m] <= Len(s) => SlashNo(s)[m] < SlashNo(s)[m + 1]
      BY <3>1, SlashNext
    <3> QED BY <1>0, <3>1, <3>2, <3>3
  <2>3. CASE n + 1 < SlashNo(s)[k + 1]
    BY <2>1, <2>2, <2>3
  <2>4. CASE SlashNo(s)[k + 1] = n + 1
    <3>1. SlashNo(s)[m] <= n + 1 /\ n + 1 < SlashNo(s)[m + 1]
      BY <1>0, <2>2, <2>4
    <3> HIDE DEF m
    <3> QED BY <2>2, <3>1
  <2> QED BY <2>1, <2>2, <2>3, <2>4
<1>3. Nat \subseteq T
  <2> HIDE DEF T
  <2> QED BY <1>1, <1>2, SetInduction
<1> QED BY <1>3

(* There are no more slashes than positions.                                 *)
LEMMA SlashBehind ==
  ASSUME NEW s \in Seq(STRING), NEW k \in Nat
  PROVE  SlashNo(s)[k] <= Len(s) => k <= SlashNo(s)[k]
<1> DEFINE T == {n \in Nat : SlashNo(s)[n] <= Len(s) => n <= SlashNo(s)[n]}
<1>0. Len(s) \in Nat
  OBVIOUS
<1>1. 0 \in T
  BY SlashNoIs
<1>2. ASSUME NEW n \in Nat, n \in T PROVE n + 1 \in T
  <2>1. /\ SlashNo(s)[n] \in 0..(Len(s) + 1) /\ SlashNo(s)[n + 1] \in 0..(Len(s) + 1)
        /\ SlashNo(s)[n] <= Len(s) => SlashNo(s)[n] < SlashNo(s)[n + 1]
        /\ SlashNo(s)[n] = Len(s) + 1 => SlashNo(s)[n + 1] = Len(s) + 1
    BY <1>0, SlashNext
  <2> QED BY <1>0, <1>2, <2>1
<1>3. Nat \subseteq T
  <2> HIDE DEF T
  <2> QED BY <1>1, <1>2, SetInduction
<1> QED BY <1>3

(* The segments are numbered by the slashes they begin with.                 *)
LEMMA SegmentsAre ==
  ASSUME NEW s \in Seq(STRING)
  PROVE  /\ Segments(s) = {k \in Nat \ {0} : SlashNo(s)[k] <= Len(s)}
         /\ Len(s) \in Nat
<1>1. Len(s) \in Nat
  OBVIOUS
<1>2. ASSUME NEW k \in Nat \ {0}, SlashNo(s)[k] <= Len(s) PROVE k \in 1..Len(s)
  <2>1. k <= SlashNo(s)[k] /\ SlashNo(s)[k] \in 0..(Len(s) + 1)
    BY <1>2, SlashBehind, SlashNoIs
  <2> QED BY <1>1, <1>2, <2>1
<1> QED BY <1>1, <1>2 DEF Segments

(* What a segment holds: the tokens between its slash and the next.          *)
LEMMA SegmentIs ==
  ASSUME NEW s \in Seq(STRING), NEW k \in Nat
  PROVE  /\ Segment(s, k) \in Seq(STRING)
         /\ SlashNo(s)[k] <= Len(s) => Len(Segment(s, k)) = SlashNo(s)[k + 1] - SlashNo(s)[k] - 1
         /\ SlashNo(s)[k] > Len(s) => Segment(s, k) = <<>>
         /\ \A i \in 1..Len(Segment(s, k)) : Segment(s, k)[i] = s[SlashNo(s)[k] + i]
<1> DEFINE a == SlashNo(s)[k]
           b == SlashNo(s)[k + 1]
<1>0. Len(s) \in Nat
  OBVIOUS
<1>1. /\ a \in 0..(Len(s) + 1) /\ b \in 1..(Len(s) + 1)
      /\ a <= Len(s) => a < b
      /\ a = Len(s) + 1 => b = Len(s) + 1
  BY SlashNext
<1>2. Segment(s, k) = SubSeq(s, a + 1, b - 1)
  BY DEF Segment
<1> HIDE DEF a, b
<1>3. /\ SubSeq(s, a + 1, b - 1) \in Seq(STRING)
      /\ a <= Len(s) => Len(SubSeq(s, a + 1, b - 1)) = b - a - 1
      /\ a > Len(s) => SubSeq(s, a + 1, b - 1) = <<>>
      /\ \A i \in 1..Len(SubSeq(s, a + 1, b - 1)) : SubSeq(s, a + 1, b - 1)[i] = s[a + i]
  BY <1>0, <1>1
<1> QED BY <1>2, <1>3 DEF a, b


-----------------------------------------------------------------------------
(* Texts with the same segments. *)

LEMMA SameSequence ==
  ASSUME NEW s \in Seq(STRING), NEW t \in Seq(STRING), Len(s) = Len(t),
         \A i \in 1..Len(s) : s[i] = t[i]
  PROVE  s = t
OBVIOUS

LEMMA Part ==
  ASSUME NEW s \in Seq(STRING), NEW a \in 1..(Len(s) + 1), NEW b \in 0..Len(s), a <= b + 1
  PROVE  /\ SubSeq(s, a, b) \in Seq(STRING) /\ Len(SubSeq(s, a, b)) = b + 1 - a
         /\ \A i \in 1..(b + 1 - a) : SubSeq(s, a, b)[i] = s[a + i - 1]
OBVIOUS

(* Where the segment is the same, and where it begins, so is the next slash. *)
LEMMA AlignStep ==
  ASSUME NEW s \in Seq(STRING), NEW t \in Seq(STRING), NEW k \in Nat \ {0},
         NEW x \in Nat, NEW y \in Nat, x <= SlashNo(s)[k], y <= SlashNo(t)[k],
         SlashNo(s)[k] - x = SlashNo(t)[k] - y,
         \A i \in 0..(SlashNo(s)[k] - x - 1) : s[x + i] = t[y + i],
         SlashNo(s)[k] <= Len(s), SlashNo(t)[k] <= Len(t), Segment(s, k) = Segment(t, k)
  PROVE  /\ SlashNo(s)[k + 1] - x = SlashNo(t)[k + 1] - y
         /\ \A i \in 0..(SlashNo(s)[k + 1] - x - 1) : s[x + i] = t[y + i]
<1> DEFINE c == SlashNo(s)[k]
           d == SlashNo(t)[k]
           e == SlashNo(s)[k + 1]
           f == SlashNo(t)[k + 1]
<1>0. Len(s) \in Nat /\ Len(t) \in Nat /\ c <= Len(s) /\ d <= Len(t)
  OBVIOUS
<1>1. s[c] = Slash /\ c \in Nat
  <2>1. c \in 1..(Len(s) + 1) /\ (c <= Len(s) => s[c] = Slash)
    BY SlashAt
  <2> HIDE DEF c
  <2> QED BY <1>0, <2>1
<1>2. t[d] = Slash /\ d \in Nat
  <2>1. d \in 1..(Len(t) + 1) /\ (d <= Len(t) => t[d] = Slash)
    BY SlashAt
  <2> HIDE DEF d
  <2> QED BY <1>0, <2>1
<1>3. /\ Len(Segment(s, k)) = e - c - 1 /\ Segment(s, k) \in Seq(STRING)
      /\ \A i \in 1..Len(Segment(s, k)) : Segment(s, k)[i] = s[c + i]
  BY SegmentIs
<1>4. /\ Len(Segment(t, k)) = f - d - 1
      /\ \A i \in 1..Len(Segment(t, k)) : Segment(t, k)[i] = t[d + i]
  BY SegmentIs
<1>5. e \in Nat /\ c < e
  <2>1. e \in 1..(Len(s) + 1) /\ (c <= Len(s) => c < e)
    BY SlashNext
  <2> HIDE DEF c, e
  <2> QED BY <1>0, <2>1
<1>6. f \in Nat /\ d < f
  <2>1. f \in 1..(Len(t) + 1) /\ (d <= Len(t) => d < f)
    BY SlashNext
  <2> HIDE DEF d, f
  <2> QED BY <1>0, <2>1
<1>7. /\ c - x = d - y /\ x <= c /\ y <= d /\ \A i \in 0..(c - x - 1) : s[x + i] = t[y + i]
      /\ Segment(s, k) = Segment(t, k)
  OBVIOUS
<1> HIDE DEF c, d, e, f
<1>8. e - c = f - d /\ \A i \in 1..(e - c - 1) : s[c + i] = t[d + i]
  <2>1. e - c - 1 = f - d - 1
    BY <1>3, <1>4, <1>7
  <2>2. \A i \in 1..(e - c - 1) : s[c + i] = t[d + i]
    BY <1>3, <1>4, <1>7
  <2> QED BY <1>1, <1>2, <1>5, <1>6, <2>1, <2>2
<1>9. e - x = f - y
  BY <1>1, <1>2, <1>5, <1>6, <1>7, <1>8
<1>10. ASSUME NEW i \in 0..(e - x - 1) PROVE s[x + i] = t[y + i]
  <2>1. CASE i < c - x
    BY <1>1, <1>7, <2>1
  <2>2. CASE i = c - x
    <3>1. x + i = c /\ y + i = d
      BY <1>1, <1>2, <1>7, <2>2
    <3> QED BY <1>1, <1>2, <3>1
  <2>3. CASE i > c - x
    <3> DEFINE j == i - (c - x)
    <3>1. j \in 1..(e - c - 1) /\ x + i = c + j /\ y + i = d + j
      BY <1>1, <1>2, <1>5, <1>7, <2>3
    <3> HIDE DEF j
    <3> QED BY <1>8, <3>1
  <2> QED BY <1>1, <1>5, <2>1, <2>2, <2>3
<1> QED BY <1>9, <1>10 DEF c, d, e, f

(* Where segments are the same, so are the texts they are cut from.          *)
LEMMA Align ==
  ASSUME NEW s \in Seq(STRING), NEW t \in Seq(STRING),
         NEW a \in Nat \ {0}, NEW b \in Nat, a <= b,
         \A k \in a..(b - 1) : /\ SlashNo(s)[k] <= Len(s) /\ SlashNo(t)[k] <= Len(t)
                               /\ Segment(s, k) = Segment(t, k)
  PROVE  /\ SlashNo(s)[a] <= SlashNo(s)[b] /\ SlashNo(t)[a] <= SlashNo(t)[b]
         /\ SlashNo(s)[b] - SlashNo(s)[a] = SlashNo(t)[b] - SlashNo(t)[a]
         /\ \A i \in 0..(SlashNo(s)[b] - SlashNo(s)[a] - 1) :
              s[SlashNo(s)[a] + i] = t[SlashNo(t)[a] + i]
<1> DEFINE x == SlashNo(s)[a]
           y == SlashNo(t)[a]
           Same(k) == /\ x <= SlashNo(s)[k] /\ y <= SlashNo(t)[k]
                      /\ SlashNo(s)[k] - x = SlashNo(t)[k] - y
                      /\ \A i \in 0..(SlashNo(s)[k] - x - 1) : s[x + i] = t[y + i]
           T == {n \in Nat : a + n <= b => Same(a + n)}
<1>0. x \in Nat /\ y \in Nat
  <2>1. x \in Nat
    BY SlashNoIs
  <2>2. y \in Nat
    BY SlashNoIs
  <2> QED BY <2>1, <2>2
<1>1. 0 \in T
  <2>1. a + 0 = a /\ x - x = 0 /\ y - y = 0 /\ x <= x /\ y <= y
    BY <1>0
  <2>2. Same(a)
    BY <2>1
  <2> QED BY <2>1, <2>2
<1>2. ASSUME NEW n \in Nat, n \in T PROVE n + 1 \in T
  <2> SUFFICES ASSUME a + (n + 1) <= b PROVE Same(a + (n + 1))
    OBVIOUS
  <2> DEFINE k == a + n
  <2>1. k \in Nat \ {0} /\ k \in a..(b - 1) /\ a + (n + 1) = k + 1 /\ a < k + 1
    OBVIOUS
  <2>2. Same(k)
    BY <1>2, <2>1
  <2> HIDE DEF k
  <2>3. /\ SlashNo(s)[k] <= Len(s) /\ SlashNo(t)[k] <= Len(t)
        /\ Segment(s, k) = Segment(t, k)
    BY <2>1
  <2>4. k + 1 \in Nat
    BY <2>1
  <2>5. x <= SlashNo(s)[k + 1]
    BY <2>1, <2>4, SlashOrder
  <2>6. y <= SlashNo(t)[k + 1]
    BY <2>1, <2>4, SlashOrder
  <2> HIDE DEF x, y
  <2>7. /\ SlashNo(s)[k + 1] - x = SlashNo(t)[k + 1] - y
        /\ \A i \in 0..(SlashNo(s)[k + 1] - x - 1) : s[x + i] = t[y + i]
    BY <1>0, <2>1, <2>2, <2>3, AlignStep
  <2> QED BY <2>1, <2>5, <2>6, <2>7
<1>3. Nat \subseteq T
  <2> HIDE DEF T
  <2> QED BY <1>1, <1>2, SetInduction
<1>4. b - a \in Nat /\ a + (b - a) = b
  OBVIOUS
<1>5. Same(b)
  <2>1. b - a \in T
    BY <1>3, <1>4
  <2> QED BY <1>4, <2>1
<1> QED BY <1>5

(* The w tokens behind position x of s are those behind position y of t.     *)
SameText(s, x, t, y, w) ==
  x + w <= Len(s) /\ y + w <= Len(t) /\ \A i \in 0..w : s[x + i] = t[y + i]

(* Where the text behind a slash is the same, so is the place of the next.   *)
LEMMA FollowStep ==
  ASSUME NEW s \in Seq(STRING), NEW t \in Seq(STRING), NEW k \in Nat \ {0},
         NEW x \in Nat, NEW y \in Nat, NEW w \in Nat, SameText(s, x, t, y, w),
         x <= SlashNo(s)[k], SlashNo(s)[k + 1] <= x + w,
         SlashNo(s)[k] <= x + w => SlashNo(t)[k] - y = SlashNo(s)[k] - x
  PROVE  SlashNo(t)[k + 1] - y = SlashNo(s)[k + 1] - x
<1> DEFINE c == SlashNo(s)[k]
           d == SlashNo(t)[k]
           e == SlashNo(s)[k + 1]
           f == SlashNo(t)[k + 1]
           q == y + (e - x)
<1>0. /\ Len(s) \in Nat /\ Len(t) \in Nat
      /\ x + w <= Len(s) /\ y + w <= Len(t) /\ \A i \in 0..w : s[x + i] = t[y + i]
  BY DEF SameText
<1>1. /\ c \in 0..(Len(s) + 1) /\ e \in 1..(Len(s) + 1)
      /\ c <= Len(s) => c < e
      /\ c = Len(s) + 1 => e = Len(s) + 1
      /\ e <= Len(s) => s[e] = Slash
      /\ \A i \in (c + 1)..(e - 1) : s[i] # Slash
  BY SlashNext
<1>2. f = SlashFrom(t, d + 1) /\ d \in Nat
  <2>1. f = SlashFrom(t, d + 1) /\ d \in 0..(Len(t) + 1)
    BY SlashNext
  <2> QED BY <2>1
<1>3. x <= c /\ e <= x + w /\ (c <= x + w => d - y = c - x)
  OBVIOUS
<1> HIDE DEF c, d, e, f
<1>4. c < e /\ e <= Len(s) /\ d - y = c - x
  <2>1. Len(s) \in Nat /\ x + w <= Len(s)
    BY <1>0
  <2>2. c \in Nat /\ c <= Len(s) + 1 /\ e \in Nat
    BY <1>1, <2>1
  <2>3. e <= Len(s)
    BY <1>3, <2>1, <2>2
  <2>4. c # Len(s) + 1
    BY <1>1, <2>1, <2>2, <2>3
  <2>5. c < e
    BY <1>1, <2>1, <2>2, <2>4
  <2> QED BY <1>3, <2>1, <2>2, <2>3, <2>5
<1>5. d + 1 \in Nat \ {0} /\ q \in (d + 1)..(Len(t) + 1)
  BY <1>0, <1>1, <1>2, <1>3, <1>4
<1>6. t[q] = Slash
  <2>1. e - x \in 0..w /\ x + (e - x) = e
    BY <1>1, <1>3, <1>4
  <2>2. s[x + (e - x)] = t[y + (e - x)]
    BY <1>0, <2>1
  <2> QED BY <1>1, <1>4, <2>1, <2>2
<1>7. ASSUME NEW i \in (d + 1)..(q - 1) PROVE t[i] # Slash
  <2> DEFINE j == i - y
  <2>1. j \in 0..w /\ i = y + j /\ x + j \in (c + 1)..(e - 1)
    BY <1>0, <1>1, <1>2, <1>3, <1>4
  <2> HIDE DEF j
  <2>2. s[x + j] = t[y + j]
    BY <1>0, <2>1
  <2> QED BY <1>1, <2>1, <2>2
<1> HIDE DEF q
<1>8. SlashFrom(t, d + 1) = q
  BY <1>5, <1>6, <1>7, SlashFromAt
<1> QED BY <1>1, <1>2, <1>8 DEF q, c, d, e, f

(* Where the texts are the same, so are the places of their slashes.         *)
LEMMA Follow ==
  ASSUME NEW s \in Seq(STRING), NEW t \in Seq(STRING), NEW a \in Nat \ {0}, NEW w \in Nat,
         SameText(s, SlashNo(s)[a], t, SlashNo(t)[a], w),
         NEW b \in Nat, a <= b, SlashNo(s)[b] <= SlashNo(s)[a] + w
  PROVE  SlashNo(t)[b] - SlashNo(t)[a] = SlashNo(s)[b] - SlashNo(s)[a]
<1> DEFINE x == SlashNo(s)[a]
           y == SlashNo(t)[a]
           Same(k) == SlashNo(s)[k] <= x + w => SlashNo(t)[k] - y = SlashNo(s)[k] - x
           T == {n \in Nat : Same(a + n)}
<1>0. x \in Nat /\ y \in Nat
  <2>1. x \in Nat
    BY SlashNoIs
  <2>2. y \in Nat
    BY SlashNoIs
  <2> QED BY <2>1, <2>2
<1>1. 0 \in T
  <2>1. a + 0 = a /\ x - x = 0 /\ y - y = 0
    BY <1>0
  <2>2. Same(a)
    BY <2>1
  <2> QED BY <2>1, <2>2
<1>2. ASSUME NEW n \in Nat, n \in T PROVE n + 1 \in T
  <2> DEFINE k == a + n
  <2>1. k \in Nat \ {0} /\ a + (n + 1) = k + 1 /\ (a < k \/ a = k)
    OBVIOUS
  <2>2. Same(k)
    BY <1>2, <2>1
  <2> HIDE DEF k
  <2>3. x <= SlashNo(s)[k]
    BY <1>0, <2>1, SlashOrder
  <2>4. SameText(s, x, t, y, w)
    OBVIOUS
  <2> HIDE DEF x, y
  <2>5. ASSUME SlashNo(s)[k + 1] <= x + w
        PROVE  SlashNo(t)[k + 1] - y = SlashNo(s)[k + 1] - x
    BY <1>0, <2>1, <2>2, <2>3, <2>4, <2>5, FollowStep
  <2> QED BY <2>1, <2>5
<1>3. Nat \subseteq T
  <2> HIDE DEF T
  <2> QED BY <1>1, <1>2, SetInduction
<1>4. b - a \in Nat /\ a + (b - a) = b
  OBVIOUS
<1>5. Same(b)
  <2>1. b - a \in T
    BY <1>3, <1>4
  <2> QED BY <1>4, <2>1
<1> QED BY <1>5


LEMMA SegmentSame ==
  ASSUME NEW s \in Seq(STRING), NEW t \in Seq(STRING), NEW k \in Nat,
         NEW x \in Nat, NEW y \in Nat, NEW w \in Nat, SameText(s, x, t, y, w),
         SlashNo(s)[k] <= Len(s), SlashNo(t)[k] <= Len(t),
         x <= SlashNo(s)[k], SlashNo(t)[k] - y = SlashNo(s)[k] - x,
         SlashNo(s)[k + 1] <= x + w + 1, SlashNo(t)[k + 1] - y = SlashNo(s)[k + 1] - x
  PROVE  Segment(s, k) = Segment(t, k)
<1> DEFINE c == SlashNo(s)[k]
           d == SlashNo(t)[k]
           e == SlashNo(s)[k + 1]
           f == SlashNo(t)[k + 1]
<1>0. /\ Len(s) \in Nat /\ Len(t) \in Nat
      /\ x + w <= Len(s) /\ y + w <= Len(t) /\ \A i \in 0..w : s[x + i] = t[y + i]
  BY DEF SameText
<1>1. /\ Len(Segment(s, k)) = e - c - 1 /\ Segment(s, k) \in Seq(STRING)
      /\ \A i \in 1..Len(Segment(s, k)) : Segment(s, k)[i] = s[c + i]
  BY SegmentIs
<1>2. /\ Len(Segment(t, k)) = f - d - 1 /\ Segment(t, k) \in Seq(STRING)
      /\ \A i \in 1..Len(Segment(t, k)) : Segment(t, k)[i] = t[d + i]
  BY SegmentIs
<1>3. c \in Nat /\ e \in Nat
  <2>1. c \in 0..(Len(s) + 1) /\ e \in 1..(Len(s) + 1)
    BY SlashNext
  <2> QED BY <2>1
<1>4. d \in Nat /\ f \in Nat
  <2>1. d \in 0..(Len(t) + 1) /\ f \in 1..(Len(t) + 1)
    BY SlashNext
  <2> QED BY <2>1
<1>5. x <= c /\ d - y = c - x /\ e <= x + w + 1 /\ f - y = e - x
  OBVIOUS
<1> HIDE DEF c, d, e, f
<1>6. e - c - 1 = f - d - 1
  BY <1>3, <1>4, <1>5
<1>7. ASSUME NEW i \in 1..(e - c - 1) PROVE s[c + i] = t[d + i]
  <2> DEFINE j == c + i - x
  <2>1. j \in 0..w /\ c + i = x + j /\ d + i = y + j
    BY <1>3, <1>4, <1>5
  <2> HIDE DEF j
  <2>2. s[x + j] = t[y + j]
    BY <1>0, <2>1
  <2> QED BY <2>1, <2>2
<1>8. ASSUME NEW i \in 1..Len(Segment(s, k)) PROVE Segment(s, k)[i] = Segment(t, k)[i]
  BY <1>1, <1>2, <1>6, <1>7
<1> QED BY <1>1, <1>2, <1>6, <1>8, SameSequence

(* A text from its k-th slash on.                                            *)
Rest(s, k) == SubSeq(s, SlashNo(s)[k], Len(s))

LEMMA RestIs ==
  ASSUME NEW s \in Seq(STRING), NEW k \in Nat \ {0}
  PROVE  /\ Rest(s, k) \in Seq(STRING) /\ Len(Rest(s, k)) = Len(s) + 1 - SlashNo(s)[k]
         /\ \A i \in 1..Len(Rest(s, k)) : Rest(s, k)[i] = s[SlashNo(s)[k] + i - 1]
<1> DEFINE c == SlashNo(s)[k]
<1>1. c \in 1..(Len(s) + 1)
  BY SlashAt
<1>2. Len(s) \in Nat /\ Len(s) \in 0..Len(s) /\ c <= Len(s) + 1
  BY <1>1
<1>3. Rest(s, k) = SubSeq(s, c, Len(s))
  BY DEF Rest
<1> HIDE DEF c
<1>4. /\ SubSeq(s, c, Len(s)) \in Seq(STRING) /\ Len(SubSeq(s, c, Len(s))) = Len(s) + 1 - c
      /\ \A i \in 1..(Len(s) + 1 - c) : SubSeq(s, c, Len(s))[i] = s[c + i - 1]
  BY <1>1, <1>2, Part
<1> QED BY <1>3, <1>4 DEF c

(* Texts whose segments are the same from the a-th on ...                    *)
SameSegments(s, t, a) ==
  \A k \in Nat : k >= a =>
    /\ SlashNo(s)[k] <= Len(s) <=> SlashNo(t)[k] <= Len(t)
    /\ SlashNo(s)[k] <= Len(s) => Segment(s, k) = Segment(t, k)

(* ... are the same.                                                         *)
LEMMA SegmentsToRest ==
  ASSUME NEW s \in Seq(STRING), NEW t \in Seq(STRING), NEW a \in Nat \ {0},
         SameSegments(s, t, a)
  PROVE  Rest(s, a) = Rest(t, a)
<1> DEFINE ends == {k \in Nat : k >= a /\ SlashNo(s)[k] > Len(s)}
           b == Min(ends)
<1>0. Len(s) \in Nat /\ Len(t) \in Nat
  OBVIOUS
<1>1. b \in ends /\ \A k \in ends : b <= k
  <2> DEFINE m == a + Len(s) + 1
  <2>1. m \in Nat /\ m >= a /\ m > Len(s) + 1
    BY <1>0
  <2> HIDE DEF m
  <2>2. SlashNo(s)[m] \in 0..(Len(s) + 1)
    BY <2>1, SlashNoIs
  <2>3. SlashNo(s)[m] <= Len(s) => m <= SlashNo(s)[m]
    BY <2>1, SlashBehind
  <2>4. SlashNo(s)[m] > Len(s)
    BY <1>0, <2>1, <2>2, <2>3
  <2>5. ends \subseteq Nat /\ ends # {}
    BY <2>1, <2>4
  <2> HIDE DEF ends
  <2> QED BY <2>5, MinOf
<1> HIDE DEF b
<1>2. ASSUME NEW k \in a..(b - 1)
      PROVE  /\ SlashNo(s)[k] <= Len(s) /\ SlashNo(t)[k] <= Len(t)
             /\ Segment(s, k) = Segment(t, k)
  <2>0. b \in Nat
    BY <1>1
  <2>1. k \in Nat /\ k >= a /\ ~(b <= k)
    BY <2>0
  <2>2. SlashNo(s)[k] <= Len(s)
    <3>1. ~(SlashNo(s)[k] > Len(s))
      BY <1>1, <2>1
    <3>2. SlashNo(s)[k] \in 0..(Len(s) + 1)
      BY <2>1, SlashNoIs
    <3> QED BY <1>0, <3>1, <3>2
  <2> QED BY <2>1, <2>2 DEF SameSegments
<1> DEFINE x == SlashNo(s)[a]
           y == SlashNo(t)[a]
           u == SlashNo(s)[b]
           v == SlashNo(t)[b]
<1>3. b \in Nat /\ a <= b
  BY <1>1
<1>4. /\ x <= u /\ y <= v /\ u - x = v - y
      /\ \A i \in 0..(u - x - 1) : s[x + i] = t[y + i]
  <2>1. \A k \in a..(b - 1) : /\ SlashNo(s)[k] <= Len(s) /\ SlashNo(t)[k] <= Len(t)
                              /\ Segment(s, k) = Segment(t, k)
    BY <1>2
  <2>2. x <= u /\ y <= v
    BY <1>3, <2>1, Align
  <2>3. u - x = v - y
    BY <1>3, <2>1, Align
  <2>4. \A i \in 0..(u - x - 1) : s[x + i] = t[y + i]
    BY <1>3, <2>1, Align, ZenonT(40)
  <2> QED BY <2>2, <2>3, <2>4
<1>5. u = Len(s) + 1
  <2>1. u \in 0..(Len(s) + 1) /\ u > Len(s)
    BY <1>1, SlashNoIs
  <2> QED BY <1>0, <2>1
<1>6. v = Len(t) + 1
  <2>1. v \in 0..(Len(t) + 1)
    BY <1>3, SlashNoIs
  <2>2. SlashNo(s)[b] > Len(s) /\ ~(SlashNo(s)[b] <= Len(s))
    BY <1>0, <1>5
  <2>3. ~(v <= Len(t))
    BY <1>3, <2>2 DEF SameSegments
  <2> QED BY <1>0, <2>1, <2>3
<1>7. x \in Nat
  BY SlashNoIs
<1>8. y \in Nat
  BY SlashNoIs
<1>9. /\ Rest(s, a) \in Seq(STRING) /\ Len(Rest(s, a)) = Len(s) + 1 - x
      /\ \A i \in 1..Len(Rest(s, a)) : Rest(s, a)[i] = s[x + i - 1]
  BY RestIs
<1>10. /\ Rest(t, a) \in Seq(STRING) /\ Len(Rest(t, a)) = Len(t) + 1 - y
       /\ \A i \in 1..Len(Rest(t, a)) : Rest(t, a)[i] = t[y + i - 1]
  BY RestIs
<1> HIDE DEF x, y, u, v
<1>11. Len(Rest(s, a)) = Len(Rest(t, a))
  BY <1>0, <1>4, <1>5, <1>6, <1>7, <1>8, <1>9, <1>10
<1>12. ASSUME NEW i \in 1..Len(Rest(s, a)) PROVE Rest(s, a)[i] = Rest(t, a)[i]
  <2> DEFINE j == i - 1
  <2>1. j \in 0..(u - x - 1) /\ x + i - 1 = x + j /\ y + i - 1 = y + j
    BY <1>0, <1>5, <1>7, <1>8, <1>9
  <2> HIDE DEF j
  <2>2. s[x + j] = t[y + j]
    BY <1>4, <2>1
  <2> QED BY <1>9, <1>10, <1>11, <2>1, <2>2
<1> QED BY <1>9, <1>10, <1>11, <1>12, SameSequence


(* And the other way round.                                                  *)
LEMMA RestSlashes ==
  ASSUME NEW s \in Seq(STRING), NEW t \in Seq(STRING), NEW a \in Nat \ {0},
         Rest(s, a) = Rest(t, a), NEW k \in Nat, k >= a, SlashNo(s)[k] <= Len(s)
  PROVE  /\ SlashNo(t)[k] <= Len(t)
         /\ SlashNo(t)[k] - SlashNo(t)[a] = SlashNo(s)[k] - SlashNo(s)[a]
         /\ SlashNo(s)[a] <= SlashNo(s)[k]
         /\ Len(s) - SlashNo(s)[a] \in Nat
         /\ Len(t) - SlashNo(t)[a] = Len(s) - SlashNo(s)[a]
         /\ SameText(s, SlashNo(s)[a], t, SlashNo(t)[a], Len(s) - SlashNo(s)[a])
<1> DEFINE x == SlashNo(s)[a]
           y == SlashNo(t)[a]
           c == SlashNo(s)[k]
           d == SlashNo(t)[k]
           w == Len(s) - x
<1>0. Len(s) \in Nat /\ Len(t) \in Nat
  OBVIOUS
<1>1. x \in 1..(Len(s) + 1)
  BY SlashAt
<1>2. y \in 1..(Len(t) + 1)
  BY SlashAt
<1>3. c \in 0..(Len(s) + 1)
  BY SlashNoIs
<1>4. d \in 0..(Len(t) + 1)
  BY SlashNoIs
<1>5. x <= c
  <2>1. CASE a = k
    BY <1>1, <2>1
  <2>2. CASE a < k
    BY <2>2, SlashOrder
  <2> QED BY <2>1, <2>2
<1>6. c <= Len(s) /\ x <= Len(s)
  BY <1>0, <1>1, <1>3, <1>5
<1>7. /\ Len(Rest(s, a)) = Len(s) + 1 - x
      /\ \A i \in 1..Len(Rest(s, a)) : Rest(s, a)[i] = s[x + i - 1]
  BY RestIs
<1>8. /\ Len(Rest(t, a)) = Len(t) + 1 - y
      /\ \A i \in 1..Len(Rest(t, a)) : Rest(t, a)[i] = t[y + i - 1]
  BY RestIs
<1>9. w \in Nat /\ Len(t) - y = w
  <2>1. Len(Rest(s, a)) = Len(Rest(t, a))
    OBVIOUS
  <2>2. Len(s) + 1 - x = Len(t) + 1 - y
    BY <1>7, <1>8, <2>1
  <2> HIDE DEF x, y
  <2> QED BY <1>0, <1>1, <1>2, <1>6, <2>2
<1>10. SameText(s, x, t, y, w)
  <2>1. x + w <= Len(s) /\ y + w <= Len(t)
    <3>1. x \in Nat /\ y \in Nat
      BY <1>1, <1>2
    <3>2. w = Len(s) - x
      OBVIOUS
    <3> HIDE DEF x, y, w
    <3> QED BY <1>0, <1>9, <3>1, <3>2
  <2>2. ASSUME NEW i \in 0..w PROVE s[x + i] = t[y + i]
    <3> DEFINE j == i + 1
    <3>1. j \in 1..Len(Rest(s, a)) /\ x + j - 1 = x + i /\ y + j - 1 = y + i
      BY <1>0, <1>1, <1>2, <1>7, <1>9
    <3> HIDE DEF j
    <3> QED BY <1>7, <1>8, <3>1
  <2> HIDE DEF w
  <2> QED BY <2>1, <2>2 DEF SameText
<1>11. c <= x + w
  BY <1>0, <1>1, <1>3, <1>6
<1>12. d - y = c - x
  <2> HIDE DEF w
  <2> QED BY <1>9, <1>10, <1>11, Follow
<1>13. d <= Len(t)
  BY <1>0, <1>1, <1>2, <1>3, <1>4, <1>6, <1>9, <1>12
<1> QED BY <1>5, <1>9, <1>10, <1>12, <1>13

LEMMA RestToSegments ==
  ASSUME NEW s \in Seq(STRING), NEW t \in Seq(STRING), NEW a \in Nat \ {0},
         Rest(s, a) = Rest(t, a)
  PROVE  SameSegments(s, t, a)
<1> SUFFICES ASSUME NEW k \in Nat, k >= a
             PROVE  /\ SlashNo(s)[k] <= Len(s) <=> SlashNo(t)[k] <= Len(t)
                    /\ SlashNo(s)[k] <= Len(s) => Segment(s, k) = Segment(t, k)
  BY DEF SameSegments
<1>1. SlashNo(s)[k] <= Len(s) => SlashNo(t)[k] <= Len(t)
  BY RestSlashes
<1>2. SlashNo(t)[k] <= Len(t) => SlashNo(s)[k] <= Len(s)
  BY RestSlashes
<1>3. ASSUME SlashNo(s)[k] <= Len(s) PROVE Segment(s, k) = Segment(t, k)
  <2> DEFINE x == SlashNo(s)[a]
             y == SlashNo(t)[a]
             w == Len(s) - x
             e == SlashNo(s)[k + 1]
             f == SlashNo(t)[k + 1]
  <2>0. Len(s) \in Nat /\ Len(t) \in Nat /\ k + 1 \in Nat /\ k + 1 >= a
    OBVIOUS
  <2>1. /\ SlashNo(t)[k] <= Len(t) /\ SlashNo(t)[k] - y = SlashNo(s)[k] - x
        /\ x <= SlashNo(s)[k] /\ w \in Nat /\ Len(t) - y = w /\ SameText(s, x, t, y, w)
    BY <1>3, RestSlashes
  <2>2. x \in Nat /\ e \in 1..(Len(s) + 1)
    <3>1. e \in 1..(Len(s) + 1)
      BY SlashNext
    <3>2. x \in 1..(Len(s) + 1)
      BY SlashAt
    <3> QED BY <3>1, <3>2
  <2>3. y \in Nat /\ f \in 1..(Len(t) + 1)
    <3>1. f \in 1..(Len(t) + 1)
      BY SlashNext
    <3>2. y \in 1..(Len(t) + 1)
      BY SlashAt
    <3> QED BY <3>1, <3>2
  <2>4. CASE e <= Len(s)
    <3>1. f - y = e - x
      BY <2>0, <2>4, RestSlashes
    <3>2. e <= x + w + 1
      BY <2>0, <2>1, <2>2, <2>4
    <3> HIDE DEF x, y, w
    <3> QED BY <1>3, <2>1, <2>2, <2>3, <3>1, <3>2, SegmentSame
  <2>5. CASE e = Len(s) + 1
    <3>1. ~(f <= Len(t))
      <4>1. f <= Len(t) => e <= Len(s)
        BY <2>0, RestSlashes
      <4> HIDE DEF e, f
      <4> QED BY <2>0, <2>5, <4>1
    <3>2. e <= x + w + 1 /\ f - y = e - x
      <4> HIDE DEF e, f, x, y
      <4>1. e = x + w + 1
        BY <2>0, <2>2, <2>5
      <4>2. f = Len(t) + 1
        BY <2>0, <2>3, <3>1
      <4>3. Len(t) - y = w /\ x \in Nat /\ y \in Nat /\ w \in Nat /\ Len(t) \in Nat
        BY <2>0, <2>1, <2>2, <2>3
      <4> HIDE DEF w
      <4>4. f - y = e - x
        BY <4>1, <4>2, <4>3
      <4> QED BY <4>1, <4>3, <4>4
    <3>3. e \in Nat /\ f \in Nat
      BY <2>2, <2>3
    <3> HIDE DEF x, y, w
    <3> QED BY <1>3, <2>1, <2>2, <2>3, <3>2, <3>3, SegmentSame, SMTT(30)
  <2> QED BY <2>0, <2>2, <2>4, <2>5
<1> QED BY <1>1, <1>2, <1>3

(* The first slash of a text that begins with one.                           *)
LEMMA FirstSlash ==
  ASSUME NEW s \in Seq(STRING), s # <<>>, s[1] = Slash
  PROVE  SlashNo(s)[1] = 1
<1>1. SlashNo(s)[0] = 0 /\ SlashNo(s)[0 + 1] = SlashFrom(s, SlashNo(s)[0] + 1)
  BY SlashNoIs
<1>2. Len(s) \in Nat \ {0}
  OBVIOUS
<1>3. SlashFrom(s, 1) = 1
  BY <1>2, SlashFromAt
<1> QED BY <1>1, <1>3

(* The beginning of a path up to its a-th slash is the beginning of a target *)
(* just if the segments before are the same.                                 *)
Begins(path, target, a) ==
  /\ SlashNo(path)[a] <= Len(target)
  /\ SubSeq(target, 1, SlashNo(path)[a] - 1) = SubSeq(path, 1, SlashNo(path)[a] - 1)
  /\ target[SlashNo(path)[a]] = Slash

LEMMA BeginsToSegments ==
  ASSUME NEW s \in Path, NEW t \in Path, NEW a \in Nat \ {0}, SlashNo(s)[a] <= Len(s),
         Begins(s, t, a), NEW k \in 1..a
  PROVE  /\ SlashNo(t)[k] = SlashNo(s)[k] /\ SlashNo(t)[k] <= Len(t)
         /\ SlashNo(s)[k] <= Len(s)
         /\ k < a => Segment(s, k) = Segment(t, k)
<1> DEFINE n == SlashNo(s)[a]
           w == n - 1
<1>0. /\ s \in Seq(STRING) /\ t \in Seq(STRING)
      /\ Len(s) \in Nat \ {0} /\ Len(t) \in Nat \ {0} /\ k \in Nat \ {0}
      /\ n <= Len(s) /\ n <= Len(t)
  BY DEF Path, Begins
<1>1. SlashNo(s)[1] = 1 /\ SlashNo(t)[1] = 1
  <2>1. SlashNo(s)[1] = 1
    BY FirstSlash DEF Path
  <2>2. SlashNo(t)[1] = 1
    BY FirstSlash DEF Path
  <2> QED BY <2>1, <2>2
<1>2. n \in 1..(Len(s) + 1) /\ s[n] = Slash
  BY <1>0, SlashAt
<1>3. SameText(s, 1, t, 1, w)
  <2>1. /\ SubSeq(t, 1, w) = SubSeq(s, 1, w) /\ t[n] = Slash
    BY DEF Begins
  <2>2. w \in Nat /\ 1 + w = n
    BY <1>2
  <2> HIDE DEF n, w
  <2>3. w \in 0..Len(s) /\ w \in 0..Len(t)
    BY <1>0, <2>2
  <2>4. \A i \in 1..w : SubSeq(s, 1, w)[i] = s[i]
    BY <1>0, <2>3
  <2>5. \A i \in 1..w : SubSeq(t, 1, w)[i] = t[i]
    BY <1>0, <2>3
  <2>6. ASSUME NEW i \in 0..w PROVE s[1 + i] = t[1 + i]
    <3>1. CASE i = w
      BY <1>2, <2>1, <2>2, <3>1
    <3>2. CASE i < w
      <4>1. 1 + i \in 1..w
        BY <2>2, <3>2
      <4> QED BY <2>1, <2>4, <2>5, <4>1
    <3> QED BY <2>2, <3>1, <3>2
  <2> QED BY <1>0, <2>2, <2>6 DEF SameText
<1>4. ASSUME NEW j \in 1..a
      PROVE  SlashNo(t)[j] = SlashNo(s)[j] /\ SlashNo(s)[j] \in 1..n
  <2>1. j \in Nat \ {0} /\ 1 <= j
    OBVIOUS
  <2>2. SlashNo(s)[j] \in 1..(Len(s) + 1)
    BY <1>0, <2>1, SlashAt
  <2>3. SlashNo(s)[j] <= n
    <3>1. CASE j = a
      BY <1>2, <3>1
    <3>2. CASE j < a
      BY <1>0, <2>1, <3>2, SlashOrder
    <3> QED BY <3>1, <3>2
  <2>4. SlashNo(t)[j] \in 1..(Len(t) + 1)
    BY <1>0, <2>1, SlashAt
  <2>5. w \in Nat /\ 1 + w = n
    BY <1>2
  <2> HIDE DEF n, w
  <2>6. SlashNo(t)[j] - SlashNo(t)[1] = SlashNo(s)[j] - SlashNo(s)[1]
    BY <1>0, <1>1, <1>3, <2>1, <2>3, <2>5, Follow
  <2> QED BY <1>1, <2>2, <2>3, <2>4, <2>5, <2>6
<1>5. /\ SlashNo(t)[k] = SlashNo(s)[k] /\ SlashNo(s)[k] \in 1..n
  BY <1>4
<1>6. SlashNo(s)[k] <= Len(s) /\ SlashNo(t)[k] <= Len(t)
  <2> HIDE DEF n
  <2> QED BY <1>0, <1>2, <1>5
<1>7. ASSUME k < a PROVE Segment(s, k) = Segment(t, k)
  <2>1. k + 1 \in 1..a
    BY <1>7
  <2>2. SlashNo(t)[k + 1] = SlashNo(s)[k + 1] /\ SlashNo(s)[k + 1] \in 1..n
    BY <1>4, <2>1
  <2>3. w \in Nat /\ 1 + w = n
    BY <1>2
  <2> HIDE DEF n, w
  <2>4. SlashNo(s)[k + 1] <= 1 + w + 1
    BY <1>2, <2>2, <2>3
  <2>5. 1 <= SlashNo(s)[k] /\ SlashNo(t)[k] - 1 = SlashNo(s)[k] - 1
        /\ SlashNo(t)[k + 1] - 1 = SlashNo(s)[k + 1] - 1
    BY <1>5, <2>2
  <2>6. 1 \in Nat /\ k \in Nat
    BY <1>0
  <2> QED BY <1>0, <1>3, <1>6, <2>3, <2>4, <2>5, <2>6, SegmentSame
<1> QED BY <1>5, <1>6, <1>7

LEMMA SegmentsToBegins ==
  ASSUME NEW s \in Path, NEW t \in Path, NEW a \in Nat \ {0},
         \A k \in 1..a : SlashNo(s)[k] <= Len(s) /\ SlashNo(t)[k] <= Len(t),
         \A k \in 1..(a - 1) : Segment(s, k) = Segment(t, k)
  PROVE  Begins(s, t, a)
<1> DEFINE n == SlashNo(s)[a]
           w == n - 1
<1>0. /\ s \in Seq(STRING) /\ t \in Seq(STRING)
      /\ Len(s) \in Nat \ {0} /\ Len(t) \in Nat \ {0}
  BY DEF Path
<1>1. SlashNo(s)[1] = 1 /\ SlashNo(t)[1] = 1
  <2>1. SlashNo(s)[1] = 1
    BY FirstSlash DEF Path
  <2>2. SlashNo(t)[1] = 1
    BY FirstSlash DEF Path
  <2> QED BY <2>1, <2>2
<1>2. 1 \in Nat \ {0} /\ 1 <= a /\ a \in Nat
  OBVIOUS
<1>3. \A k \in 1..(a - 1) : /\ SlashNo(s)[k] <= Len(s) /\ SlashNo(t)[k] <= Len(t)
                            /\ Segment(s, k) = Segment(t, k)
  OBVIOUS
<1>4. /\ n - SlashNo(s)[1] = SlashNo(t)[a] - SlashNo(t)[1]
      /\ \A i \in 0..(n - SlashNo(s)[1] - 1) : s[SlashNo(s)[1] + i] = t[SlashNo(t)[1] + i]
  <2> DEFINE one == 1
  <2>1. /\ one \in Nat \ {0} /\ one <= a /\ a \in Nat
        /\ \A k \in one..(a - 1) : /\ SlashNo(s)[k] <= Len(s) /\ SlashNo(t)[k] <= Len(t)
                                   /\ Segment(s, k) = Segment(t, k)
    BY <1>2, <1>3
  <2> HIDE DEF one
  <2>2. /\ n - SlashNo(s)[one] = SlashNo(t)[a] - SlashNo(t)[one]
        /\ \A i \in 0..(n - SlashNo(s)[one] - 1) :
             s[SlashNo(s)[one] + i] = t[SlashNo(t)[one] + i]
    BY <1>0, <2>1, Align
  <2> QED BY <2>2 DEF one
<1>5. n \in 1..Len(s)
  <2>1. n \in 1..(Len(s) + 1) /\ n <= Len(s)
    BY <1>0, SlashAt
  <2> QED BY <1>0, <2>1
<1>6. SlashNo(t)[a] = n /\ n <= Len(t) /\ t[n] = Slash
  <2>1. /\ SlashNo(t)[a] \in 1..(Len(t) + 1) /\ SlashNo(t)[a] <= Len(t)
        /\ t[SlashNo(t)[a]] = Slash
    BY <1>0, SlashAt
  <2> HIDE DEF n
  <2>2. SlashNo(t)[a] = n
    BY <1>1, <1>4, <1>5, <2>1
  <2> QED BY <2>1, <2>2
<1> HIDE DEF n
<1>7. w \in 0..Len(s) /\ w \in 0..Len(t)
  BY <1>0, <1>5, <1>6
<1>8. ASSUME NEW i \in 1..w PROVE s[i] = t[i]
  <2> DEFINE j == i - 1
  <2>1. j \in 0..(n - 1 - 1) /\ 1 + j = i
    BY <1>5
  <2> HIDE DEF j
  <2> QED BY <1>1, <1>4, <2>1
<1> HIDE DEF w
<1>9. SubSeq(t, 1, w) = SubSeq(s, 1, w)
  BY <1>0, <1>7, <1>8
<1> QED BY <1>6, <1>9 DEF Begins, n, w


-----------------------------------------------------------------------------
(* What parse() finds in a path. *)

LEMMA FindNothing ==
  ASSUME NEW s \in Seq(STRING) PROVE Find(s, <<>>) # 0
<1> DEFINE at == {i \in 1..(Len(s) - Len(<<>>) + 1) : SubSeq(s, i, i + Len(<<>>) - 1) = <<>>}
<1>1. 1 \in at /\ at \subseteq Nat /\ 0 \notin at
  <2>1. Len(s) \in Nat /\ Len(<<>>) = 0
    OBVIOUS
  <2>2. 1 \in 1..(Len(s) - Len(<<>>) + 1) /\ 1 + Len(<<>>) - 1 = 0
    BY <2>1
  <2>3. SubSeq(s, 1, 0) = <<>>
    OBVIOUS
  <2> QED BY <2>2, <2>3
<1>2. Find(s, <<>>) = IF at = {} THEN 0 ELSE Min(at)
  BY DEF Find
<1> HIDE DEF at
<1>3. Min(at) \in at
  BY <1>1, MinOf
<1> QED BY <1>1, <1>2, <1>3

(* A parameter is a segment that begins with a colon.                        *)
LEMMA ParamIs ==
  ASSUME NEW s \in Seq(STRING), NEW k \in Nat \ {0}
  PROVE  k \in Params(s) <=> /\ SlashNo(s)[k] <= Len(s)
                             /\ SlashNo(s)[k] + 1 < SlashNo(s)[k + 1]
                             /\ s[SlashNo(s)[k] + 1] = Colon
<1> DEFINE c == SlashNo(s)[k]
           e == SlashNo(s)[k + 1]
           g == Segment(s, k)
<1>0. /\ Len(s) \in Nat /\ (k \in Segments(s) <=> c <= Len(s))
  BY SegmentsAre
<1>1. k \in Params(s) <=> k \in Segments(s) /\ g # <<>> /\ g[1] = Colon
  BY DEF Params, IsParam
<1>2. /\ g \in Seq(STRING) /\ (c <= Len(s) => Len(g) = e - c - 1)
      /\ \A i \in 1..Len(g) : g[i] = s[c + i]
  BY SegmentIs
<1>3. c \in 1..(Len(s) + 1) /\ e \in 1..(Len(s) + 1)
  BY SlashAt, SlashNext
<1> HIDE DEF c, e, g
<1>4. g # <<>> <=> Len(g) # 0
  BY <1>2
<1>5. Len(g) # 0 => 1 \in 1..Len(g)
  BY <1>2
<1>6. ASSUME c <= Len(s) PROVE g # <<>> <=> c + 1 < e
  BY <1>0, <1>2, <1>3, <1>4, <1>6
<1> QED BY <1>0, <1>1, <1>2, <1>4, <1>5, <1>6 DEF c, e, g

(* A slash is one of those that are counted.                                 *)
LEMMA SlashCounted ==
  ASSUME NEW s \in Seq(STRING), NEW i \in 1..Len(s), s[i] = Slash
  PROVE  \E k \in Nat \ {0} : SlashNo(s)[k] = i
<1>0. Len(s) \in Nat /\ i \in 0..Len(s) /\ i # 0
  OBVIOUS
<1>1. PICK k \in Nat : SlashNo(s)[k] <= i /\ i < SlashNo(s)[k + 1]
  BY <1>0, SlashCovers
<1>2. \A j \in (SlashNo(s)[k] + 1)..(SlashNo(s)[k + 1] - 1) : s[j] # Slash
  BY SlashNext
<1>3. SlashNo(s)[k] \in 0..(Len(s) + 1) /\ SlashNo(s)[k + 1] \in 1..(Len(s) + 1)
  BY SlashNext
<1>4. SlashNo(s)[k] = i
  <2> DEFINE c == SlashNo(s)[k]
             e == SlashNo(s)[k + 1]
  <2>1. /\ c \in 0..(Len(s) + 1) /\ e \in 1..(Len(s) + 1) /\ c <= i /\ i < e
        /\ \A j \in (c + 1)..(e - 1) : s[j] # Slash
    BY <1>1, <1>2, <1>3
  <2> HIDE DEF c, e
  <2>2. c = i
    BY <1>0, <2>1
  <2> QED BY <2>2 DEF c
<1>5. k # 0
  BY <1>0, <1>4, SlashNoIs
<1> QED BY <1>4, <1>5

(* The parameters that parse() binds are the segments that are parameters.   *)
LEMMA BindsAre ==
  ASSUME NEW s \in Path, 1 \notin Params(s)
  PROVE  Binds(s) = {SlashNo(s)[k] : k \in Params(s)} /\ Params(s) \subseteq Nat \ {0, 1}
<1>0. s \in Seq(STRING) /\ Len(s) \in Nat \ {0} /\ SlashNo(s)[1] = 1
  BY FirstSlash DEF Path
<1>1. Params(s) \subseteq Nat \ {0, 1}
  BY <1>0, SegmentsAre DEF Params
<1>2. ASSUME NEW i \in Binds(s) PROVE i \in {SlashNo(s)[k] : k \in Params(s)}
  <2>1. i \in 2..(Len(s) - 1) /\ s[i] = Slash /\ s[i + 1] = Colon
    BY <1>2 DEF Binds
  <2>2. i \in 1..Len(s) /\ i + 1 \in 1..Len(s) /\ i <= Len(s)
    BY <1>0, <2>1
  <2>3. PICK k \in Nat \ {0} : SlashNo(s)[k] = i
    BY <1>0, <2>1, <2>2, SlashCounted
  <2>4. /\ SlashNo(s)[k + 1] \in 1..(Len(s) + 1) /\ i < SlashNo(s)[k + 1]
        /\ SlashNo(s)[k + 1] <= Len(s) => s[SlashNo(s)[k + 1]] = Slash
    BY <1>0, <2>2, <2>3, SlashNext
  <2>5. Slash # Colon
    BY DEF Slash, Colon
  <2>6. SlashNo(s)[k + 1] # i + 1
    BY <1>0, <2>1, <2>2, <2>4, <2>5
  <2>7. i + 1 < SlashNo(s)[k + 1]
    BY <2>2, <2>4, <2>6
  <2>8. k \in Params(s)
    BY <1>0, <2>1, <2>2, <2>3, <2>7, ParamIs
  <2> QED BY <2>3, <2>8
<1>3. ASSUME NEW k \in Params(s) PROVE SlashNo(s)[k] \in Binds(s)
  <2> DEFINE c == SlashNo(s)[k]
             e == SlashNo(s)[k + 1]
  <2>1. k \in Nat \ {0} /\ 1 < k
    BY <1>1, <1>3
  <2>2. c <= Len(s) /\ c + 1 < e /\ s[c + 1] = Colon
    BY <1>0, <1>3, <2>1, ParamIs
  <2>3. c \in 1..(Len(s) + 1) /\ (c <= Len(s) => s[c] = Slash)
    BY <1>0, <2>1, SlashAt
  <2>4. e \in 1..(Len(s) + 1)
    BY <1>0, <2>1, SlashNext
  <2>5. 1 < c
    <3>1. SlashNo(s)[1] < SlashNo(s)[k]
      BY <1>0, <2>1, SlashOrder
    <3> QED BY <1>0, <3>1
  <2> HIDE DEF c, e
  <2>6. c \in 2..(Len(s) - 1)
    BY <1>0, <2>2, <2>3, <2>4, <2>5
  <2>7. c \in Binds(s)
    BY <2>2, <2>3, <2>6 DEF Binds
  <2> QED BY <2>7 DEF c
<1> QED BY <1>1, <1>2, <1>3

(* The parameters of a path, one after another.                              *)
LEMMA ParamsAre ==
  ASSUME NEW s \in Path, 1 \notin Params(s), Params(s) # {},
         \A j, k \in Params(s) : j..k \subseteq Params(s)
  PROVE  \E b \in Nat : /\ Params(s) = Min(Params(s))..b /\ Min(Params(s)) \in 2..b
                        /\ Cardinality(Params(s)) = b + 1 - Min(Params(s))
<1> DEFINE ps == Params(s)
           a == Min(ps)
           back == {Len(s) - k : k \in ps}
           b == Len(s) - Min(back)
<1>0. s \in Seq(STRING) /\ Len(s) \in Nat
  BY DEF Path
<1>1. ps \subseteq 2..Len(s)
  BY <1>0, BindsAre DEF Params, Segments
<1>2. a \in ps /\ \A k \in ps : a <= k
  BY <1>1, MinOf
<1>3. b \in ps /\ \A k \in ps : k <= b
  <2>1. back \subseteq Nat /\ back # {}
    BY <1>0, <1>1
  <2> DEFINE n == Min(back)
  <2>2. n \in back /\ \A m \in back : n <= m
    <3> HIDE DEF back
    <3> QED BY <2>1, MinOf
  <2> HIDE DEF n
  <2>3. PICK l \in ps : n = Len(s) - l
    BY <2>2
  <2>4. Len(s) - n = l
    BY <1>0, <1>1, <2>3
  <2>5. ASSUME NEW k \in ps PROVE k <= l
    <3>1. n <= Len(s) - k
      BY <2>2
    <3> QED BY <1>0, <1>1, <2>3, <3>1
  <2> QED BY <2>4, <2>5 DEF n
<1> HIDE DEF a, b
<1>4. a \in 2..b /\ b \in Nat
  BY <1>1, <1>2, <1>3
<1>5. ps = a..b
  <2>1. a..b \subseteq ps
    BY <1>2, <1>3
  <2>2. ASSUME NEW k \in ps PROVE k \in a..b
    BY <1>1, <1>2, <1>3, <1>4
  <2> QED BY <2>1, <2>2
<1>6. Cardinality(a..b) = b + 1 - a
  BY <1>4, FS_Interval
<1> QED BY <1>4, <1>5, <1>6 DEF a


(* A path that has parameters, from the a-th segment to the b-th.            *)
Shape(s, a, b) ==
  /\ s \in Path /\ b \in Nat /\ a \in 2..b
  /\ Params(s) = a..b /\ Cardinality(Params(s)) = b + 1 - a /\ Min(Params(s)) = a
  /\ Binds(s) = {SlashNo(s)[k] : k \in a..b}
  /\ \A k \in a..b :
       /\ SlashNo(s)[k] \in 3..Len(s) /\ SlashNo(s)[k + 1] \in 3..(Len(s) + 1)
       /\ SlashNo(s)[k] + 2 < SlashNo(s)[k + 1]
       /\ s[SlashNo(s)[k]] = Slash /\ s[SlashNo(s)[k] + 1] = Colon
       /\ \A i \in (SlashNo(s)[k] + 2)..(SlashNo(s)[k + 1] - 1) : s[i] \notin {Slash, Colon}
  /\ s[SlashNo(s)[a] - 1] # Slash
  /\ \A i \in SlashNo(s)[b + 1]..Len(s) : s[i] # Colon
  /\ s[Len(s)] = Slash => SlashNo(s)[b + 1] = Len(s)

(* What a name is.                                                           *)
LEMMA NameIs ==
  ASSUME NEW s \in Seq(STRING), NEW k \in Nat \ {0},
         SlashNo(s)[k] <= Len(s), SlashNo(s)[k] + 1 < SlashNo(s)[k + 1]
  PROVE  /\ Tail(Segment(s, k)) \in Seq(STRING)
         /\ Tail(Segment(s, k)) = SubSeq(s, SlashNo(s)[k] + 2, SlashNo(s)[k + 1] - 1)
         /\ Len(Tail(Segment(s, k))) = SlashNo(s)[k + 1] - SlashNo(s)[k] - 2
         /\ \A i \in 1..Len(Tail(Segment(s, k))) :
              Tail(Segment(s, k))[i] = s[SlashNo(s)[k] + 1 + i]
<1> DEFINE c == SlashNo(s)[k]
           e == SlashNo(s)[k + 1]
           g == Segment(s, k)
<1>0. Len(s) \in Nat
  OBVIOUS
<1>1. c \in 1..(Len(s) + 1) /\ e \in 1..(Len(s) + 1) /\ c <= Len(s) /\ c + 1 < e
  BY SlashAt, SlashNext
<1>2. /\ g \in Seq(STRING) /\ Len(g) = e - c - 1
      /\ \A i \in 1..Len(g) : g[i] = s[c + i]
  BY SegmentIs
<1> HIDE DEF c, e, g
<1>3. g # <<>> /\ Len(g) >= 1
  BY <1>0, <1>1, <1>2
<1>4. /\ Tail(g) \in Seq(STRING) /\ Len(Tail(g)) = e - c - 2
      /\ \A i \in 1..Len(Tail(g)) : Tail(g)[i] = g[i + 1]
  BY <1>0, <1>1, <1>2, <1>3
<1>5. \A i \in 1..Len(Tail(g)) : Tail(g)[i] = s[c + 1 + i]
  BY <1>0, <1>1, <1>2, <1>4
<1>6. /\ SubSeq(s, c + 2, e - 1) \in Seq(STRING) /\ Len(SubSeq(s, c + 2, e - 1)) = e - c - 2
      /\ \A i \in 1..(e - c - 2) : SubSeq(s, c + 2, e - 1)[i] = s[c + 1 + i]
  <2>1. c + 2 \in 1..(Len(s) + 1) /\ e - 1 \in 0..Len(s) /\ c + 2 <= (e - 1) + 1
    BY <1>0, <1>1
  <2>2. /\ SubSeq(s, c + 2, e - 1) \in Seq(STRING)
        /\ Len(SubSeq(s, c + 2, e - 1)) = (e - 1) + 1 - (c + 2)
        /\ \A i \in 1..((e - 1) + 1 - (c + 2)) : SubSeq(s, c + 2, e - 1)[i] = s[(c + 2) + i - 1]
    BY <2>1, Part
  <2>3. (e - 1) + 1 - (c + 2) = e - c - 2
    BY <1>1
  <2>4. ASSUME NEW i \in 1..(e - c - 2) PROVE SubSeq(s, c + 2, e - 1)[i] = s[c + 1 + i]
    <3>1. i \in Int /\ (c + 2) + i - 1 = c + 1 + i
      BY <1>1
    <3> QED BY <2>2, <2>3, <3>1
  <2> QED BY <2>2, <2>3, <2>4
<1>7. Tail(g) = SubSeq(s, c + 2, e - 1)
  BY <1>4, <1>5, <1>6, SameSequence
<1> QED BY <1>4, <1>5, <1>7 DEF c, e, g

LEMMA InRange ==
  ASSUME NEW s \in Seq(STRING), NEW token, token \notin Range(s), NEW i \in 1..Len(s)
  PROVE  s[i] # token
BY DEF Range

(* A plain path with parameters has that shape.                              *)
LEMMA ShapeOf ==
  ASSUME NEW s \in Path, NEW t \in Seq(STRING), Plain(s, t), Params(s) # {}
  PROVE  \E a, b \in Nat : Shape(s, a, b)
<1>0. s \in Seq(STRING) /\ Len(s) \in Nat \ {0} /\ SlashNo(s)[1] = 1
  BY FirstSlash DEF Path
<1>1. 1 \notin Params(s) /\ \A j, k \in Params(s) : j..k \subseteq Params(s)
  BY DEF Plain
<1> DEFINE a == Min(Params(s))
<1>2. PICK b \in Nat : Params(s) = a..b /\ a \in 2..b /\ Cardinality(Params(s)) = b + 1 - a
  BY <1>1, ParamsAre
<1>3. Binds(s) = {SlashNo(s)[k] : k \in a..b}
  BY <1>1, <1>2, BindsAre
<1> HIDE DEF a
<1>4. ASSUME NEW k \in a..b
      PROVE  /\ SlashNo(s)[k] \in 1..Len(s) /\ SlashNo(s)[k + 1] \in 1..(Len(s) + 1)
             /\ SlashNo(s)[k] + 2 < SlashNo(s)[k + 1]
             /\ s[SlashNo(s)[k]] = Slash /\ s[SlashNo(s)[k] + 1] = Colon
             /\ \A i \in (SlashNo(s)[k] + 2)..(SlashNo(s)[k + 1] - 1) : s[i] \notin {Slash, Colon}
  <2> DEFINE c == SlashNo(s)[k]
             e == SlashNo(s)[k + 1]
             name == Tail(Segment(s, k))
  <2>1. k \in Nat \ {0} /\ k \in Params(s)
    BY <1>2, <1>4
  <2>2. c <= Len(s) /\ c + 1 < e /\ s[c + 1] = Colon
    BY <1>0, <2>1, ParamIs
  <2>3. c \in 1..(Len(s) + 1) /\ (c <= Len(s) => s[c] = Slash)
    BY <1>0, <2>1, SlashAt
  <2>4. e \in 1..(Len(s) + 1) /\ \A i \in (c + 1)..(e - 1) : s[i] # Slash
    BY <1>0, <2>1, SlashNext
  <2>5. Colon \notin Range(name) /\ Find(t, name) = 0
    BY <2>1 DEF Plain
  <2>6. /\ name \in Seq(STRING) /\ Len(name) = e - c - 2
        /\ \A i \in 1..Len(name) : name[i] = s[c + 1 + i]
    BY <1>0, <2>1, <2>2, NameIs
  <2>7. name # <<>>
    BY <2>5, FindNothing
  <2> HIDE DEF c, e, name
  <2>8. Len(name) # 0
    BY <2>6, <2>7
  <2>9. c \in 1..Len(s) /\ s[c] = Slash /\ c + 2 < e
    BY <1>0, <2>2, <2>3, <2>4, <2>6, <2>8
  <2>10. ASSUME NEW i \in (c + 2)..(e - 1) PROVE s[i] \notin {Slash, Colon}
    <3> DEFINE j == i - c - 1
    <3>1. j \in 1..Len(name) /\ c + 1 + j = i /\ i \in (c + 1)..(e - 1)
      BY <2>3, <2>4, <2>6
    <3> HIDE DEF j
    <3>2. name[j] # Colon
      BY <2>5, <2>6, <3>1, InRange
    <3> QED BY <2>4, <2>6, <3>1, <3>2
  <2> QED BY <2>2, <2>4, <2>9, <2>10 DEF c, e
<1>5. /\ s[SlashNo(s)[a] - 1] # Slash /\ SlashNo(s)[a] >= 3
  <2> DEFINE j == a - 1
             c == SlashNo(s)[j]
             e == SlashNo(s)[a]
  <2>1. j \in Nat \ {0} /\ j + 1 = a /\ a \in a..b /\ a \in Params(s) /\ j \notin Params(s)
    BY <1>2
  <2>2. Segment(s, j) # <<>>
    BY <2>1 DEF Plain
  <2>3. e \in 1..Len(s)
    BY <1>4, <2>1
  <2> HIDE DEF j
  <2>4. /\ c \in 0..(Len(s) + 1) /\ (c <= Len(s) => c < e)
        /\ c = Len(s) + 1 => e = Len(s) + 1
        /\ \A i \in (c + 1)..(e - 1) : s[i] # Slash
    BY <1>0, <2>1, SlashNext
  <2>5. /\ Segment(s, j) \in Seq(STRING)
        /\ c <= Len(s) => Len(Segment(s, j)) = e - c - 1
    BY <1>0, <2>1, SegmentIs
  <2>6. c \in 1..(Len(s) + 1)
    BY <1>0, <2>1, SlashAt
  <2> HIDE DEF c, e
  <2>7. c <= Len(s) /\ c < e /\ Len(Segment(s, j)) # 0
    BY <1>0, <2>2, <2>3, <2>4, <2>5
  <2>8. e - 1 \in (c + 1)..(e - 1) /\ e >= 3
    BY <2>3, <2>4, <2>5, <2>6, <2>7
  <2>9. s[e - 1] # Slash
    BY <2>4, <2>8
  <2> QED BY <2>8, <2>9 DEF e
<1>6. ASSUME NEW k \in a..b PROVE SlashNo(s)[k] >= 3 /\ SlashNo(s)[k + 1] >= 3
  <2>1. k \in Nat /\ a \in Nat
    BY <1>2
  <2>2. SlashNo(s)[k] \in 1..Len(s) /\ SlashNo(s)[k + 1] \in 1..(Len(s) + 1)
        /\ SlashNo(s)[k] + 2 < SlashNo(s)[k + 1]
    BY <1>4
  <2>3. SlashNo(s)[a] <= SlashNo(s)[k]
    <3>1. CASE k = a
      BY <2>2, <3>1
    <3>2. CASE a < k
      BY <1>0, <2>1, <3>2, SlashOrder
    <3> QED BY <2>1, <3>1, <3>2
  <2>4. SlashNo(s)[a] \in 1..Len(s)
    BY <1>2, <1>4
  <2> QED BY <1>5, <2>2, <2>3, <2>4
<1>7. b + 1 \in Nat \ {0} /\ SlashNo(s)[b + 1] \in 1..(Len(s) + 1)
  BY <1>2, <1>4
<1>8. ASSUME NEW k \in Nat, k > b, SlashNo(s)[k] <= Len(s) PROVE k \in Behind(s)
  <2>1. k \in Segments(s) /\ k \notin Params(s) /\ b \in Params(s) /\ b < k
    BY <1>0, <1>2, <1>8, SegmentsAre
  <2> QED BY <2>1 DEF Behind
<1>9. ASSUME NEW i \in SlashNo(s)[b + 1]..Len(s) PROVE s[i] # Colon
  <2> DEFINE e == SlashNo(s)[b + 1]
  <2>1. e \in 1..(Len(s) + 1) /\ i \in Nat /\ e <= i /\ i \in 0..Len(s)
    BY <1>0, <1>7
  <2>2. PICK k \in Nat : SlashNo(s)[k] <= i /\ i < SlashNo(s)[k + 1]
    BY <1>0, <2>1, SlashCovers
  <2>3. SlashNo(s)[k] \in 0..(Len(s) + 1) /\ SlashNo(s)[k + 1] \in 1..(Len(s) + 1)
    BY <1>0, SlashNext
  <2>4. k > b
    <3> SUFFICES ASSUME k <= b PROVE FALSE
      BY <1>2
    <3>1. SlashNo(s)[k + 1] <= e
      <4>1. CASE k = b
        BY <2>1, <4>1
      <4>2. CASE k < b
        <5>1. k + 1 < b + 1 /\ k + 1 \in Nat /\ b + 1 \in Nat
          BY <4>2
        <5> QED BY <1>0, <5>1, SlashOrder
      <4> QED BY <4>1, <4>2
    <3> HIDE DEF e
    <3> QED BY <2>1, <2>2, <2>3, <3>1
  <2>5. SlashNo(s)[k] <= Len(s)
    BY <2>1, <2>2, <2>3
  <2>6. k \in Behind(s) /\ k \in Nat \ {0}
    BY <1>8, <2>4, <2>5
  <2>7. CASE i = SlashNo(s)[k]
    <3>1. s[i] = Slash
      BY <1>0, <2>5, <2>6, <2>7, SlashAt
    <3> QED BY <3>1 DEF Slash, Colon
  <2>8. CASE i > SlashNo(s)[k]
    <3> DEFINE c == SlashNo(s)[k]
               g == Segment(s, k)
               j == i - c
    <3>1. Colon \notin Range(g)
      BY <2>6 DEF Plain
    <3>2. /\ g \in Seq(STRING) /\ Len(g) = SlashNo(s)[k + 1] - c - 1
          /\ \A l \in 1..Len(g) : g[l] = s[c + l]
      BY <1>0, <2>5, SegmentIs
    <3> HIDE DEF g
    <3>3. j \in 1..Len(g) /\ c + j = i
      <4>1. c \in Nat /\ i \in Nat /\ c < i /\ i < SlashNo(s)[k + 1]
        BY <2>1, <2>2, <2>3, <2>8
      <4>2. SlashNo(s)[k + 1] \in Nat
        BY <2>3
      <4> HIDE DEF c
      <4> QED BY <3>2, <4>1, <4>2
    <3> HIDE DEF j
    <3>4. g[j] # Colon
      BY <3>1, <3>2, <3>3, InRange
    <3> QED BY <3>2, <3>3, <3>4
  <2> QED BY <2>1, <2>2, <2>3, <2>7, <2>8
<1>10. ASSUME s[Len(s)] = Slash PROVE SlashNo(s)[b + 1] = Len(s)
  <2>1. PICK k \in Nat \ {0} : SlashNo(s)[k] = Len(s)
    BY <1>0, <1>10, SlashCounted
  <2>2. k \in Nat /\ SlashNo(s)[k] <= Len(s)
    BY <1>0, <2>1
  <2>3. k > b
    <3> SUFFICES ASSUME k <= b PROVE FALSE
      BY <1>2
    <3>1. SlashNo(s)[k] < SlashNo(s)[k + 1]
      BY <1>0, <2>2, SlashNext
    <3>2. SlashNo(s)[b] \in 1..Len(s) /\ SlashNo(s)[b] + 2 < SlashNo(s)[b + 1]
      BY <1>2, <1>4
    <3>3. SlashNo(s)[k] <= SlashNo(s)[b]
      <4>1. CASE k = b
        BY <2>1, <4>1, <1>0
      <4>2. CASE k < b
        BY <1>0, <4>2, SlashOrder
      <4> QED BY <4>1, <4>2
    <3> QED BY <1>0, <1>7, <2>1, <3>2, <3>3
  <2>4. k \in Behind(s)
    BY <1>8, <2>2, <2>3
  <2>5. k - 1 \in Params(s)
    BY <1>10, <2>4 DEF Plain
  <2>6. k = b + 1
    BY <1>2, <2>3, <2>5
  <2> QED BY <2>1, <2>6
<1>11. ASSUME NEW k \in a..b
       PROVE  SlashNo(s)[k] \in 3..Len(s) /\ SlashNo(s)[k + 1] \in 3..(Len(s) + 1)
  BY <1>4, <1>6
<1>12. Shape(s, a, b)
  BY <1>2, <1>3, <1>4, <1>5, <1>9, <1>10, <1>11 DEF Shape, a
<1>13. a \in Nat
  BY <1>2
<1> QED BY <1>12, <1>13

LEMMA SlashMonotone ==
  ASSUME NEW s \in Seq(STRING), NEW j \in Nat, NEW k \in Nat, j <= k
  PROVE  SlashNo(s)[j] <= SlashNo(s)[k]
<1>1. CASE j = k
  <2>1. SlashNo(s)[j] \in 0..(Len(s) + 1)
    BY SlashNoIs
  <2>2. SlashNo(s)[j] <= SlashNo(s)[j]
    BY <2>1
  <2> QED BY <1>1, <2>2
<1>2. CASE j < k
  BY <1>2, SlashOrder
<1> QED BY <1>1, <1>2

(* Where the name of a parameter ends, as the code finds it.                 *)
LEMMA KeyEndIs ==
  ASSUME NEW s, NEW a, NEW b, Shape(s, a, b), NEW k \in a..b
  PROVE  KeyEnd(s, SlashNo(s)[k] + 2) = SlashNo(s)[k + 1]
<1> DEFINE c == SlashNo(s)[k]
           e == SlashNo(s)[k + 1]
           p == c + 2
           next == {i \in Binds(s) : i >= p}
<1>0. /\ s \in Seq(STRING) /\ Len(s) \in Nat \ {0} /\ b \in Nat /\ a \in 2..b
      /\ k \in Nat /\ k + 1 \in Nat
  BY DEF Shape, Path
<1>1. Binds(s) = {SlashNo(s)[j] : j \in a..b} /\ \A j \in a..b : SlashNo(s)[j] \in Nat
  BY DEF Shape
<1>2. /\ c \in 3..Len(s) /\ e \in 3..(Len(s) + 1) /\ c + 2 < e
      /\ \A i \in (c + 2)..(e - 1) : s[i] \notin {Slash, Colon}
  BY DEF Shape
<1>3. KeyEnd(s, p) = IF next # {} THEN Min(next)
                     ELSE IF s[Len(s)] = Slash THEN Len(s) ELSE SlashFrom(s, p)
  BY DEF KeyEnd
<1>4. CASE k < b
  <2>1. k + 1 \in a..b
    BY <1>0, <1>4
  <2>2. e \in next
    BY <1>1, <1>2, <2>1
  <2>3. next \subseteq Nat
    BY <1>1
  <2>4. ASSUME NEW i \in next PROVE e <= i
    <3>1. PICK j \in a..b : i = SlashNo(s)[j]
      BY <1>1
    <3>2. j \in Nat /\ i >= c + 2 /\ i \in Nat
      BY <1>0, <1>1, <3>1
    <3>3. ~(j <= k)
      <4> SUFFICES ASSUME j <= k PROVE FALSE
        OBVIOUS
      <4>1. SlashNo(s)[j] <= SlashNo(s)[k]
        BY <1>0, <3>2, SlashMonotone
      <4> QED BY <1>2, <3>1, <3>2, <4>1
    <3>4. k + 1 <= j
      BY <1>0, <3>2, <3>3
    <3> QED BY <1>0, <3>1, <3>2, <3>4, SlashMonotone
  <2> HIDE DEF next, e
  <2>5. Min(next) \in next /\ \A i \in next : Min(next) <= i
    BY <2>2, <2>3, MinOf
  <2>6. Min(next) = e
    <3> DEFINE m == Min(next)
    <3>1. m <= e /\ e <= m /\ m \in Nat /\ e \in Nat
      BY <2>2, <2>3, <2>4, <2>5
    <3> HIDE DEF m
    <3> QED BY <3>1 DEF m
  <2> QED BY <1>3, <2>2, <2>6 DEF e
<1>5. CASE k = b
  <2>1. next = {}
    <3> SUFFICES ASSUME NEW j \in a..b, SlashNo(s)[j] >= p PROVE FALSE
      BY <1>1
    <3>1. SlashNo(s)[j] <= c
      BY <1>0, <1>5, SlashMonotone
    <3> QED BY <1>1, <1>2, <3>1
  <2>2. s[Len(s)] = Slash => e = Len(s)
    BY <1>5 DEF Shape
  <2>3. e <= Len(s) => s[e] = Slash
    <3>1. k + 1 \in Nat \ {0}
      BY <1>0
    <3> QED BY <1>0, <3>1, SlashAt
  <2>4. SlashFrom(s, p) = e
    <3> HIDE DEF c, e
    <3>1. p \in Nat \ {0} /\ e \in p..(Len(s) + 1) /\ (e = Len(s) + 1 \/ s[e] = Slash)
      BY <1>0, <1>2, <2>3
    <3>2. \A i \in p..(e - 1) : s[i] # Slash
      BY <1>2
    <3> QED BY <1>0, <3>1, <3>2, SlashFromAt
  <2> QED BY <1>3, <2>1, <2>2, <2>4
<1> QED BY <1>0, <1>4, <1>5

LEMMA KeyEndType ==
  ASSUME NEW s \in Path, NEW p \in Nat \ {0}
  PROVE  KeyEnd(s, p) \in Nat
<1> DEFINE next == {i \in Binds(s) : i >= p}
<1>1. s \in Seq(STRING) /\ Len(s) \in Nat
  BY DEF Path
<1>2. next \subseteq Nat
  BY <1>1 DEF Binds
<1>3. SlashFrom(s, p) \in Nat
  BY <1>1, SlashFromIs
<1>4. next # {} => Min(next) \in Nat
  <2> HIDE DEF next
  <2> QED BY <1>2, MinOf
<1> QED BY <1>1, <1>3, <1>4 DEF KeyEnd

(* The colons are found one behind the name that follows the other.          *)
LEMMA ColonsIs ==
  ASSUME NEW s \in Path, Binds(s) # {}
  PROVE  /\ Colons(s)[0] = Min(Binds(s)) + 1
         /\ \A k \in Nat : Colons(s)[k + 1] = ColonFrom(s, KeyEnd(s, Colons(s)[k] + 1) + 1)
<1> DEFINE x == Min(Binds(s)) + 1
           Step(i) == ColonFrom(s, KeyEnd(s, i + 1) + 1)
           Def(f) == f = [k \in Nat |-> IF k = 0 THEN x ELSE Step(f[k - 1])]
           F == [z \in Nat \X Nat |-> Step(z[2])]
<1>0. s \in Seq(STRING) /\ Len(s) \in Nat
  BY DEF Path
<1>1. x \in Nat
  <2>1. Binds(s) \subseteq Nat
    BY <1>0 DEF Binds
  <2> QED BY <2>1, MinOf
<1>2. ASSUME NEW i \in Nat PROVE Step(i) \in Nat
  <2>1. KeyEnd(s, i + 1) \in Nat
    BY KeyEndType
  <2> QED BY <1>0, <2>1, ColonFromIs
<1>3. Colons(s) = CHOOSE f : Def(f)
  BY DEF Colons
<1> HIDE DEF x, Step
<1>4. PICK g : g[0] = x /\ \A k \in Nat : g[k + 1] = F[<<k, g[k]>>] /\ g \in [Nat -> Nat]
  <2>1. F \in [Nat \X Nat -> Nat]
    BY <1>2
  <2>2. \E f : Iterates(f, Nat, x, F)
    <3> HIDE DEF F
    <3> QED BY <1>1, <2>1, Iteration
  <2> QED BY <2>2 DEF Iterates
<1>5. \A k \in Nat : g[k + 1] = Step(g[k]) /\ g \in [Nat -> Nat]
  BY <1>4
<1>6. Def(g)
  <2>0. g \in [Nat -> Nat]
    BY <1>4
  <2> SUFFICES ASSUME NEW k \in Nat
               PROVE  g[k] = IF k = 0 THEN x ELSE Step(g[k - 1])
    BY <2>0
  <2>1. k # 0 => k - 1 \in Nat /\ k = (k - 1) + 1
    OBVIOUS
  <2> QED BY <1>4, <1>5, <2>1
<1>7. Def(Colons(s))
  <2> HIDE DEF Def
  <2> QED BY <1>3, <1>6
<1> DEFINE f == Colons(s)
<1>8. f = [k \in Nat |-> IF k = 0 THEN x ELSE Step(f[k - 1])]
  BY <1>7
<1> HIDE DEF f
<1>9. f[0] = x
  BY <1>8
<1>10. ASSUME NEW k \in Nat PROVE f[k + 1] = Step(f[k])
  <2>1. k + 1 \in Nat /\ k + 1 # 0 /\ (k + 1) - 1 = k
    OBVIOUS
  <2>2. f[k + 1] = Step(f[(k + 1) - 1])
    BY <1>8, <2>1
  <2> QED BY <2>1, <2>2
<1> QED BY <1>9, <1>10 DEF f, x, Step

LEMMA ColonHere ==
  ASSUME NEW s \in Seq(STRING), NEW p \in 1..Len(s), s[p] = Colon
  PROVE  ColonFrom(s, p) = p
<1> DEFINE q == ColonFrom(s, p)
<1>1. p \in Nat \ {0} /\ p \in p..Len(s) /\ Len(s) \in Nat
  OBVIOUS
<1>2. /\ q \in 1..(Len(s) + 1) /\ (q <= Len(s) => p <= q)
      /\ \A i \in p..Len(s) : s[i] = Colon => q <= i
  BY <1>1, ColonFromIs
<1> HIDE DEF q
<1>3. q = p
  BY <1>1, <1>2
<1> QED BY <1>3 DEF q

LEMMA NoColon ==
  ASSUME NEW s \in Seq(STRING), NEW p \in Nat \ {0}, \A i \in p..Len(s) : s[i] # Colon
  PROVE  ColonFrom(s, p) = Len(s) + 1
<1> DEFINE q == ColonFrom(s, p)
<1>1. Len(s) \in Nat
  OBVIOUS
<1>2. q \in 1..(Len(s) + 1) /\ (q <= Len(s) => p <= q /\ s[q] = Colon)
  BY ColonFromIs
<1> HIDE DEF q
<1>3. q = Len(s) + 1
  BY <1>1, <1>2
<1> QED BY <1>3 DEF q

(* The colons that the code takes for the beginning of a name are those of   *)
(* the parameters.                                                           *)
LEMMA ColonsAre ==
  ASSUME NEW s, NEW a, NEW b, Shape(s, a, b), NEW j \in Nat
  PROVE  Colons(s)[j] = IF a + j <= b THEN SlashNo(s)[a + j] + 1 ELSE Len(s) + 1
<1> DEFINE Is(n) == Colons(s)[n] = IF a + n <= b THEN SlashNo(s)[a + n] + 1 ELSE Len(s) + 1
           T == {n \in Nat : Is(n)}
<1>0. /\ s \in Seq(STRING) /\ Len(s) \in Nat \ {0} /\ b \in Nat /\ a \in 2..b
      /\ s \in Path /\ a \in Nat
  BY DEF Shape, Path
<1>1. Binds(s) = {SlashNo(s)[k] : k \in a..b}
  BY DEF Shape
<1>2. \A k \in a..b : SlashNo(s)[k] \in 3..Len(s) /\ SlashNo(s)[k + 1] \in 3..(Len(s) + 1)
                      /\ s[SlashNo(s)[k] + 1] = Colon /\ SlashNo(s)[k] + 2 < SlashNo(s)[k + 1]
  BY DEF Shape
<1>3. a \in a..b
  BY <1>0
<1>4. Binds(s) # {}
  BY <1>1, <1>3
<1>5. Min(Binds(s)) = SlashNo(s)[a]
  <2> DEFINE m == Min(Binds(s))
             c == SlashNo(s)[a]
  <2>1. Binds(s) \subseteq Nat /\ c \in Binds(s) /\ c \in Nat
    BY <1>0, <1>1, <1>2, <1>3
  <2>2. m \in Binds(s) /\ \A i \in Binds(s) : m <= i
    BY <2>1, MinOf
  <2>3. PICK k \in a..b : m = SlashNo(s)[k]
    BY <1>1, <2>2
  <2>4. c <= m
    BY <1>0, <2>3, SlashMonotone
  <2> HIDE DEF m, c
  <2>5. m = c
    BY <2>1, <2>2, <2>4
  <2> QED BY <2>5 DEF m, c
<1>6. 0 \in T
  <2>1. Colons(s)[0] = SlashNo(s)[a] + 1
    BY <1>0, <1>4, <1>5, ColonsIs
  <2>2. a + 0 = a /\ a <= b
    BY <1>0
  <2> QED BY <2>1, <2>2
<1>7. ASSUME NEW n \in Nat, n \in T PROVE n + 1 \in T
  <2> DEFINE k == a + n
  <2>0. k \in Nat /\ a + (n + 1) = k + 1 /\ n + 1 \in Nat /\ a <= k
    BY <1>0
  <2>1. Colons(s)[n] = IF k <= b THEN SlashNo(s)[k] + 1 ELSE Len(s) + 1
    BY <1>7
  <2>2. Colons(s)[n + 1] = ColonFrom(s, KeyEnd(s, Colons(s)[n] + 1) + 1)
    BY <1>0, <1>4, ColonsIs
  <2> HIDE DEF k
  <2>3. CASE k <= b
    <3>1. k \in a..b
      BY <1>0, <2>0, <2>3
    <3> DEFINE c == SlashNo(s)[k]
               e == SlashNo(s)[k + 1]
    <3>2. c \in Nat /\ e \in 3..(Len(s) + 1)
      BY <1>2, <3>1
    <3>3. KeyEnd(s, c + 2) = e
      BY <3>1, KeyEndIs
    <3>4. Colons(s)[n] = c + 1
      BY <2>1, <2>3
    <3> HIDE DEF c, e
    <3>5. (c + 1) + 1 = c + 2
      BY <3>2
    <3>6. Colons(s)[n + 1] = ColonFrom(s, e + 1)
      BY <2>2, <3>3, <3>4, <3>5
    <3>7. CASE k + 1 <= b
      <4>1. k + 1 \in a..b
        BY <1>0, <2>0, <3>7
      <4>2. e \in 3..Len(s) /\ s[e + 1] = Colon /\ e + 2 < SlashNo(s)[(k + 1) + 1]
            /\ SlashNo(s)[(k + 1) + 1] \in 3..(Len(s) + 1)
        BY <1>2, <4>1 DEF e
      <4>3. e + 1 \in 1..Len(s)
        BY <1>0, <4>2
      <4>4. ColonFrom(s, e + 1) = e + 1
        BY <1>0, <4>2, <4>3, ColonHere
      <4>5. Is(n + 1)
        BY <2>0, <3>6, <3>7, <4>4 DEF e
      <4> QED BY <4>5
    <3>8. CASE ~(k + 1 <= b)
      <4>1. k = b
        BY <1>0, <2>0, <2>3, <3>8
      <4>2. \A i \in e..Len(s) : s[i] # Colon
        BY <4>1 DEF Shape, e
      <4>3. \A i \in (e + 1)..Len(s) : s[i] # Colon
        BY <3>2, <4>2
      <4>4. ColonFrom(s, e + 1) = Len(s) + 1
        BY <1>0, <3>2, <4>3, NoColon
      <4>5. Is(n + 1)
        BY <2>0, <3>6, <3>8, <4>4
      <4> QED BY <4>5
    <3> QED BY <3>7, <3>8
  <2>4. CASE ~(k <= b)
    <3> DEFINE p == (Len(s) + 1) + 1
               q == KeyEnd(s, p)
    <3>1. Colons(s)[n] = Len(s) + 1
      BY <2>1, <2>4
    <3>2. Colons(s)[n + 1] = ColonFrom(s, q + 1)
      BY <2>2, <3>1
    <3>3. p \in Nat \ {0}
      BY <1>0
    <3>4. q = Len(s) \/ q = SlashFrom(s, p)
      <4>1. {i \in Binds(s) : i >= p} = {}
        BY <1>0, <1>1, <1>2
      <4> QED BY <4>1 DEF KeyEnd
    <3>5. SlashFrom(s, p) \in 1..(Len(s) + 1) /\ (SlashFrom(s, p) <= Len(s) => p <= SlashFrom(s, p))
      BY <1>0, <3>3, SlashFromIs
    <3> HIDE DEF q
    <3>6. q \in Nat /\ q + 1 \in Nat \ {0} /\ q >= Len(s)
      BY <1>0, <3>4, <3>5
    <3>7. ColonFrom(s, q + 1) = Len(s) + 1
      <4>1. \A i \in (q + 1)..Len(s) : s[i] # Colon
        BY <1>0, <3>6
      <4> QED BY <1>0, <3>6, <4>1, NoColon
    <3>8. Is(n + 1)
      <4>1. ~(k + 1 <= b)
        BY <1>0, <2>0, <2>4
      <4> QED BY <2>0, <3>2, <3>7, <4>1
    <3> QED BY <2>0, <3>8
  <2> QED BY <2>3, <2>4
<1>8. Nat \subseteq T
  <2> HIDE DEF T
  <2> QED BY <1>6, <1>7, SetInduction
<1> QED BY <1>8

(* So the names are those of the parameters.                                 *)
LEMMA NamesAre ==
  ASSUME NEW s, NEW a, NEW b, Shape(s, a, b)
  PROVE  /\ Names(s) \in Seq(Seq(STRING)) /\ Len(Names(s)) = b + 1 - a
         /\ \A j \in 1..(b + 1 - a) :
              Names(s)[j] = SubSeq(s, SlashNo(s)[a + j - 1] + 2, SlashNo(s)[a + j] - 1)
<1> DEFINE found == {k \in 1..Len(s) : Colons(s)[k - 1] <= Len(s)}
           m == b + 1 - a
           name == [k \in 1..Cardinality(found) |->
                     SubSeq(s, Colons(s)[k - 1] + 1, KeyEnd(s, Colons(s)[k - 1] + 1) - 1)]
<1>0. /\ s \in Seq(STRING) /\ Len(s) \in Nat \ {0} /\ b \in Nat /\ a \in 2..b
      /\ s \in Path /\ a \in Nat /\ m \in Nat
  BY DEF Shape, Path
<1>1. \A k \in a..b : SlashNo(s)[k] \in 3..Len(s) /\ SlashNo(s)[k + 1] \in 3..(Len(s) + 1)
                      /\ SlashNo(s)[k] + 2 < SlashNo(s)[k + 1]
  BY DEF Shape
<1>2. b <= Len(s)
  <2>1. SlashNo(s)[b] \in 3..Len(s)
    BY <1>0, <1>1
  <2>2. b <= SlashNo(s)[b]
    BY <1>0, <2>1, SlashBehind
  <2> QED BY <1>0, <2>1, <2>2
<1>3. ASSUME NEW k \in 1..Len(s) PROVE Colons(s)[k - 1] <= Len(s) <=> k \in 1..m
  <2> DEFINE j == k - 1
  <2>1. j \in Nat
    BY <1>0
  <2> HIDE DEF j
  <2>2. Colons(s)[j] = IF a + j <= b THEN SlashNo(s)[a + j] + 1 ELSE Len(s) + 1
    BY <2>1, ColonsAre
  <2>3. ASSUME a + j <= b PROVE Colons(s)[j] <= Len(s)
    <3> DEFINE i == a + j
    <3>1. i \in a..b
      BY <1>0, <2>1, <2>3
    <3> HIDE DEF i
    <3>2. SlashNo(s)[i] \in 3..Len(s) /\ SlashNo(s)[i + 1] \in 3..(Len(s) + 1)
          /\ SlashNo(s)[i] + 2 < SlashNo(s)[i + 1]
      BY <1>1, <3>1
    <3>3. SlashNo(s)[i] + 1 <= Len(s)
      BY <1>0, <3>2
    <3> QED BY <2>2, <2>3, <3>3 DEF i
  <2>4. ASSUME ~(a + j <= b) PROVE ~(Colons(s)[j] <= Len(s))
    BY <1>0, <2>2, <2>4
  <2>5. a + j <= b <=> k \in 1..m
    BY <1>0, <2>1 DEF j
  <2> QED BY <2>3, <2>4, <2>5 DEF j
<1>4. found = 1..m
  <2>1. 1..m \subseteq 1..Len(s)
    BY <1>0, <1>2
  <2> HIDE DEF m
  <2> QED BY <1>3, <2>1
<1>5. Cardinality(found) = m
  <2>1. m \in Int /\ 1 \in Int /\ ~(1 > m) /\ m - 1 + 1 = m
    BY <1>0
  <2> HIDE DEF m
  <2>2. Cardinality(1..m) = m
    BY <2>1, FS_Interval
  <2> QED BY <1>4, <2>2
<1>6. Binds(s) # {}
  <2>1. a \in a..b /\ Binds(s) = {SlashNo(s)[k] : k \in a..b}
    BY <1>0 DEF Shape
  <2> QED BY <2>1
<1>7. Names(s) = name
  BY <1>6 DEF Names, Key
<1>8. ASSUME NEW j \in 1..m
      PROVE  /\ name[j] = SubSeq(s, SlashNo(s)[a + j - 1] + 2, SlashNo(s)[a + j] - 1)
             /\ name[j] \in Seq(STRING)
  <2> DEFINE i == j - 1
             k == a + i
             c == SlashNo(s)[k]
             e == SlashNo(s)[k + 1]
  <2>1. i \in Nat /\ a + i <= b /\ k \in a..b /\ k = a + j - 1 /\ k + 1 = a + j
    BY <1>0
  <2>2. name[j] = SubSeq(s, Colons(s)[i] + 1, KeyEnd(s, Colons(s)[i] + 1) - 1)
    BY <1>5
  <2> HIDE DEF name, m, i
  <2>3. Colons(s)[i] = c + 1
    BY <2>1, ColonsAre
  <2>4. KeyEnd(s, c + 2) = e
    BY <2>1, KeyEndIs
  <2> HIDE DEF k
  <2>5. c \in 3..Len(s) /\ e \in 3..(Len(s) + 1) /\ c + 2 < e
    BY <1>1, <2>1
  <2> HIDE DEF c, e
  <2>6. (c + 1) + 1 = c + 2
    BY <2>5
  <2>7. name[j] = SubSeq(s, c + 2, e - 1)
    BY <2>2, <2>3, <2>4, <2>6
  <2>8. SubSeq(s, c + 2, e - 1) \in Seq(STRING)
    <3>1. c + 2 \in 1..(Len(s) + 1) /\ e - 1 \in 0..Len(s) /\ c + 2 <= (e - 1) + 1
      BY <1>0, <2>5
    <3> QED BY <1>0, <3>1, Part
  <2> QED BY <2>1, <2>7, <2>8 DEF c, e
<1>9. name \in Seq(Seq(STRING)) /\ Len(name) = m
  <2> HIDE DEF found, m
  <2>1. name \in [1..m -> Seq(STRING)]
    <3>1. \A j \in 1..m : name[j] \in Seq(STRING)
      BY <1>8
    <3>2. name = [k \in 1..m |-> name[k]]
      BY <1>5
    <3> HIDE DEF name
    <3> QED BY <3>1, <3>2
  <2> HIDE DEF name
  <2> QED BY <1>0, <2>1
<1> QED BY <1>7, <1>8, <1>9

(* At which slashes the beginning of a target is compared: not at every one, *)
(* but at those with something else in front.                                *)
LEMMA TriedAre ==
  ASSUME NEW t \in Seq(STRING)
  PROVE  /\ Tried(t) \subseteq {i \in 1..Len(t) : t[i] = Slash}
         /\ \A i \in 2..Len(t) : t[i] = Slash /\ t[i - 1] # Slash => i \in Tried(t)
<1> DEFINE L == 0..Len(t)
           Step(i, v) == t[i] = Slash /\ ~v
           Def(f) == f = [i \in L |-> IF i = 0 THEN FALSE ELSE Step(i, f[i - 1])]
           F == [z \in Nat \X BOOLEAN |-> Step(z[1] + 1, z[2])]
           f == CHOOSE f : Def(f)
<1>0. Len(t) \in Nat
  OBVIOUS
<1>1. Tried(t) = {i \in 1..Len(t) : f[i]}
  BY DEF Tried
<1>2. PICK g : g[0] = FALSE /\ \A k \in Nat : g[k + 1] = F[<<k, g[k]>>] /\ g[k] \in BOOLEAN
  <2>1. F \in [Nat \X BOOLEAN -> BOOLEAN]
    OBVIOUS
  <2>2. \E h : Iterates(h, BOOLEAN, FALSE, F)
    <3> HIDE DEF F
    <3> QED BY <2>1, Iteration
  <2> QED BY <2>2 DEF Iterates
<1>3. ASSUME NEW k \in Nat PROVE g[k + 1] = Step(k + 1, g[k])
  <2>1. g[k + 1] = F[<<k, g[k]>>] /\ g[k] \in BOOLEAN
    BY <1>2
  <2>2. F[<<k, g[k]>>] = Step(k + 1, g[k])
    BY <2>1
  <2> QED BY <2>1, <2>2
<1> HIDE DEF Step
<1>4. Def([i \in L |-> g[i]])
  <2> DEFINE h == [i \in L |-> g[i]]
  <2>1. ASSUME NEW i \in L PROVE h[i] = IF i = 0 THEN FALSE ELSE Step(i, h[i - 1])
    <3>1. CASE i = 0
      BY <1>0, <1>2, <3>1
    <3>2. CASE i # 0
      <4> DEFINE j == i - 1
      <4>1. j \in Nat /\ j \in L /\ j + 1 = i
        BY <1>0, <3>2
      <4> HIDE DEF j
      <4>2. g[j + 1] = Step(j + 1, g[j])
        BY <1>3, <4>1
      <4>3. h[i] = g[i] /\ h[j] = g[j]
        BY <4>1
      <4> HIDE DEF h
      <4>4. h[i] = Step(i, h[j])
        BY <4>1, <4>2, <4>3
      <4> QED BY <3>2, <4>4 DEF j
    <3> QED BY <3>1, <3>2
  <2>2. h = [i \in L |-> h[i]]
    OBVIOUS
  <2> HIDE DEF h, L
  <2>3. Def(h)
    BY <2>1, <2>2
  <2> HIDE DEF Def
  <2> QED BY <2>3 DEF h
<1>5. Def(f)
  <2> HIDE DEF Def
  <2> QED BY <1>4
<1> HIDE DEF f
<1>6. ASSUME NEW i \in 1..Len(t) PROVE f[i] = Step(i, f[i - 1])
  <2>1. i \in L /\ i # 0
    BY <1>0
  <2> HIDE DEF L
  <2> QED BY <1>5, <2>1
<1>7. ASSUME NEW i \in 1..Len(t), f[i] PROVE t[i] = Slash
  BY <1>6, <1>7 DEF Step
<1>8. ASSUME NEW i \in 2..Len(t), t[i] = Slash, t[i - 1] # Slash PROVE f[i]
  <2>1. i \in 1..Len(t) /\ i - 1 \in 1..Len(t)
    BY <1>0
  <2>2. ~f[i - 1]
    BY <1>7, <1>8, <2>1
  <2>3. f[i] = Step(i, f[i - 1])
    BY <1>6, <2>1
  <2> QED BY <1>8, <2>2, <2>3 DEF Step
<1>9. \A i \in 2..Len(t) : i \in 1..Len(t)
  BY <1>0
<1> QED BY <1>1, <1>7, <1>8, <1>9

LEMMA UriTargetIs ==
  ASSUME NEW s, NEW a, NEW b, Shape(s, a, b)
  PROVE  UriTarget(s) = SubSeq(s, 1, SlashNo(s)[a] - 1)
<1> DEFINE c == SlashNo(s)[a]
           m == Min(Binds(s))
<1>0. s \in Seq(STRING) /\ b \in Nat /\ a \in 2..b
  BY DEF Shape, Path
<1>1. /\ a \in a..b /\ Binds(s) = {SlashNo(s)[k] : k \in a..b}
      /\ \A k \in a..b : SlashNo(s)[k] \in 3..Len(s)
  BY <1>0 DEF Shape
<1>2. Binds(s) \subseteq Nat /\ c \in Binds(s) /\ c \in Nat /\ Binds(s) # {}
  BY <1>0, <1>1
<1>3. m \in Binds(s) /\ \A i \in Binds(s) : m <= i
  BY <1>2, MinOf
<1>4. PICK k \in a..b : m = SlashNo(s)[k]
  BY <1>1, <1>3
<1>5. c <= m
  BY <1>0, <1>4, SlashMonotone
<1>6. UriTarget(s) = SubSeq(s, 1, m - 1)
  BY <1>2 DEF UriTarget
<1> HIDE DEF m, c
<1>7. m = c
  BY <1>2, <1>3, <1>5
<1> QED BY <1>6, <1>7 DEF c

(* The values of a target start behind the slash of the first parameter, if  *)
(* it begins with the path up to there.                                      *)
LEMMA ValuesAtIs ==
  ASSUME NEW s, NEW a, NEW b, Shape(s, a, b), NEW t \in Seq(STRING)
  PROVE  /\ Begins(s, t, a) => ValuesAt(s, t) = SlashNo(s)[a] + 1
         /\ ~Begins(s, t, a) => ValuesAt(s, t) = 0
<1> DEFINE c == SlashNo(s)[a]
           uri == SubSeq(s, 1, c - 1)
           found == {i \in Tried(t) : SubSeq(t, 1, i - 1) = uri}
<1>0. s \in Seq(STRING) /\ b \in Nat /\ a \in 2..b /\ Len(s) \in Nat /\ Len(t) \in Nat
  BY DEF Shape, Path
<1>1. c \in 3..Len(s) /\ s[c - 1] # Slash
  BY <1>0 DEF Shape
<1>2. ValuesAt(s, t) = IF found = {} THEN 0 ELSE Min(found) + 1
  BY UriTargetIs DEF ValuesAt
<1>3. Begins(s, t, a) <=> c <= Len(t) /\ SubSeq(t, 1, c - 1) = uri /\ t[c] = Slash
  BY DEF Begins
<1> HIDE DEF c
<1>4. /\ Tried(t) \subseteq {i \in 1..Len(t) : t[i] = Slash}
      /\ \A i \in 2..Len(t) : t[i] = Slash /\ t[i - 1] # Slash => i \in Tried(t)
  BY TriedAre
<1>5. Len(uri) = c - 1 /\ uri[c - 1] = s[c - 1]
  <2>1. 1 \in 1..(Len(s) + 1) /\ c - 1 \in 0..Len(s) /\ 1 <= (c - 1) + 1
        /\ c - 1 \in 1..((c - 1) + 1 - 1) /\ (c - 1) + 1 - 1 = c - 1 /\ 1 + (c - 1) - 1 = c - 1
    BY <1>0, <1>1
  <2> QED BY <1>0, <2>1, Part
<1>6. ASSUME NEW i \in found PROVE i = c /\ Begins(s, t, a)
  <2>1. i \in 1..Len(t) /\ t[i] = Slash /\ SubSeq(t, 1, i - 1) = uri
    BY <1>4
  <2>2. Len(SubSeq(t, 1, i - 1)) = i - 1
    <3>1. 1 \in 1..(Len(t) + 1) /\ i - 1 \in 0..Len(t) /\ 1 <= (i - 1) + 1
          /\ (i - 1) + 1 - 1 = i - 1
      BY <1>0, <2>1
    <3> QED BY <3>1, Part
  <2>3. i = c
    <3> HIDE DEF uri
    <3> QED BY <1>0, <1>1, <1>5, <2>1, <2>2
  <2> QED BY <1>0, <1>3, <2>1, <2>3
<1>7. ASSUME Begins(s, t, a) PROVE c \in found
  <2>1. c <= Len(t) /\ SubSeq(t, 1, c - 1) = uri /\ t[c] = Slash
    BY <1>3, <1>7
  <2>2. t[c - 1] = s[c - 1]
    <3>1. 1 \in 1..(Len(t) + 1) /\ c - 1 \in 0..Len(t) /\ 1 <= (c - 1) + 1
          /\ c - 1 \in 1..((c - 1) + 1 - 1) /\ (c - 1) + 1 - 1 = c - 1 /\ 1 + (c - 1) - 1 = c - 1
      BY <1>0, <1>1, <2>1
    <3>2. SubSeq(t, 1, c - 1)[c - 1] = t[c - 1]
      BY <3>1, Part
    <3> QED BY <1>5, <2>1, <3>2
  <2>3. c \in 2..Len(t)
    BY <1>0, <1>1, <2>1
  <2>4. c \in Tried(t)
    BY <1>1, <1>4, <2>1, <2>2, <2>3
  <2> QED BY <2>1, <2>4
<1> HIDE DEF found
<1>8. ASSUME Begins(s, t, a) PROVE ValuesAt(s, t) = c + 1
  <2>1. c \in found /\ found = {c} /\ c \in Nat
    BY <1>1, <1>6, <1>7, <1>8
  <2>2. Min(found) = c
    BY <2>1, MinOf
  <2> QED BY <1>2, <2>1, <2>2
<1>9. ASSUME ~Begins(s, t, a) PROVE ValuesAt(s, t) = 0
  BY <1>2, <1>6, <1>9
<1> QED BY <1>8, <1>9 DEF c

(* The search for the end of a value finds the slash that ends the segment.  *)
LEMMA ValueStep ==
  ASSUME NEW t \in Seq(STRING), NEW k \in Nat \ {0},
         NEW start, start = IF SlashNo(t)[k] > Len(t) THEN Len(t) + 1 ELSE SlashNo(t)[k] + 1
  PROVE  /\ SlashFrom(t, start) = SlashNo(t)[k + 1]
         /\ SubSeq(t, start, SlashNo(t)[k + 1] - 1) = Segment(t, k)
<1> DEFINE q == SlashNo(t)[k]
           r == SlashNo(t)[k + 1]
<1>0. Len(t) \in Nat /\ k \in Nat
  OBVIOUS
<1>1. q \in 1..(Len(t) + 1)
  BY SlashAt
<1>2. r = SlashFrom(t, q + 1) /\ (q = Len(t) + 1 => r = Len(t) + 1)
  BY <1>0, SlashNext
<1>3. Segment(t, k) = SubSeq(t, q + 1, r - 1) /\ (q > Len(t) => Segment(t, k) = <<>>)
  BY <1>0, SegmentIs DEF Segment
<1> HIDE DEF q, r
<1>4. CASE q > Len(t)
  <2>1. start = Len(t) + 1 /\ r = Len(t) + 1 /\ Segment(t, k) = <<>>
    BY <1>0, <1>1, <1>2, <1>3, <1>4 DEF q
  <2>2. SlashFrom(t, Len(t) + 1) = Len(t) + 1
    <3>1. Len(t) + 1 \in Nat \ {0} /\ Len(t) + 1 \in (Len(t) + 1)..(Len(t) + 1)
          /\ \A i \in (Len(t) + 1)..((Len(t) + 1) - 1) : t[i] # Slash
      BY <1>0
    <3> QED BY <3>1, SlashFromAt
  <2>3. SubSeq(t, Len(t) + 1, (Len(t) + 1) - 1) = <<>>
    BY <1>0
  <2> QED BY <2>1, <2>2, <2>3 DEF r
<1>5. CASE ~(q > Len(t))
  <2>1. start = q + 1
    BY <1>5 DEF q
  <2> QED BY <1>2, <1>3, <2>1 DEF r
<1> QED BY <1>4, <1>5

(* So the values are the segments of the target from the first parameter on. *)
LEMMA ValuesAre ==
  ASSUME NEW s, NEW a, NEW b, Shape(s, a, b), NEW t \in Path, Begins(s, t, a),
         NEW j \in 1..(b + 1 - a)
  PROVE  Value(s, t, j) = Segment(t, a + j - 1)
<1> DEFINE m == b + 1 - a
           q(k) == SlashNo(t)[a + k - 1]
           Start(k) == IF q(k) > Len(t) THEN Len(t) + 1 ELSE q(k) + 1
           x == ValuesAt(s, t)
           Step(i) == IF SlashFrom(t, i) > Len(t) THEN SlashFrom(t, i) ELSE SlashFrom(t, i) + 1
           D == 1..(m + 1)
           Def(f) == f = [k \in D |-> IF k = 1 THEN x ELSE Step(f[k - 1])]
           f == ValueStarts(s, t)
           g == [k \in D |-> Start(k)]
<1>0. /\ s \in Seq(STRING) /\ t \in Seq(STRING) /\ Len(s) \in Nat \ {0} /\ Len(t) \in Nat \ {0}
      /\ b \in Nat /\ a \in 2..b /\ a \in Nat /\ m \in Nat \ {0} /\ s \in Path
  BY DEF Shape, Path
<1>1. m = Len(Names(s))
  BY NamesAre
<1>2. f = CHOOSE h : Def(h)
  BY <1>1 DEF ValueStarts
<1>3. x = Start(1)
  <2>1. SlashNo(s)[a] <= Len(s) /\ SlashNo(s)[a] \in 3..Len(s)
    BY <1>0 DEF Shape
  <2>2. SlashNo(t)[a] = SlashNo(s)[a] /\ SlashNo(t)[a] <= Len(t)
    BY <1>0, <2>1, BeginsToSegments
  <2>3. x = SlashNo(s)[a] + 1
    BY <1>0, ValuesAtIs
  <2>4. a + 1 - 1 = a
    BY <1>0
  <2>5. ~(SlashNo(t)[a] > Len(t))
    BY <1>0, <2>1, <2>2
  <2> HIDE DEF x
  <2> QED BY <2>2, <2>3, <2>4, <2>5
<1>4. ASSUME NEW k \in 1..m
      PROVE  /\ SlashFrom(t, Start(k)) = SlashNo(t)[a + k] /\ Step(Start(k)) = Start(k + 1)
             /\ SubSeq(t, Start(k), SlashNo(t)[a + k] - 1) = Segment(t, a + k - 1)
  <2> DEFINE i == a + k - 1
             start == IF SlashNo(t)[i] > Len(t) THEN Len(t) + 1 ELSE SlashNo(t)[i] + 1
  <2>1. i \in Nat \ {0} /\ i + 1 = a + k /\ a + (k + 1) - 1 = a + k
    BY <1>0
  <2>2. Start(k) = start
    OBVIOUS
  <2> HIDE DEF i, Start
  <2>3. /\ SlashFrom(t, start) = SlashNo(t)[i + 1]
        /\ SubSeq(t, start, SlashNo(t)[i + 1] - 1) = Segment(t, i)
    BY <1>0, <2>1, ValueStep
  <2>4. SlashNo(t)[a + k] \in 1..(Len(t) + 1)
    <3>1. SlashNo(t)[i + 1] \in 1..(Len(t) + 1)
      BY <1>0, <2>1, SlashNext
    <3> QED BY <2>1, <3>1
  <2>5. SlashFrom(t, Start(k)) = SlashNo(t)[a + k]
    BY <2>1, <2>2, <2>3
  <2>6. Start(k + 1) = IF SlashNo(t)[a + k] > Len(t) THEN Len(t) + 1 ELSE SlashNo(t)[a + k] + 1
    BY <2>1 DEF Start
  <2>7. Step(Start(k)) = Start(k + 1)
    <3> DEFINE e == SlashNo(t)[a + k]
    <3>1. Step(Start(k)) = IF e > Len(t) THEN e ELSE e + 1
      BY <2>5
    <3> HIDE DEF e
    <3>2. e > Len(t) => e = Len(t) + 1
      BY <1>0, <2>4 DEF e
    <3> QED BY <2>6, <3>1, <3>2 DEF e
  <2> QED BY <2>1, <2>2, <2>3, <2>5, <2>7 DEF i
<1> HIDE DEF Start, Step, x
<1>5. ASSUME NEW k \in D, k # 1 PROVE k - 1 \in D /\ k - 1 \in 1..m /\ (k - 1) + 1 = k
  BY <1>0, <1>5
<1>6. 1 \in D
  BY <1>0
<1>7. ASSUME NEW k \in 1..m PROVE k \in D /\ k + 1 \in D /\ k + 1 # 1 /\ (k + 1) - 1 = k
  BY <1>0
<1> HIDE DEF D
<1>8. Def(g)
  <2>1. ASSUME NEW k \in D PROVE g[k] = IF k = 1 THEN x ELSE Step(g[k - 1])
    <3>1. CASE k = 1
      BY <1>3, <3>1
    <3>2. CASE k # 1
      <4> DEFINE i == k - 1
      <4>1. i \in D /\ i \in 1..m /\ i + 1 = k
        BY <1>5, <3>2
      <4> HIDE DEF i, m
      <4>2. Step(Start(i)) = Start(i + 1)
        BY <1>4, <4>1
      <4>3. g[k] = Step(g[i])
        BY <4>1, <4>2
      <4> QED BY <3>2, <4>3 DEF i
    <3> QED BY <3>1, <3>2
  <2> QED BY <2>1
<1>9. Def(f)
  <2> HIDE DEF Def, f
  <2> QED BY <1>2, <1>8
<1> HIDE DEF f, g
<1>10. f[1] = Start(1)
  BY <1>3, <1>6, <1>9
<1>11. ASSUME NEW k \in 1..m PROVE f[k + 1] = Step(f[k])
  <2>1. f[k + 1] = Step(f[(k + 1) - 1])
    BY <1>7, <1>9
  <2> QED BY <1>7, <2>1
<1>12. \A n \in Nat : n + 1 <= m => f[n + 1] = Start(n + 1)
  <2> DEFINE T == {n \in Nat : n + 1 <= m => f[n + 1] = Start(n + 1)}
  <2>1. 0 \in T
    BY <1>10
  <2>2. ASSUME NEW n \in Nat, n \in T PROVE n + 1 \in T
    <3> SUFFICES ASSUME (n + 1) + 1 <= m PROVE f[(n + 1) + 1] = Start((n + 1) + 1)
      OBVIOUS
    <3> DEFINE k == n + 1
    <3>1. k \in 1..m /\ k <= m
      BY <1>0
    <3>2. f[k] = Start(k)
      BY <2>2, <3>1
    <3> HIDE DEF k, m
    <3>3. f[k + 1] = Start(k + 1)
      BY <1>4, <1>11, <3>1, <3>2
    <3> QED BY <3>3 DEF k
  <2>3. Nat \subseteq T
    <3> HIDE DEF T
    <3> QED BY <2>1, <2>2, SetInduction
  <2> QED BY <2>3
<1>13. f[j] = Start(j)
  <2> DEFINE n == j - 1
  <2>1. n \in Nat /\ n + 1 = j /\ j <= m
    BY <1>0
  <2> HIDE DEF n
  <2> QED BY <1>12, <2>1
<1>14. Value(s, t, j) = SubSeq(t, f[j], SlashFrom(t, f[j]) - 1)
  BY DEF Value, UpToSlash, f
<1> QED BY <1>4, <1>13, <1>14

(* A word is at a place if its tokens are.                                   *)
LEMMA WordAt ==
  ASSUME NEW s \in Seq(STRING), NEW word \in Seq(STRING), NEW i \in Nat \ {0},
         i + Len(word) <= Len(s) + 1
  PROVE  SubSeq(s, i, i + Len(word) - 1) = word
           <=> \A l \in 1..Len(word) : s[i + l - 1] = word[l]
<1> DEFINE n == Len(word)
           e == i + n - 1
           part == SubSeq(s, i, e)
<1>0. Len(s) \in Nat /\ n \in Nat
  OBVIOUS
<1>1. i \in 1..(Len(s) + 1) /\ e \in 0..Len(s) /\ i <= e + 1 /\ e + 1 - i = n
  BY <1>0
<1>2. /\ part \in Seq(STRING) /\ Len(part) = e + 1 - i
      /\ \A l \in 1..(e + 1 - i) : part[l] = s[i + l - 1]
  <2> HIDE DEF e, n
  <2> QED BY <1>1, Part
<1> HIDE DEF part, e
<1>3. part \in Seq(STRING) /\ Len(part) = n /\ \A l \in 1..n : part[l] = s[i + l - 1]
  BY <1>1, <1>2
<1>4. ASSUME \A l \in 1..n : s[i + l - 1] = word[l] PROVE part = word
  BY <1>3, <1>4, SameSequence
<1> QED BY <1>3, <1>4 DEF part, e

(* find() returns the first place.                                           *)
LEMMA FindFirst ==
  ASSUME NEW s \in Seq(STRING), NEW word \in Seq(STRING), NEW p \in Nat \ {0},
         p + Len(word) <= Len(s) + 1, SubSeq(s, p, p + Len(word) - 1) = word,
         \A i \in 1..(p - 1) : SubSeq(s, i, i + Len(word) - 1) # word
  PROVE  Find(s, word) = p
<1> DEFINE n == Len(word)
           found == {i \in 1..(Len(s) - n + 1) : SubSeq(s, i, i + n - 1) = word}
           m == Min(found)
<1>0. Len(s) \in Nat /\ n \in Nat
  OBVIOUS
<1>1. p \in found /\ found \subseteq Nat \ {0}
  BY <1>0
<1>2. m \in found /\ m <= p
  <2> HIDE DEF found
  <2> QED BY <1>1, MinOf
<1>3. m \in Nat \ {0} /\ SubSeq(s, m, m + n - 1) = word
  BY <1>1, <1>2
<1> HIDE DEF m
<1>4. m \notin 1..(p - 1)
  BY <1>3
<1>5. m = p
  BY <1>2, <1>3, <1>4
<1>6. Find(s, word) = IF found = {} THEN 0 ELSE Min(found)
  BY DEF Find
<1> HIDE DEF found
<1> QED BY <1>1, <1>5, <1>6 DEF m

LEMMA Absent ==
  ASSUME NEW s \in Seq(STRING), NEW word \in Seq(STRING), Find(s, word) = 0,
         NEW i \in Nat \ {0}, i + Len(word) <= Len(s) + 1
  PROVE  SubSeq(s, i, i + Len(word) - 1) # word
<1> DEFINE n == Len(word)
           found == {j \in 1..(Len(s) - n + 1) : SubSeq(s, j, j + n - 1) = word}
<1>0. Len(s) \in Nat /\ n \in Nat
  OBVIOUS
<1>1. Find(s, word) = IF found = {} THEN 0 ELSE Min(found)
  BY DEF Find
<1>2. found \subseteq Nat \ {0}
  OBVIOUS
<1>3. found # {} => Min(found) \in found
  <2> HIDE DEF found
  <2> QED BY <1>2, MinOf
<1>4. found = {}
  <2> HIDE DEF found
  <2> QED BY <1>1, <1>2, <1>3
<1>5. i \in 1..(Len(s) - n + 1)
  BY <1>0
<1> QED BY <1>4, <1>5

LEMMA FindType ==
  ASSUME NEW s \in Seq(STRING), NEW word \in Seq(STRING)
  PROVE  /\ Find(s, word) \in Nat
         /\ Find(s, word) # 0 => Find(s, word) + Len(word) <= Len(s) + 1
<1> DEFINE n == Len(word)
           found == {j \in 1..(Len(s) - n + 1) : SubSeq(s, j, j + n - 1) = word}
<1>0. Len(s) \in Nat /\ n \in Nat
  OBVIOUS
<1>1. Find(s, word) = IF found = {} THEN 0 ELSE Min(found)
  BY DEF Find
<1>2. found \subseteq Nat
  OBVIOUS
<1>3. found # {} => Min(found) \in found
  <2> HIDE DEF found
  <2> QED BY <1>2, MinOf
<1>4. \A j \in found : j \in Nat /\ j + n <= Len(s) + 1
  BY <1>0
<1> HIDE DEF found
<1> QED BY <1>1, <1>3, <1>4

(* What replacing makes of a sequence.                                       *)
LEMMA ReplaceIs ==
  ASSUME NEW s \in Seq(STRING), NEW by \in Seq(STRING), NEW p \in Nat \ {0}, NEW q \in Nat,
         p <= q + 1, q <= Len(s)
  PROVE  /\ Replace(s, p, q, by) \in Seq(STRING)
         /\ Len(Replace(s, p, q, by)) = (p - 1) + Len(by) + (Len(s) - q)
         /\ \A i \in 1..(p - 1) : Replace(s, p, q, by)[i] = s[i]
         /\ \A i \in 1..Len(by) : Replace(s, p, q, by)[p - 1 + i] = by[i]
         /\ \A i \in 1..(Len(s) - q) : Replace(s, p, q, by)[p - 1 + Len(by) + i] = s[q + i]
<1> DEFINE one == 1
           head == SubSeq(s, one, p - 1)
           tail == SubSeq(s, q + 1, Len(s))
<1>0. Len(s) \in Nat /\ Len(by) \in Nat
  OBVIOUS
<1>1. head \in Seq(STRING) /\ Len(head) = p - 1 /\ \A i \in 1..(p - 1) : head[i] = s[i]
  <2>1. /\ one \in 1..(Len(s) + 1) /\ p - 1 \in 0..Len(s)
        /\ one <= (p - 1) + 1 /\ (p - 1) + 1 - one = p - 1
        /\ \A i \in 1..(p - 1) : one + i - 1 = i
    BY <1>0
  <2> HIDE DEF one
  <2>2. /\ head \in Seq(STRING) /\ Len(head) = (p - 1) + 1 - one
        /\ \A i \in 1..((p - 1) + 1 - one) : head[i] = s[one + i - 1]
    BY <2>1, Part
  <2> HIDE DEF head
  <2>3. ASSUME NEW i \in 1..(p - 1) PROVE head[i] = s[i]
    BY <2>1, <2>2
  <2> QED BY <2>1, <2>2, <2>3
<1>2. /\ tail \in Seq(STRING) /\ Len(tail) = Len(s) - q
      /\ \A i \in 1..(Len(s) - q) : tail[i] = s[q + i]
  <2>1. q + 1 \in 1..(Len(s) + 1) /\ Len(s) \in 0..Len(s) /\ q + 1 <= Len(s) + 1
        /\ Len(s) + 1 - (q + 1) = Len(s) - q /\ \A i \in 1..(Len(s) - q) : (q + 1) + i - 1 = q + i
    BY <1>0
  <2>2. /\ tail \in Seq(STRING) /\ Len(tail) = Len(s) + 1 - (q + 1)
        /\ \A i \in 1..(Len(s) + 1 - (q + 1)) : tail[i] = s[(q + 1) + i - 1]
    BY <2>1, Part
  <2> HIDE DEF tail
  <2>3. ASSUME NEW i \in 1..(Len(s) - q) PROVE tail[i] = s[q + i]
    <3>1. i \in 1..(Len(s) + 1 - (q + 1)) /\ (q + 1) + i - 1 = q + i
      BY <2>1
    <3> QED BY <2>2, <3>1
  <2> QED BY <2>1, <2>2, <2>3
<1>3. Replace(s, p, q, by) = head \o by \o tail
  BY DEF Replace
<1> HIDE DEF head, tail
<1> DEFINE start == head \o by
<1>4. /\ start \in Seq(STRING) /\ Len(start) = (p - 1) + Len(by)
      /\ \A i \in 1..(p - 1) : start[i] = s[i]
      /\ \A i \in 1..Len(by) : start[p - 1 + i] = by[i]
  <2>1. start \in Seq(STRING) /\ Len(start) = (p - 1) + Len(by)
    <3>1. head \in Seq(STRING) /\ Len(head) = p - 1
      BY <1>1
    <3>2. start \in Seq(STRING)
      BY <3>1
    <3>3. Len(start) = Len(head) + Len(by)
      BY <3>1
    <3> HIDE DEF start
    <3> QED BY <3>1, <3>2, <3>3
  <2>2. ASSUME NEW i \in 1..(p - 1) PROVE start[i] = s[i]
    BY <1>0, <1>1
  <2>3. ASSUME NEW i \in 1..Len(by) PROVE start[p - 1 + i] = by[i]
    <3>1. /\ p - 1 + i \in 1..(Len(head) + Len(by)) /\ p - 1 + i > Len(head)
          /\ (p - 1 + i) - Len(head) = i
      BY <1>0, <1>1
    <3> QED BY <1>0, <1>1, <3>1
  <2> QED BY <2>1, <2>2, <2>3
<1> HIDE DEF start
<1>5. Replace(s, p, q, by) = start \o tail
  BY <1>3 DEF start
<1> DEFINE r == start \o tail
<1>6. r \in Seq(STRING) /\ Len(r) = (p - 1) + Len(by) + (Len(s) - q)
  <2>0. start \in Seq(STRING) /\ tail \in Seq(STRING)
    BY <1>2, <1>4
  <2>1. r \in Seq(STRING)
    BY <2>0
  <2>2. Len(r) = Len(start) + Len(tail)
    BY <2>0
  <2> HIDE DEF r
  <2>3. Len(start) = (p - 1) + Len(by) /\ Len(tail) = Len(s) - q
    BY <1>2, <1>4
  <2> QED BY <2>1, <2>2, <2>3
<1>7. ASSUME NEW i \in 1..Len(start) PROVE r[i] = start[i]
  BY <1>2, <1>4
<1>8. ASSUME NEW i \in 1..(Len(s) - q) PROVE r[p - 1 + Len(by) + i] = s[q + i]
  <2>1. p - 1 + Len(by) + i \in 1..(Len(start) + Len(tail)) /\ p - 1 + Len(by) + i > Len(start)
        /\ (p - 1 + Len(by) + i) - Len(start) = i
    BY <1>0, <1>2, <1>4
  <2> DEFINE z == p - 1 + Len(by) + i
  <2>2. r[z] = tail[i]
    <3>1. start \in Seq(STRING) /\ tail \in Seq(STRING) /\ Len(tail) = Len(s) - q
      BY <1>2, <1>4
    <3>2. z \in 1..(Len(start) + Len(tail)) /\ z > Len(start) /\ z - Len(start) = i
      BY <2>1, <3>1
    <3> HIDE DEF z
    <3> QED BY <3>1, <3>2
  <2> QED BY <1>2, <2>2
<1> HIDE DEF r
<1>9. ASSUME NEW i \in 1..(p - 1) PROVE r[i] = s[i]
  BY <1>0, <1>4, <1>7
<1>10. ASSUME NEW i \in 1..Len(by) PROVE r[p - 1 + i] = by[i]
  <2>1. p - 1 + i \in 1..Len(start)
    BY <1>0, <1>4
  <2> QED BY <1>4, <1>7, <2>1
<1> QED BY <1>5, <1>6, <1>8, <1>9, <1>10 DEF r

(* A path with a text of n tokens in the place of what is before its c-th:   *)
(* the target as far as it goes, and slashes behind its end.                 *)
FilledAt(full, s, t, c, n) ==
  /\ full \in Seq(STRING) /\ n \in Nat \ {0}
  /\ Len(full) = n + (Len(s) + 1 - c)
  /\ \A i \in 1..n : full[i] = IF i <= Len(t) THEN t[i] ELSE Slash
  /\ \A i \in c..Len(s) : full[n + 1 + (i - c)] = s[i]

\* A parameter goes from its slash at c to the next at e, and this is its name.
ParamAt(s, c, e) ==
  /\ c \in Nat \ {0} /\ e \in Nat /\ c + 2 < e /\ e <= Len(s) + 1
  /\ s[c] = Slash /\ s[c + 1] = Colon

NameAt(name, s, c, e) ==
  /\ name \in Seq(STRING) /\ Len(name) = e - c - 2
  /\ \A l \in 1..Len(name) : name[l] = s[c + 1 + l] /\ name[l] \notin {Slash, Colon}

(* The first place of a name is then where the path has it.                  *)
LEMMA FindName ==
  ASSUME NEW s \in Seq(STRING), NEW t \in Seq(STRING), NEW full, NEW n, NEW c, NEW e,
         ParamAt(s, c, e), FilledAt(full, s, t, c, n), NEW name, NameAt(name, s, c, e),
         Find(t, name) = 0
  PROVE  Find(full, name) = n + 3
<1> SUFFICES ASSUME c \in Nat \ {0}, e \in Nat, c + 2 < e, e <= Len(s) + 1,
                    s[c] = Slash, s[c + 1] = Colon,
                    name \in Seq(STRING), Len(name) = e - c - 2,
                    \A l \in 1..Len(name) : name[l] = s[c + 1 + l] /\ name[l] \notin {Slash, Colon}
             PROVE  Find(full, name) = n + 3
  BY DEF ParamAt, NameAt
<1> DEFINE L == Len(name)
           M == Len(full)
<1>0. Len(s) \in Nat /\ Len(t) \in Nat /\ L \in Nat \ {0} /\ L = e - c - 2
  OBVIOUS
<1>1. /\ full \in Seq(STRING) /\ n \in Nat \ {0} /\ M = n + (Len(s) + 1 - c) /\ M \in Nat
      /\ \A i \in 1..n : full[i] = IF i <= Len(t) THEN t[i] ELSE Slash
      /\ \A i \in c..Len(s) : full[n + 1 + (i - c)] = s[i]
  BY DEF FilledAt
<1>2. n + 3 \in Nat \ {0} /\ (n + 3) + L <= M + 1
  BY <1>0, <1>1
<1>3. full[n + 1] = Slash /\ full[n + 2] = Colon
  <2>1. c \in c..Len(s) /\ c + 1 \in c..Len(s) /\ n + 1 + (c - c) = n + 1
        /\ n + 1 + ((c + 1) - c) = n + 2
    BY <1>0, <1>1
  <2> QED BY <1>1, <2>1
<1>4. SubSeq(full, n + 3, (n + 3) + L - 1) = name
  <2>1. ASSUME NEW l \in 1..L PROVE full[(n + 3) + l - 1] = name[l]
    <3> DEFINE i == c + 1 + l
    <3>1. i \in c..Len(s) /\ n + 1 + (i - c) = (n + 3) + l - 1
      BY <1>0, <1>1
    <3>2. name[l] = s[i]
      OBVIOUS
    <3> HIDE DEF i, L
    <3> QED BY <1>1, <3>1, <3>2
  <2> QED BY <1>1, <1>2, <2>1, WordAt
<1>5. ASSUME NEW i \in 1..((n + 3) - 1) PROVE SubSeq(full, i, i + L - 1) # name
  <2> SUFFICES ASSUME SubSeq(full, i, i + L - 1) = name PROVE FALSE
    OBVIOUS
  <2>1. i \in Nat \ {0} /\ i <= n + 2 /\ i + L <= M + 1
    <3>1. n \in Nat /\ L \in Nat /\ M \in Nat
      BY <1>0, <1>1
    <3> HIDE DEF L, M
    <3> QED BY <1>2, <3>1
  <2>2. \A l \in 1..L : full[i + l - 1] = name[l]
    <3>1. full \in Seq(STRING) /\ i + Len(name) <= Len(full) + 1
      BY <1>1, <2>1
    <3>2. SubSeq(full, i, i + Len(name) - 1) = name
      OBVIOUS
    <3>3. \A l \in 1..Len(name) : full[i + l - 1] = name[l]
      BY <2>1, <3>1, <3>2, WordAt, SMTT(30)
    <3> QED BY <3>3
  <2>3. ASSUME NEW x \in i..(i + L - 1) PROVE full[x] \notin {Slash, Colon}
    <3> DEFINE l == x - i + 1
    <3>1. l \in 1..L /\ i + l - 1 = x
      BY <1>0, <2>1
    <3> HIDE DEF l
    <3>2. name[l] \notin {Slash, Colon}
      BY <3>1
    <3> QED BY <2>2, <3>1, <3>2
  <2>4. i + L - 1 <= n
    <3>1. n + 1 \notin i..(i + L - 1) /\ n + 2 \notin i..(i + L - 1)
      BY <1>3, <2>3
    <3> QED BY <1>0, <1>1, <2>1, <3>1
  <2>5. ASSUME NEW x \in i..(i + L - 1) PROVE x <= Len(t) /\ full[x] = t[x]
    <3>1. x \in 1..n
      BY <1>0, <1>1, <2>1, <2>4
    <3> QED BY <1>1, <2>3, <3>1
  <2>6. i + L <= Len(t) + 1
    <3>1. i + L - 1 \in i..(i + L - 1)
      BY <1>0, <2>1
    <3>2. i + L - 1 <= Len(t)
      BY <2>5, <3>1
    <3> QED BY <1>0, <2>1, <3>2
  <2>7. ASSUME NEW l \in 1..L PROVE t[i + l - 1] = name[l]
    <3>1. i + l - 1 \in i..(i + L - 1)
      BY <1>0, <2>1
    <3>2. full[i + l - 1] = t[i + l - 1]
      BY <2>5, <3>1
    <3> QED BY <2>2, <3>2
  <2>8. SubSeq(t, i, i + L - 1) = name
    BY <2>1, <2>6, <2>7, WordAt
  <2> QED BY <2>1, <2>6, <2>8, Absent
<1> QED BY <1>1, <1>2, <1>4, <1>5, FindFirst

(* Replacing the parameter by the segment of the target at its place fills   *)
(* the path up to the next segment.                                          *)
LEMMA FillValue ==
  ASSUME NEW s \in Seq(STRING), NEW t \in Seq(STRING), NEW full, NEW n,
         NEW c \in Nat \ {0}, NEW e \in Nat, c + 2 < e, e <= Len(s) + 1,
         FilledAt(full, s, t, c, n), s[c] = Slash,
         NEW value \in Seq(STRING),
         \/ /\ n + 1 + Len(value) <= Len(t) /\ t[n + 1] = Slash
            /\ \A l \in 1..Len(value) : value[l] = t[n + 1 + l]
         \/ n >= Len(t) /\ value = <<>>
  PROVE  FilledAt(Replace(full, n + 2, n + e - c, value), s, t, e, n + 1 + Len(value))
<1> DEFINE V == Len(value)
           M == Len(full)
           p == n + 2
           q == n + e - c
           r == Replace(full, p, q, value)
           w == n + 1 + V
<1>0. Len(s) \in Nat /\ Len(t) \in Nat /\ V \in Nat
  OBVIOUS
<1>1. /\ full \in Seq(STRING) /\ n \in Nat \ {0} /\ M = n + (Len(s) + 1 - c) /\ M \in Nat
      /\ \A i \in 1..n : full[i] = IF i <= Len(t) THEN t[i] ELSE Slash
      /\ \A i \in c..Len(s) : full[n + 1 + (i - c)] = s[i]
  BY DEF FilledAt
<1>2. p \in Nat \ {0} /\ q \in Nat /\ p <= q + 1 /\ q <= M /\ p - 1 = n + 1
  BY <1>0, <1>1
<1>3. full[n + 1] = Slash
  <2>1. c \in c..Len(s) /\ n + 1 + (c - c) = n + 1
    BY <1>0, <1>1
  <2> QED BY <1>1, <2>1
<1> HIDE DEF p, q
<1>4. /\ r \in Seq(STRING) /\ Len(r) = (p - 1) + V + (M - q)
      /\ \A i \in 1..(p - 1) : r[i] = full[i]
      /\ \A i \in 1..V : r[p - 1 + i] = value[i]
      /\ \A i \in 1..(M - q) : r[p - 1 + V + i] = full[q + i]
  <2>1. full \in Seq(STRING) /\ p \in Nat \ {0} /\ q \in Nat /\ p <= q + 1 /\ q <= Len(full)
    BY <1>1, <1>2
  <2>3. Replace(full, p, q, value) \in Seq(STRING)
    BY <2>1, ReplaceIs
  <2>4. Len(Replace(full, p, q, value)) = (p - 1) + Len(value) + (Len(full) - q)
    BY <2>1, ReplaceIs
  <2>5. \A i \in 1..(p - 1) : Replace(full, p, q, value)[i] = full[i]
    BY <2>1, ReplaceIs
  <2>6. \A i \in 1..Len(value) : Replace(full, p, q, value)[p - 1 + i] = value[i]
    BY <2>1, ReplaceIs
  <2>7. \A i \in 1..(Len(full) - q) :
          Replace(full, p, q, value)[p - 1 + Len(value) + i] = full[q + i]
    BY <2>1, ReplaceIs
  <2> QED BY <2>3, <2>4, <2>5, <2>6, <2>7
<1> HIDE DEF r
<1>5. r \in Seq(STRING) /\ w \in Nat \ {0}
  BY <1>0, <1>1, <1>4
<1>6. Len(r) = w + (Len(s) + 1 - e)
  BY <1>0, <1>1, <1>2, <1>4 DEF q
<1>7. ASSUME NEW i \in 1..w PROVE r[i] = IF i <= Len(t) THEN t[i] ELSE Slash
  <2>1. CASE i <= n
    <3>1. i \in 1..n /\ i \in 1..(p - 1)
      BY <1>1, <1>2, <2>1
    <3> QED BY <1>1, <1>4, <3>1
  <2>2. CASE i = n + 1
    <3>1. i \in 1..(p - 1)
      BY <1>1, <1>2, <2>2
    <3>2. r[i] = Slash
      BY <1>3, <1>4, <2>2, <3>1
    <3> HIDE DEF V
    <3>3. i <= Len(t) => t[i] = Slash
      BY <1>0, <1>1, <2>2
    <3> QED BY <3>2, <3>3
  <2>3. CASE i > n + 1
    <3> DEFINE l == i - (n + 1)
    <3>1. l \in 1..V /\ p - 1 + l = i /\ n + 1 + l = i
      BY <1>0, <1>1, <1>2, <2>3
    <3>2. V # 0
      BY <1>0, <3>1
    <3>3. n + 1 + V <= Len(t) /\ \A j \in 1..V : value[j] = t[n + 1 + j]
      BY <3>2
    <3> HIDE DEF l
    <3>4. i <= Len(t)
      BY <1>0, <1>1, <3>3
    <3>5. r[i] = value[l]
      BY <1>4, <3>1
    <3>6. value[l] = t[i]
      BY <3>1, <3>3
    <3> QED BY <3>4, <3>5, <3>6
  <2> QED BY <1>0, <1>1, <2>1, <2>2, <2>3
<1>8. ASSUME NEW i \in e..Len(s) PROVE r[w + 1 + (i - e)] = s[i]
  <2> DEFINE l == 1 + (i - e)
  <2>1. /\ l \in 1..(M - q) /\ p - 1 + V + l = w + 1 + (i - e)
        /\ q + l = n + 1 + (i - c) /\ i \in c..Len(s)
    BY <1>0, <1>1, <1>2 DEF q
  <2> HIDE DEF l, w, V
  <2>2. r[w + 1 + (i - e)] = full[q + l]
    BY <1>4, <2>1
  <2> QED BY <1>1, <2>1, <2>2
<1>9. FilledAt(r, s, t, e, w)
  BY <1>5, <1>6, <1>7, <1>8 DEF FilledAt
<1> QED BY <1>9 DEF r, p, q

\* The path once one more parameter is bound in it, as the code does it.
BoundNext(s, t, k, full) == Bind(full, Names(s)[k], Value(s, t, k))

LEMMA BoundNextType ==
  ASSUME NEW s, NEW t, NEW k, Names(s)[k] \in Seq(STRING), Value(s, t, k) \in Seq(STRING),
         NEW full \in Seq(STRING) \cup {<<"throws">>}
  PROVE  BoundNext(s, t, k, full) \in Seq(STRING) \cup {<<"throws">>}
<1> SUFFICES ASSUME full \in Seq(STRING), full # <<"throws">>
             PROVE  BoundNext(s, t, k, full) \in Seq(STRING) \cup {<<"throws">>}
  <2>1. full = <<"throws">> => BoundNext(s, t, k, full) = <<"throws">>
    BY DEF BoundNext, Bind
  <2> QED BY <2>1
<1> DEFINE name == Names(s)[k]
           pos == Find(full, name)
           p == pos - 1
           q == pos + Len(name) - 1
           filled == Replace(full, p, q, Value(s, t, k))
<1>1. /\ pos \in Nat /\ Len(name) \in Nat
      /\ pos # 0 => pos + Len(name) <= Len(full) + 1
  BY FindType
<1>2. ASSUME pos > 1 PROVE filled \in Seq(STRING)
  <2>0. Len(full) \in Nat
    OBVIOUS
  <2>1. p \in Nat \ {0} /\ q \in Nat /\ p <= q + 1 /\ q <= Len(full)
    <3> HIDE DEF pos, name
    <3> QED BY <1>1, <1>2, <2>0
  <2> HIDE DEF p, q
  <2> QED BY <2>1, ReplaceIs
<1>4. pos = 0 \/ pos = 1 \/ pos > 1
  <2> HIDE DEF pos
  <2> QED BY <1>1
<1>5. BoundNext(s, t, k, full) = CASE full = <<"throws">> -> full
                                   [] full # <<"throws">> /\ pos = 0 -> full
                                   [] full # <<"throws">> /\ pos = 1 -> <<"throws">>
                                   [] full # <<"throws">> /\ pos > 1 -> filled
  BY DEF BoundNext, Bind
<1> HIDE DEF filled, pos
<1>6. \/ BoundNext(s, t, k, full) \in {full, <<"throws">>}
      \/ (pos > 1 /\ BoundNext(s, t, k, full) = filled)
  BY <1>4, <1>5
<1> QED BY <1>2, <1>6

LEMMA BoundIs ==
  ASSUME NEW s \in Seq(STRING), NEW t, NEW m \in Nat, m = Len(Names(s)),
         \A k \in 1..m : Names(s)[k] \in Seq(STRING) /\ Value(s, t, k) \in Seq(STRING)
  PROVE  /\ Bound(s, t)[0] = s
         /\ \A k \in 1..m : Bound(s, t)[k] = BoundNext(s, t, k, Bound(s, t)[k - 1])
<1> DEFINE S == Seq(STRING) \cup {<<"throws">>}
           D == 0..m
           f == Bound(s, t)
           Def(h) == h = [k \in D |-> IF k = 0 THEN s ELSE BoundNext(s, t, k, h[k - 1])]
           F == [z \in Nat \X S |->
                   IF z[1] + 1 <= m THEN BoundNext(s, t, z[1] + 1, z[2]) ELSE z[2]]
<1>1. f = CHOOSE h : Def(h)
  BY DEF Bound, BoundNext
<1>2. F \in [Nat \X S -> S]
  <2>1. ASSUME NEW k \in Nat, NEW full \in S, k + 1 <= m
        PROVE  BoundNext(s, t, k + 1, full) \in S
    <3>1. k + 1 \in 1..m
      BY <2>1
    <3> QED BY <3>1, BoundNextType
  <2> QED BY <2>1
<1>3. PICK g : /\ g \in [Nat -> S] /\ g[0] = s
               /\ \A k \in Nat : g[k + 1] = F[<<k, g[k]>>]
  <2>1. \E h : Iterates(h, S, s, F)
    <3>1. s \in S
      OBVIOUS
    <3> HIDE DEF F, S
    <3> QED BY <1>2, <3>1, Iteration
  <2> QED BY <2>1 DEF Iterates
<1>4. ASSUME NEW k \in Nat, k + 1 <= m PROVE g[k + 1] = BoundNext(s, t, k + 1, g[k])
  <2>1. g[k] \in S /\ g[k + 1] = F[<<k, g[k]>>]
    BY <1>3
  <2>2. F[<<k, g[k]>>] = BoundNext(s, t, k + 1, g[k])
    BY <1>4, <2>1
  <2> QED BY <2>1, <2>2
<1> HIDE DEF F, S
<1> DEFINE h == [k \in D |-> g[k]]
<1>5. Def(h)
  <2>1. ASSUME NEW k \in D PROVE h[k] = IF k = 0 THEN s ELSE BoundNext(s, t, k, h[k - 1])
    <3>1. CASE k = 0
      BY <1>3, <3>1
    <3>2. CASE k # 0
      <4> DEFINE j == k - 1
      <4>1. j \in Nat /\ j \in D /\ j + 1 = k /\ j + 1 <= m
        BY <3>2
      <4> HIDE DEF j, D
      <4>2. g[j + 1] = BoundNext(s, t, j + 1, g[j])
        BY <1>4, <4>1
      <4>3. h[k] = g[k] /\ h[j] = g[j]
        BY <4>1
      <4> HIDE DEF h
      <4>4. h[k] = BoundNext(s, t, k, h[j])
        BY <4>1, <4>2, <4>3
      <4> QED BY <3>2, <4>4 DEF j
    <3> QED BY <3>1, <3>2
  <2>2. h = [k \in D |-> h[k]]
    OBVIOUS
  <2> HIDE DEF h, D
  <2> QED BY <2>1, <2>2
<1>6. Def(f)
  <2> HIDE DEF Def, f
  <2> QED BY <1>1, <1>5
<1> HIDE DEF f, h
<1>8. f[0] = s
  BY <1>6
<1>9. ASSUME NEW k \in 1..m PROVE f[k] = BoundNext(s, t, k, f[k - 1])
  <2>1. k \in D /\ k # 0
    OBVIOUS
  <2> HIDE DEF D
  <2> QED BY <1>6, <2>1
<1> QED BY <1>8, <1>9 DEF f

(* ... up to the k-th slash of the path, where the target has its k-th, or   *)
(* behind the end of a target that has fewer.                                *)
Filled(full, s, t, k) ==
  \E n : /\ FilledAt(full, s, t, SlashNo(s)[k], n)
         /\ IF SlashNo(t)[k - 1] <= Len(t) THEN n = SlashNo(t)[k] - 1 ELSE n > Len(t)

\* None of the names occurs in the target.
Nameless(s, t, a, b) == \A k \in a..b : Find(t, Tail(Segment(s, k))) = 0

LEMMA FilledFirst ==
  ASSUME NEW s, NEW a, NEW b, Shape(s, a, b), NEW t \in Path, Begins(s, t, a)
  PROVE  Filled(s, s, t, a)
<1> DEFINE c == SlashNo(s)[a]
           n == c - 1
           one == 1
<1>0. /\ s \in Seq(STRING) /\ t \in Seq(STRING) /\ Len(s) \in Nat \ {0} /\ Len(t) \in Nat \ {0}
      /\ b \in Nat /\ a \in 2..b /\ a - 1 \in 1..a /\ a \in 1..a /\ a \in Nat \ {0} /\ s \in Path
  BY DEF Shape, Path
<1>1. c \in 3..Len(s)
  BY <1>0 DEF Shape
<1>2. SlashNo(t)[a] = c /\ SlashNo(t)[a - 1] <= Len(t)
  BY <1>0, <1>1, BeginsToSegments
<1>3. c <= Len(t) /\ SubSeq(t, one, n) = SubSeq(s, one, n)
  BY DEF Begins
<1> HIDE DEF c
<1>4. ASSUME NEW i \in 1..n PROVE i <= Len(t) /\ s[i] = t[i]
  <2>1. /\ one \in 1..(Len(s) + 1) /\ one \in 1..(Len(t) + 1) /\ n \in 0..Len(s) /\ n \in 0..Len(t)
        /\ one <= n + 1 /\ i \in 1..(n + 1 - one) /\ one + i - 1 = i /\ i <= Len(t)
    BY <1>0, <1>1, <1>3
  <2> HIDE DEF n, one
  <2>2. SubSeq(s, one, n)[i] = s[one + i - 1]
    BY <1>0, <2>1, Part
  <2>3. SubSeq(t, one, n)[i] = t[one + i - 1]
    BY <1>0, <2>1, Part
  <2> QED BY <1>3, <2>1, <2>2, <2>3
<1>5. n \in Nat \ {0} /\ Len(s) = n + (Len(s) + 1 - c)
  BY <1>0, <1>1
<1>6. ASSUME NEW i \in c..Len(s) PROVE s[n + 1 + (i - c)] = s[i]
  <2>1. n + 1 + (i - c) = i
    BY <1>0, <1>1
  <2> QED BY <2>1
<1>7. FilledAt(s, s, t, c, n)
  BY <1>0, <1>4, <1>5, <1>6 DEF FilledAt
<1> QED BY <1>2, <1>7 DEF Filled, c

LEMMA FilledNext ==
  ASSUME NEW s, NEW a, NEW b, Shape(s, a, b), NEW t \in Path, Begins(s, t, a),
         Nameless(s, t, a, b), NEW j \in 1..(b + 1 - a),
         NEW full, Filled(full, s, t, a + j - 1)
  PROVE  Filled(BoundNext(s, t, j, full), s, t, a + j)
<1> DEFINE k == a + j - 1
           i == k - 1
           c == SlashNo(s)[k]
           e == SlashNo(s)[k + 1]
           q == SlashNo(t)[k]
           r == SlashNo(t)[k + 1]
           name == Tail(Segment(s, k))
           value == Segment(t, k)
<1>0. /\ s \in Seq(STRING) /\ t \in Seq(STRING) /\ Len(s) \in Nat \ {0} /\ Len(t) \in Nat \ {0}
      /\ b \in Nat /\ a \in 2..b /\ t[1] = Slash
  <2>1. s \in Path /\ b \in Nat /\ a \in 2..b
    BY DEF Shape
  <2>2. /\ s \in Seq(STRING) /\ s # <<>>
        /\ t \in Seq(STRING) /\ t # <<>> /\ t[1] = Slash
    BY <2>1 DEF Path
  <2>3. Len(s) \in Nat \ {0} /\ Len(t) \in Nat \ {0}
    BY <2>2
  <2> QED BY <2>1, <2>2, <2>3
<1>1. /\ k \in a..b /\ k + 1 = a + j /\ (k + 1) - 1 = k
      /\ k \in Nat \ {0} /\ i \in Nat \ {0} /\ i + 1 = k
  BY <1>0
<1>2. Names(s)[j] = SubSeq(s, SlashNo(s)[a + j - 1] + 2, SlashNo(s)[a + j] - 1)
  BY NamesAre
<1>3. Value(s, t, j) = value
  BY ValuesAre
<1>4. PICK n : /\ FilledAt(full, s, t, c, n)
               /\ IF SlashNo(t)[k - 1] <= Len(t) THEN n = q - 1 ELSE n > Len(t)
  BY DEF Filled
<1> HIDE DEF k
<1>5. Names(s)[j] = SubSeq(s, c + 2, e - 1)
  BY <1>1, <1>2 DEF k
<1>6. /\ c \in 3..Len(s) /\ e \in 3..(Len(s) + 1) /\ c + 2 < e
      /\ s[c] = Slash /\ s[c + 1] = Colon
      /\ \A x \in (c + 2)..(e - 1) : s[x] \notin {Slash, Colon}
  BY <1>1 DEF Shape
<1>7. /\ name \in Seq(STRING) /\ name = SubSeq(s, c + 2, e - 1)
      /\ Len(name) = e - c - 2
      /\ \A l \in 1..Len(name) : name[l] = s[c + 1 + l]
  <2>1. c <= Len(s) /\ c + 1 < e
    BY <1>0, <1>6
  <2> QED BY <1>0, <1>1, <2>1, NameIs
<1>8. Find(t, name) = 0
  BY <1>1 DEF Nameless
<1>9. q \in 1..(Len(t) + 1) /\ (q <= Len(t) => t[q] = Slash)
  BY <1>0, <1>1, SlashAt
<1>10. SlashNo(t)[i] = Len(t) + 1 => SlashNo(t)[i + 1] = Len(t) + 1
  BY <1>0, <1>1, SlashNext
<1>11. SlashNo(t)[i] \in 1..(Len(t) + 1)
  BY <1>0, <1>1, SlashAt
<1>12. /\ value \in Seq(STRING)
       /\ q <= Len(t) => Len(value) = r - q - 1
       /\ q > Len(t) => value = <<>>
       /\ \A l \in 1..Len(value) : value[l] = t[q + l]
  BY <1>0, <1>1, SegmentIs
<1>13. r \in 1..(Len(t) + 1) /\ (q <= Len(t) => q < r)
  BY <1>0, <1>1, SlashNext
<1>14. n \in Nat \ {0}
  BY <1>4 DEF FilledAt
<1>15. q <= Len(t) => n = q - 1
  BY <1>0, <1>1, <1>4, <1>10, <1>11, <1>9
<1>16. q > Len(t) => n >= Len(t)
  BY <1>0, <1>4, <1>9, <1>14
<1> HIDE DEF name, value, c, e, q, r
<1>17. \A l \in 1..Len(name) : name[l] = s[c + 1 + l] /\ name[l] \notin {Slash, Colon}
  <2> SUFFICES ASSUME NEW l \in 1..Len(name) PROVE name[l] \notin {Slash, Colon}
    BY <1>7
  <2>1. c + 1 + l \in (c + 2)..(e - 1)
    BY <1>6, <1>7
  <2> QED BY <1>6, <1>7, <2>1
<1>18. Find(full, name) = n + 3
  <2>1. ParamAt(s, c, e)
    <3>1. c \in Nat \ {0} /\ e \in Nat /\ e <= Len(s) + 1
      BY <1>0, <1>6
    <3> QED BY <1>6, <3>1 DEF ParamAt
  <2>2. FilledAt(full, s, t, c, n)
    BY <1>4
  <2>3. NameAt(name, s, c, e)
    BY <1>7, <1>17 DEF NameAt
  <2>4. s \in Seq(STRING) /\ t \in Seq(STRING)
    BY <1>0
  <2> QED BY <1>8, <2>1, <2>2, <2>3, <2>4, FindName
<1> DEFINE w == n + 1 + Len(value)
           new == Replace(full, n + 2, n + e - c, value)
<1>19. FilledAt(new, s, t, e, w)
  <2>1. \/ /\ n + 1 + Len(value) <= Len(t) /\ t[n + 1] = Slash
           /\ \A l \in 1..Len(value) : value[l] = t[n + 1 + l]
        \/ n >= Len(t) /\ value = <<>>
    <3>1. CASE q <= Len(t)
      <4>1. n + 1 = q /\ n = q - 1
        BY <1>9, <1>14, <1>15, <3>1
      <4>2. n + 1 + Len(value) <= Len(t)
        BY <1>0, <1>9, <1>12, <1>13, <3>1, <4>1
      <4> QED BY <1>9, <1>12, <3>1, <4>1, <4>2
    <3>2. CASE q > Len(t)
      BY <1>12, <1>16, <3>2
    <3> QED BY <1>0, <1>9, <3>1, <3>2
  <2>2. c \in Nat \ {0} /\ e \in Nat /\ c + 2 < e /\ e <= Len(s) + 1 /\ s[c] = Slash
    BY <1>0, <1>6
  <2>3. value \in Seq(STRING)
    BY <1>12
  <2> QED BY <1>0, <1>4, <2>1, <2>2, <2>3, FillValue
<1>20. BoundNext(s, t, j, full) = new
  <2>1. full # <<"throws">>
    <3>1. full[1] = Slash
      <4>1. 1 \in 1..n /\ 1 <= Len(t)
        BY <1>0, <1>14
      <4> QED BY <1>0, <1>4, <4>1 DEF FilledAt
    <3>2. <<"throws">>[1] # Slash
      BY DEF Slash
    <3> QED BY <3>1, <3>2
  <2>2. Names(s)[j] = name
    BY <1>5, <1>7
  <2> DEFINE p == Find(full, name)
  <2>3. p = n + 3 /\ p > 1 /\ p # 0 /\ p # 1 /\ p - 1 = n + 2 /\ p + Len(name) - 1 = n + e - c
    <3>1. p = n + 3
      BY <1>18
    <3>2. c \in Nat /\ e \in Nat /\ Len(name) = e - c - 2
      BY <1>6, <1>7
    <3> HIDE DEF p
    <3> QED BY <1>14, <3>1, <3>2
  <2> HIDE DEF p
  <2>4. BoundNext(s, t, j, full) = CASE full = <<"throws">> -> full
                                     [] full # <<"throws">> /\ p = 0 -> full
                                     [] full # <<"throws">> /\ p = 1 -> <<"throws">>
                                     [] full # <<"throws">> /\ p > 1 ->
                                          Replace(full, p - 1, p + Len(name) - 1, value)
    BY <1>3, <2>2 DEF BoundNext, Bind, p
  <2>5. BoundNext(s, t, j, full) = Replace(full, p - 1, p + Len(name) - 1, value)
    BY <2>1, <2>3, <2>4
  <2> QED BY <2>3, <2>5
<1> HIDE DEF new
<1>21. IF q <= Len(t) THEN w = r - 1 ELSE w > Len(t)
  <2>1. CASE q <= Len(t)
    BY <1>0, <1>9, <1>12, <1>13, <1>15, <2>1
  <2>2. CASE ~(q <= Len(t))
    <3>1. Len(value) = 0 /\ n >= Len(t)
      BY <1>0, <1>9, <1>12, <1>16, <2>2
    <3> QED BY <1>0, <1>14, <2>2, <3>1
  <2> QED BY <2>1, <2>2
<1> HIDE DEF w
<1>22. Filled(new, s, t, k + 1)
  BY <1>1, <1>19, <1>21 DEF Filled, e, q, r
<1> QED BY <1>1, <1>20, <1>22

LEMMA BoundFilled ==
  ASSUME NEW s, NEW a, NEW b, Shape(s, a, b), NEW t \in Path, Begins(s, t, a),
         Nameless(s, t, a, b), NEW j \in 0..(b + 1 - a)
  PROVE  Filled(Bound(s, t)[j], s, t, a + j)
<1> DEFINE m == b + 1 - a
           f == Bound(s, t)
           T == {n \in Nat : n <= m => Filled(f[n], s, t, a + n)}
<1>0. /\ s \in Seq(STRING) /\ t \in Seq(STRING) /\ b \in Nat /\ a \in 2..b /\ m \in Nat
  BY DEF Shape, Path
<1>1. Len(Names(s)) = m
  BY NamesAre
<1>2. ASSUME NEW k \in 1..m PROVE Names(s)[k] \in Seq(STRING) /\ Value(s, t, k) \in Seq(STRING)
  <2>1. Value(s, t, k) = Segment(t, a + k - 1)
    BY ValuesAre
  <2>2. a + k - 1 \in Nat
    BY <1>0
  <2>3. Value(s, t, k) \in Seq(STRING)
    BY <1>0, <2>1, <2>2, SegmentIs
  <2>4. Names(s) \in Seq(Seq(STRING))
    BY NamesAre
  <2>5. Names(s)[k] \in Seq(STRING)
    <3> HIDE DEF m
    <3> QED BY <1>1, <2>4
  <2> QED BY <2>3, <2>5
<1>3. f[0] = s /\ \A k \in 1..m : f[k] = BoundNext(s, t, k, f[k - 1])
  <2> HIDE DEF m
  <2>1. s \in Seq(STRING) /\ m \in Nat /\ m = Len(Names(s))
    BY <1>0, <1>1
  <2>2. \A k \in 1..m : Names(s)[k] \in Seq(STRING) /\ Value(s, t, k) \in Seq(STRING)
    BY <1>2
  <2>3. Bound(s, t)[0] = s
    BY <2>1, <2>2, BoundIs
  <2>4. \A k \in 1..m : Bound(s, t)[k] = BoundNext(s, t, k, Bound(s, t)[k - 1])
    BY <2>1, <2>2, BoundIs, SMTT(60)
  <2> QED BY <2>3, <2>4
<1> HIDE DEF f
<1>4. 0 \in T
  <2>1. Filled(s, s, t, a) /\ a + 0 = a
    BY <1>0, FilledFirst
  <2> QED BY <1>3, <2>1
<1>5. ASSUME NEW n \in Nat, n \in T PROVE n + 1 \in T
  <2> SUFFICES ASSUME n + 1 <= m PROVE Filled(f[n + 1], s, t, a + (n + 1))
    OBVIOUS
  <2> DEFINE k == n + 1
  <2>1. k \in 1..m /\ k - 1 = n /\ n <= m /\ a + n = a + k - 1
    BY <1>0
  <2>2. Filled(f[n], s, t, a + n)
    BY <1>5, <2>1
  <2> HIDE DEF k
  <2>3. f[k] = BoundNext(s, t, k, f[n])
    BY <1>3, <2>1
  <2>4. Filled(f[n], s, t, a + k - 1)
    BY <2>1, <2>2
  <2>5. Filled(f[k], s, t, a + k)
    BY <2>1, <2>3, <2>4, FilledNext
  <2> QED BY <2>5 DEF k
<1>6. Nat \subseteq T
  <2> HIDE DEF T
  <2> QED BY <1>4, <1>5, SetInduction
<1>7. j \in Nat /\ j <= m
  BY <1>0
<1> HIDE DEF m
<1> QED BY <1>6, <1>7 DEF f

(* Filled up to what is behind the parameters, the path is the target if the *)
(* target has that many segments and the same behind them.                   *)
LEMMA FilledIsTarget ==
  ASSUME NEW s \in Seq(STRING), NEW t \in Path, NEW b \in Nat \ {0}, NEW full,
         Filled(full, s, t, b + 1)
  PROVE  /\ full # <<"throws">>
         /\ full = t <=> SlashNo(t)[b] <= Len(t) /\ Rest(s, b + 1) = Rest(t, b + 1)
<1> DEFINE k == b + 1
           c == SlashNo(s)[k]
           d == SlashNo(t)[k]
           x == Rest(s, k)
           y == Rest(t, k)
<1>0. /\ t \in Seq(STRING) /\ Len(s) \in Nat /\ Len(t) \in Nat \ {0} /\ t[1] = Slash
      /\ k \in Nat \ {0} /\ k - 1 = b
  BY DEF Path
<1> HIDE DEF k
<1>1. PICK n : /\ FilledAt(full, s, t, c, n)
               /\ IF SlashNo(t)[b] <= Len(t) THEN n = d - 1 ELSE n > Len(t)
  BY <1>0 DEF Filled, k
<1>2. c \in 1..(Len(s) + 1) /\ d \in 1..(Len(t) + 1)
  <2>1. c \in 1..(Len(s) + 1)
    BY <1>0, SlashAt
  <2>2. d \in 1..(Len(t) + 1)
    BY <1>0, SlashAt
  <2> QED BY <2>1, <2>2
<1>3. /\ x \in Seq(STRING) /\ Len(x) = Len(s) + 1 - c
      /\ \A i \in 1..Len(x) : x[i] = s[c + i - 1]
  BY <1>0, RestIs
<1>4. /\ y \in Seq(STRING) /\ Len(y) = Len(t) + 1 - d
      /\ \A i \in 1..Len(y) : y[i] = t[d + i - 1]
  BY <1>0, RestIs
<1> HIDE DEF c, d, x, y
<1>5. /\ full \in Seq(STRING) /\ n \in Nat \ {0} /\ Len(full) = n + (Len(s) + 1 - c)
      /\ \A i \in 1..n : full[i] = IF i <= Len(t) THEN t[i] ELSE Slash
      /\ \A i \in c..Len(s) : full[n + 1 + (i - c)] = s[i]
  BY <1>1 DEF FilledAt
<1>6. full # <<"throws">>
  <2>1. full[1] = Slash
    <3>1. 1 \in 1..n /\ 1 <= Len(t)
      BY <1>0, <1>5
    <3> QED BY <1>0, <1>5, <3>1
  <2>2. <<"throws">>[1] # Slash
    BY DEF Slash
  <2> QED BY <2>1, <2>2
<1>7. ASSUME NEW i \in 1..Len(x) PROVE full[n + i] = x[i]
  <2>1. c + i - 1 \in c..Len(s) /\ n + 1 + ((c + i - 1) - c) = n + i
    BY <1>0, <1>2, <1>3, <1>5
  <2> QED BY <1>3, <1>5, <2>1
<1>8. ASSUME full = t PROVE SlashNo(t)[b] <= Len(t) /\ x = y
  <2>1. n <= Len(t) /\ Len(t) = n + (Len(s) + 1 - c)
    BY <1>0, <1>2, <1>5, <1>8
  <2>2. SlashNo(t)[b] <= Len(t) /\ n = d - 1
    BY <1>0, <1>1, <1>5, <2>1
  <2>3. Len(x) = Len(y)
    BY <1>0, <1>2, <1>3, <1>4, <2>1, <2>2
  <2>4. ASSUME NEW i \in 1..Len(x) PROVE x[i] = y[i]
    <3>1. n + i = d + i - 1 /\ i \in 1..Len(y)
      BY <1>2, <2>2, <2>3
    <3>2. t[n + i] = x[i]
      BY <1>7, <1>8
    <3>3. y[i] = t[d + i - 1]
      BY <1>4, <3>1
    <3> QED BY <3>1, <3>2, <3>3
  <2>5. x \in Seq(STRING) /\ y \in Seq(STRING)
    BY <1>3, <1>4
  <2>6. x = y
    BY <2>3, <2>4, <2>5, SameSequence
  <2> QED BY <2>2, <2>6
<1>9. ASSUME SlashNo(t)[b] <= Len(t), x = y PROVE full = t
  <2>1. n = d - 1
    BY <1>1, <1>9
  <2>2. Len(x) = Len(t) + 1 - d /\ Len(full) = Len(t)
    <3>1. Len(y) = Len(t) + 1 - d
      BY <1>4
    <3>2. Len(x) = Len(t) + 1 - d
      BY <1>9, <3>1
    <3>3. Len(full) = n + (Len(s) + 1 - c) /\ Len(x) = Len(s) + 1 - c
      BY <1>3, <1>5
    <3>4. Len(s) + 1 - c = Len(t) + 1 - d
      BY <3>2, <3>3
    <3>5. Len(full) = (d - 1) + (Len(t) + 1 - d)
      BY <2>1, <3>3, <3>4
    <3> QED BY <1>0, <1>2, <3>2, <3>5
  <2>3. ASSUME NEW i \in 1..Len(full) PROVE full[i] = t[i]
    <3>1. CASE i <= n
      <4>1. i \in 1..n /\ i <= Len(t)
        BY <1>5, <2>2, <3>1
      <4> QED BY <1>5, <4>1
    <3>2. CASE i > n
      <4> DEFINE l == i - n
      <4>1. l \in 1..Len(x) /\ n + l = i /\ d + l - 1 = i
        BY <1>0, <1>2, <1>5, <2>1, <2>2, <3>2
      <4> HIDE DEF l
      <4>2. full[n + l] = x[l]
        BY <1>7, <4>1
      <4>3. y[l] = t[d + l - 1]
        BY <1>4, <1>9, <4>1
      <4> QED BY <1>9, <4>1, <4>2, <4>3
    <3> QED BY <1>5, <3>1, <3>2
  <2>4. full \in Seq(STRING)
    BY <1>5
  <2> QED BY <1>0, <2>2, <2>3, <2>4, SameSequence
<1> QED BY <1>6, <1>8, <1>9 DEF x, y, k

(* What a path with parameters denotes: the targets that begin as it does,   *)
(* have a segment for each parameter, and end as it does.                    *)
LEMMA DenotesIs ==
  ASSUME NEW s, NEW a, NEW b, Shape(s, a, b), NEW t \in Path
  PROVE  Denotes(s, t) <=> /\ Begins(s, t, a)
                           /\ SlashNo(t)[b] <= Len(t) /\ Rest(s, b + 1) = Rest(t, b + 1)
<1>0. /\ s \in Seq(STRING) /\ t \in Seq(STRING) /\ Len(s) \in Nat \ {0} /\ Len(t) \in Nat \ {0}
      /\ t # <<>> /\ t[1] = Slash /\ s \in Path
      /\ b \in Nat \ {0} /\ a \in 2..b /\ a \in Nat \ {0} /\ b + 1 \in Nat \ {0}
      /\ b \in a..b /\ a \in a..b
  <2>1. s \in Path /\ b \in Nat /\ a \in 2..b
    BY DEF Shape
  <2>2. /\ s \in Seq(STRING) /\ s # <<>>
        /\ t \in Seq(STRING) /\ t # <<>> /\ t[1] = Slash
    BY <2>1 DEF Path
  <2>3. Len(s) \in Nat \ {0} /\ Len(t) \in Nat \ {0}
    BY <2>2
  <2> QED BY <2>1, <2>2, <2>3
<1>1. Params(s) = a..b /\ \A k \in a..b : SlashNo(s)[k] \in 3..Len(s)
  BY DEF Shape
<1>2. /\ Segments(s) = {k \in Nat \ {0} : SlashNo(s)[k] <= Len(s)}
      /\ Segments(t) = {k \in Nat \ {0} : SlashNo(t)[k] <= Len(t)}
  <2>1. Segments(s) = {k \in Nat \ {0} : SlashNo(s)[k] <= Len(s)}
    BY <1>0, SegmentsAre
  <2>2. Segments(t) = {k \in Nat \ {0} : SlashNo(t)[k] <= Len(t)}
    BY <1>0, SegmentsAre
  <2> QED BY <2>1, <2>2
<1>3. ASSUME NEW u \in Seq(STRING), NEW j \in Nat, NEW k \in Nat, j <= k, SlashNo(u)[k] <= Len(u)
      PROVE  SlashNo(u)[j] <= Len(u)
  <2>1. SlashNo(u)[j] <= SlashNo(u)[k]
    BY <1>3, SlashMonotone
  <2>2. SlashNo(u)[j] \in 0..(Len(u) + 1)
    BY SlashNoIs
  <2>3. SlashNo(u)[k] \in 0..(Len(u) + 1)
    BY SlashNoIs
  <2>4. Len(u) \in Nat
    OBVIOUS
  <2> QED BY <1>3, <2>1, <2>2, <2>3, <2>4
<1>4. SlashNo(s)[a] <= Len(s) /\ SlashNo(s)[b] <= Len(s)
  BY <1>0, <1>1
<1>5. ASSUME Denotes(s, t)
      PROVE  Begins(s, t, a) /\ SlashNo(t)[b] <= Len(t) /\ Rest(s, b + 1) = Rest(t, b + 1)
  <2>1. /\ Segments(t) = Segments(s)
        /\ \A k \in Segments(s) \ (a..b) : Segment(s, k) = Segment(t, k)
    BY <1>1, <1>5 DEF Denotes
  <2>2. \A k \in Nat \ {0} : SlashNo(s)[k] <= Len(s) <=> SlashNo(t)[k] <= Len(t)
    BY <1>2, <2>1
  <2>3. \A k \in Nat \ {0} :
          SlashNo(s)[k] <= Len(s) /\ k \notin a..b => Segment(s, k) = Segment(t, k)
    BY <1>2, <2>1
  <2>4. Begins(s, t, a)
    <3>1. ASSUME NEW k \in 1..a PROVE SlashNo(s)[k] <= Len(s) /\ SlashNo(t)[k] <= Len(t)
      <4>1. k \in Nat \ {0} /\ k \in Nat /\ k <= a /\ a \in Nat
        BY <1>0
      <4>2. SlashNo(s)[k] <= Len(s)
        BY <1>0, <1>3, <1>4, <4>1
      <4> QED BY <2>2, <4>1, <4>2
    <3>2. ASSUME NEW k \in 1..(a - 1) PROVE Segment(s, k) = Segment(t, k)
      <4>1. k \in Nat \ {0} /\ k \notin a..b /\ k \in 1..a
        BY <1>0
      <4> QED BY <2>3, <3>1, <4>1
    <3> QED BY <1>0, <3>1, <3>2, SegmentsToBegins
  <2>5. SlashNo(t)[b] <= Len(t)
    BY <1>0, <1>4, <2>2
  <2>6. SameSegments(s, t, b + 1)
    <3>1. ASSUME NEW k \in Nat, k >= b + 1
          PROVE  /\ SlashNo(s)[k] <= Len(s) <=> SlashNo(t)[k] <= Len(t)
                 /\ SlashNo(s)[k] <= Len(s) => Segment(s, k) = Segment(t, k)
      <4>1. k \in Nat \ {0} /\ k \notin a..b
        BY <1>0, <3>1
      <4> QED BY <2>2, <2>3, <4>1
    <3> QED BY <3>1 DEF SameSegments
  <2> QED BY <1>0, <2>4, <2>5, <2>6, SegmentsToRest
<1>6. ASSUME Begins(s, t, a), SlashNo(t)[b] <= Len(t), Rest(s, b + 1) = Rest(t, b + 1)
      PROVE  Denotes(s, t)
  <2>1. SameSegments(s, t, b + 1)
    BY <1>0, <1>6, RestToSegments
  <2>2. \A k \in Nat : k >= b + 1 =>
          /\ SlashNo(s)[k] <= Len(s) <=> SlashNo(t)[k] <= Len(t)
          /\ SlashNo(s)[k] <= Len(s) => Segment(s, k) = Segment(t, k)
    BY <2>1 DEF SameSegments
  <2>3. ASSUME NEW k \in Nat \ {0} PROVE SlashNo(s)[k] <= Len(s) <=> SlashNo(t)[k] <= Len(t)
    <3>1. CASE k <= b
      <4>1. k \in Nat /\ b \in Nat
        BY <1>0
      <4>2. SlashNo(s)[k] <= Len(s)
        BY <1>0, <1>3, <1>4, <3>1, <4>1
      <4>3. SlashNo(t)[k] <= Len(t)
        BY <1>0, <1>3, <1>6, <3>1, <4>1
      <4> QED BY <4>2, <4>3
    <3>2. CASE ~(k <= b)
      <4>1. k \in Nat /\ k >= b + 1
        BY <1>0, <3>2
      <4> QED BY <2>2, <4>1
    <3> QED BY <3>1, <3>2
  <2>4. Segments(t) = Segments(s)
    BY <1>2, <2>3
  <2>5. ASSUME NEW k \in Segments(s) \ (a..b) PROVE Segment(s, k) = Segment(t, k)
    <3>1. k \in Nat \ {0} /\ SlashNo(s)[k] <= Len(s) /\ k \notin a..b
      BY <1>2
    <3>2. CASE k < a
      <4>1. k \in 1..a
        BY <1>0, <3>1, <3>2
      <4> QED BY <1>0, <1>4, <1>6, <3>2, <4>1, BeginsToSegments
    <3>3. CASE ~(k < a)
      <4>1. k \in Nat /\ k >= b + 1
        BY <1>0, <3>1, <3>3
      <4> QED BY <2>2, <3>1, <4>1
    <3> QED BY <3>2, <3>3
  <2> QED BY <1>0, <1>1, <2>4, <2>5 DEF Denotes
<1> QED BY <1>5, <1>6

(* A path without parameters denotes itself.                                 *)
LEMMA DenotesItself ==
  ASSUME NEW s \in Path, NEW t \in Path, Params(s) = {}
  PROVE  Denotes(s, t) <=> t = s
<1>0. s \in Seq(STRING) /\ t \in Seq(STRING) /\ t # <<>> /\ t[1] = Slash /\ s # <<>> /\ s[1] = Slash
  BY DEF Path
<1>1. /\ Segments(s) = {k \in Nat \ {0} : SlashNo(s)[k] <= Len(s)}
      /\ Segments(t) = {k \in Nat \ {0} : SlashNo(t)[k] <= Len(t)}
  <2>1. Segments(s) = {k \in Nat \ {0} : SlashNo(s)[k] <= Len(s)}
    BY <1>0, SegmentsAre
  <2>2. Segments(t) = {k \in Nat \ {0} : SlashNo(t)[k] <= Len(t)}
    BY <1>0, SegmentsAre
  <2> QED BY <2>1, <2>2
<1>2. ASSUME Denotes(s, t) PROVE t = s
  <2>1. Segments(t) = Segments(s) /\ \A k \in Segments(s) : Segment(s, k) = Segment(t, k)
    BY <1>2 DEF Denotes
  <2>2. SameSegments(s, t, 1)
    <3>1. ASSUME NEW k \in Nat, k >= 1
          PROVE  /\ SlashNo(s)[k] <= Len(s) <=> SlashNo(t)[k] <= Len(t)
                 /\ SlashNo(s)[k] <= Len(s) => Segment(s, k) = Segment(t, k)
      <4>1. k \in Nat \ {0}
        BY <3>1
      <4> QED BY <1>1, <2>1, <4>1
    <3> QED BY <3>1 DEF SameSegments
  <2>3. Rest(s, 1) = Rest(t, 1)
    BY <1>0, <2>2, SegmentsToRest
  <2>4. SlashNo(s)[1] = 1 /\ SlashNo(t)[1] = 1
    <3>1. SlashNo(s)[1] = 1
      BY <1>0, FirstSlash
    <3>2. SlashNo(t)[1] = 1
      BY <1>0, FirstSlash
    <3> QED BY <3>1, <3>2
  <2>5. Rest(s, 1) = s
    BY <1>0, <2>4 DEF Rest
  <2>6. Rest(t, 1) = t
    BY <1>0, <2>4 DEF Rest
  <2> QED BY <2>3, <2>5, <2>6
<1>3. ASSUME t = s PROVE Denotes(s, t)
  BY <1>0, <1>3 DEF Denotes
<1> QED BY <1>2, <1>3

LEMMA NoParams ==
  ASSUME NEW s \in Path, Params(s) = {}
  PROVE  Names(s) = <<>> /\ UriTarget(s) = s
<1>1. Binds(s) = {SlashNo(s)[k] : k \in Params(s)}
  BY BindsAre
<1>2. Binds(s) = {}
  BY <1>1
<1> QED BY <1>2 DEF Names, UriTarget

(* A path with parameters that the target has the beginning of.              *)
LEMMA NamelessOf ==
  ASSUME NEW s, NEW a, NEW b, Shape(s, a, b), NEW t, Plain(s, t)
  PROVE  Nameless(s, t, a, b)
BY DEF Shape, Plain, Nameless

LEMMA MatchWithParams ==
  ASSUME NEW s, NEW a, NEW b, Shape(s, a, b), NEW t \in Path, Nameless(s, t, a, b),
         NEW rt, rt.path = s, NEW method
  PROVE  Verdict(rt, method, t) =
           IF method = rt.method /\ (t = UriTarget(s) \/ Denotes(s, t)) THEN "yes" ELSE "no"
<1> DEFINE m == b + 1 - a
           full == Bound(s, t)[m]
<1>0. /\ s \in Seq(STRING) /\ t # <<>> /\ t[1] = Slash /\ t \in Seq(STRING)
      /\ b \in Nat \ {0} /\ a \in 2..b /\ m \in 0..(b + 1 - a) /\ a + m = b + 1
  BY DEF Shape, Path
<1>1. Len(Names(s)) = m
  BY NamesAre
<1>2. /\ Begins(s, t, a) => ValuesAt(s, t) = SlashNo(s)[a] + 1
      /\ ~Begins(s, t, a) => ValuesAt(s, t) = 0
      /\ SlashNo(s)[a] \in Nat
  <2>1. SlashNo(s)[a] \in Nat
    <3>1. a \in a..b
      BY <1>0
    <3>2. SlashNo(s)[a] \in 3..Len(s)
      BY <3>1 DEF Shape
    <3> QED BY <3>2
  <2> QED BY <1>0, <2>1, ValuesAtIs
<1>3. Denotes(s, t) <=> /\ Begins(s, t, a)
                        /\ SlashNo(t)[b] <= Len(t) /\ Rest(s, b + 1) = Rest(t, b + 1)
  BY DenotesIs
<1>4. ASSUME Begins(s, t, a)
      PROVE  full # <<"throws">> /\ (full = t <=> Denotes(s, t)) /\ ValuesAt(s, t) # 0
  <2>1. Filled(full, s, t, a + m)
    BY <1>0, <1>4, BoundFilled
  <2> HIDE DEF m
  <2>2. Filled(full, s, t, b + 1)
    BY <1>0, <2>1
  <2> HIDE DEF full
  <2>3. /\ full # <<"throws">>
        /\ full = t <=> SlashNo(t)[b] <= Len(t) /\ Rest(s, b + 1) = Rest(t, b + 1)
    BY <1>0, <2>2, FilledIsTarget
  <2>4. ValuesAt(s, t) # 0
    BY <1>2, <1>4
  <2> QED BY <1>3, <1>4, <2>3, <2>4
<1>5. ASSUME ~Begins(s, t, a) PROVE ~Denotes(s, t) /\ ValuesAt(s, t) = 0
  BY <1>2, <1>3, <1>5
<1>6. Verdict(rt, method, t) =
        IF method # rt.method THEN "no"
        ELSE IF t = UriTarget(s) THEN "yes"
        ELSE IF ValuesAt(s, t) = 0 THEN "no"
        ELSE IF full = <<"throws">> THEN "throws" ELSE IF full = t THEN "yes" ELSE "no"
  BY <1>0, <1>1 DEF Verdict, Compared
<1> HIDE DEF full
<1> QED BY <1>4, <1>5, <1>6

LEMMA MatchWithoutParams ==
  ASSUME NEW s \in Path, Params(s) = {}, NEW t \in Path,
         NEW rt, rt.path = s, NEW method
  PROVE  Verdict(rt, method, t) =
           IF method = rt.method /\ Denotes(s, t) THEN "yes" ELSE "no"
<1>0. s \in Seq(STRING) /\ s # <<>> /\ s[1] = Slash /\ t # <<>> /\ t[1] = Slash
  BY DEF Path
<1>1. Names(s) = <<>> /\ UriTarget(s) = s /\ Len(Names(s)) = 0
  BY NoParams
<1>2. Bound(s, t)[0] = s
  <2>1. \A k \in 1..0 : Names(s)[k] \in Seq(STRING) /\ Value(s, t, k) \in Seq(STRING)
    OBVIOUS
  <2> QED BY <1>0, <1>1, <2>1, BoundIs
<1>3. s # <<"throws">>
  <2>1. <<"throws">>[1] # Slash
    BY DEF Slash
  <2> QED BY <1>0, <2>1
<1>4. Denotes(s, t) <=> t = s
  BY DenotesItself
<1>5. Verdict(rt, method, t) =
        IF method # rt.method THEN "no"
        ELSE IF t = s THEN "yes"
        ELSE IF ValuesAt(s, t) = 0 THEN "no"
        ELSE IF s = <<"throws">> THEN "throws" ELSE IF s = t THEN "yes" ELSE "no"
  BY <1>0, <1>1, <1>2 DEF Verdict, Compared
<1> QED BY <1>3, <1>4, <1>5

(* Whether a route matches a target for which its path is plain is what the  *)
(* path means, read segment by segment: is_match_with_target_request finds   *)
(* the targets that the path denotes, and the uri without its parameters,    *)
(* and it does not throw.                                                    *)
THEOREM MatchIsMeaning ==
  ASSUME NEW rt, rt.path \in Path, NEW target \in Seq(STRING), Plain(rt.path, target), NEW method
  PROVE  Verdict(rt, method, target) =
           IF method = rt.method /\ (Bare(rt.path, target) \/ Denotes(rt.path, target))
           THEN "yes" ELSE "no"
<1> DEFINE s == rt.path
<1>1. CASE target \notin Path
  <2>1. target = <<>> \/ target[1] # Slash
    BY <1>1 DEF Path
  <2>2. Verdict(rt, method, target) = "no"
    BY <2>1 DEF Verdict
  <2>3. ~Denotes(s, target)
    BY <2>1 DEF Denotes
  <2>4. ASSUME Names(s) # <<>>, target = UriTarget(s) PROVE FALSE
    <3>1. Params(s) # {}
      BY <2>4, NoParams
    <3>2. PICK a, b \in Nat : Shape(s, a, b)
      BY <3>1, ShapeOf
    <3> DEFINE c == SlashNo(s)[a]
    <3>3. c \in 3..Len(s) /\ s \in Seq(STRING) /\ s[1] = Slash
      BY <3>2 DEF Shape, Path
    <3>4. target = SubSeq(s, 1, c - 1)
      BY <2>4, <3>2, UriTargetIs
    <3> HIDE DEF c, s
    <3>5. Len(target) >= 2 /\ target[1] = s[1]
      BY <3>3, <3>4
    <3> QED BY <2>1, <3>3, <3>5
  <2> QED BY <2>2, <2>3, <2>4 DEF Bare
<1>2. CASE target \in Path /\ Params(s) = {}
  <2>1. Verdict(rt, method, target) =
          IF method = rt.method /\ Denotes(s, target) THEN "yes" ELSE "no"
    BY <1>2, MatchWithoutParams
  <2>2. Names(s) = <<>>
    BY <1>2, NoParams
  <2> QED BY <2>1, <2>2 DEF Bare
<1>3. CASE target \in Path /\ Params(s) # {}
  <2>1. PICK a, b \in Nat : Shape(s, a, b)
    BY <1>3, ShapeOf
  <2>2. Nameless(s, target, a, b)
    BY <2>1, NamelessOf
  <2>3. Verdict(rt, method, target) =
          IF method = rt.method /\ (target = UriTarget(s) \/ Denotes(s, target))
          THEN "yes" ELSE "no"
    BY <1>3, <2>1, <2>2, MatchWithParams
  <2>4. Names(s) # <<>>
    <3>1. Len(Names(s)) = b + 1 - a /\ a \in 2..b
      BY <2>1, NamesAre DEF Shape
    <3> QED BY <3>1
  <2> QED BY <2>3, <2>4 DEF Bare
<1> QED BY <1>1, <1>2, <1>3

(* And what it leaves in the parameters of a route that it matches, unless   *)
(* by the uri alone, is the values the segments of the target have, whatever *)
(* they were before.                                                         *)
THEOREM ValuesAreMeaning ==
  ASSUME NEW rt, rt.path \in Path, NEW target \in Seq(STRING), Plain(rt.path, target), NEW method,
         Verdict(rt, method, target) = "yes", ~Bare(rt.path, target),
         NEW old, old = [k \in 1..Len(Names(rt.path)) |-> old[k]]
  PROVE  Values(rt, method, target, old) = Meant(rt.path, target)
<1> DEFINE s == rt.path
<1>1. method = rt.method /\ Denotes(s, target)
  BY MatchIsMeaning
<1>2. target \in Path
  BY <1>1 DEF Denotes, Path
<1>3. CASE Params(s) = {}
  <2>1. Names(s) = <<>> /\ UriTarget(s) = s
    BY <1>3, NoParams
  <2>2. target = s
    BY <1>1, <1>2, <1>3, DenotesItself
  <2>3. Values(rt, method, target, old) = old
    BY <2>1, <2>2 DEF Values
  <2>4. Cardinality(Params(s)) = 0
    BY <1>3, FS_EmptySet
  <2>5. Meant(s, target) = [n \in 1..0 |-> Segment(target, Min(Params(s)) + n - 1)]
    BY <2>4 DEF Meant
  <2>6. old = [k \in 1..0 |-> old[k]]
    BY <2>1
  <2>7. 1..0 = {}
    OBVIOUS
  <2>8. old = [k \in {} |-> old[k]]
    BY <2>6, <2>7
  <2>9. Meant(s, target) = [k \in {} |-> old[k]]
    BY <2>5, <2>7
  <2> QED BY <2>3, <2>8, <2>9
<1>4. CASE Params(s) # {}
  <2>1. PICK a, b \in Nat : Shape(s, a, b)
    BY <1>4, ShapeOf
  <2>2. Nameless(s, target, a, b)
    BY <2>1, NamelessOf
  <2>3. /\ Begins(s, target, a) /\ a \in 2..b /\ Cardinality(Params(s)) = b + 1 - a
        /\ Min(Params(s)) = a
    BY <1>1, <1>2, <2>1, DenotesIs DEF Shape
  <2> DEFINE m == b + 1 - a
  <2>4. Len(Names(s)) = m /\ Names(s) # <<>> /\ m \in Nat \ {0}
    <3>1. Len(Names(s)) = m
      BY <2>1, NamesAre
    <3>2. m \in Nat \ {0}
      BY <2>3
    <3> HIDE DEF m
    <3> QED BY <3>1, <3>2
  <2>5. target # UriTarget(s)
    BY <2>4 DEF Bare
  <2>6. ValuesAt(s, target) # 0
    <3>1. SlashNo(s)[a] \in 3..Len(s)
      BY <2>1, <2>3 DEF Shape
    <3>2. ValuesAt(s, target) = SlashNo(s)[a] + 1
      BY <1>2, <2>1, <2>3, ValuesAtIs
    <3> QED BY <3>1, <3>2
  <2>7. ASSUME NEW k \in 1..m
        PROVE  /\ k > 1 => Bound(s, target)[k - 1] # <<"throws">>
               /\ Value(s, target, k) = Segment(target, a + k - 1)
    <3>1. Value(s, target, k) = Segment(target, a + k - 1)
      BY <1>2, <2>1, <2>3, ValuesAre
    <3>2. ASSUME k > 1 PROVE Bound(s, target)[k - 1] # <<"throws">>
      <4> DEFINE i == k - 1
                 l == a + i - 1
      <4>1. i \in 0..m /\ l \in Nat \ {0} /\ l + 1 = a + i
        <5>1. a \in Nat /\ a >= 2 /\ b \in Nat /\ k \in 1..(b + 1 - a)
          BY <2>3
        <5>2. i \in Nat /\ i = k - 1 /\ i \in 0..(b + 1 - a)
          BY <5>1
        <5> HIDE DEF i
        <5> QED BY <5>1, <5>2
      <4> HIDE DEF i, l
      <4>2. Filled(Bound(s, target)[i], s, target, a + i)
        BY <1>2, <2>1, <2>2, <2>3, <4>1, BoundFilled
      <4>3. s \in Seq(STRING)
        BY DEF Path
      <4>4. Filled(Bound(s, target)[i], s, target, l + 1)
        BY <4>1, <4>2
      <4> DEFINE full == Bound(s, target)[i]
      <4>5. full # <<"throws">>
        <5>1. Filled(full, s, target, l + 1)
          BY <4>4
        <5> HIDE DEF full
        <5> QED BY <1>2, <4>1, <4>3, <5>1, FilledIsTarget
      <4> QED BY <4>5 DEF i
    <3> QED BY <3>1, <3>2
  <2>8. target # <<>> /\ target[1] = Slash
    BY <1>1 DEF Denotes
  <2>9. DOMAIN old = 1..m
    BY <2>4
  <2>10. Values(rt, method, target, old) =
           [k \in 1..m |-> IF k > 1 /\ Bound(s, target)[k - 1] = <<"throws">>
                           THEN old[k] ELSE Value(s, target, k)]
    BY <1>1, <2>5, <2>6, <2>8, <2>9 DEF Values
  <2>11. Meant(s, target) = [k \in 1..m |-> Segment(target, a + k - 1)]
    BY <2>3 DEF Meant
  <2> HIDE DEF m
  <2>12. \A k \in 1..m : (IF k > 1 /\ Bound(s, target)[k - 1] = <<"throws">>
                          THEN old[k] ELSE Value(s, target, k)) = Segment(target, a + k - 1)
    BY <2>7
  <2> QED BY <2>10, <2>11, <2>12
<1> QED BY <1>3, <1>4
=============================================================================
