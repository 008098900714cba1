-------------------------------- MODULE Route --------------------------------
(***************************************************************************)
(* How a route of route.hpp is parsed and matched with the target of a     *)
(* request.                                                                *)
(*                                                                         *)
(* A path is a sequence of tokens: "/", ":" and words.  What the code does *)
(* character by character it does token by token here; a word that another *)
(* one begins with is written as two tokens ("users" as "user", "s").      *)
(***************************************************************************)
EXTENDS Integers, Sequences, FiniteSets, FiniteSetsExt

Slash == "/"
Colon == ":"

\* std::string::find, 0 if there is none.
Find(s, word) ==
  LET at == {i \in 1..(Len(s) - Len(word) + 1) : SubSeq(s, i, i + Len(word) - 1) = word}
  IN IF at = {} THEN 0 ELSE Min(at)

Replace(s, first, last, by) ==
  SubSeq(s, 1, first - 1) \o by \o SubSeq(s, last + 1, Len(s))

\* The first slash of s from position p on, or the position after the end.
SlashFrom(s, p) == Min({i \in p..Len(s) : s[i] = Slash} \cup {Len(s) + 1})

ColonFrom(s, p) == Min({i \in p..Len(s) : s[i] = Colon} \cup {Len(s) + 1})

-----------------------------------------------------------------------------
\* A route whose path does not begin with a slash cannot be constructed.
Path == {path \in Seq(STRING) : path # <<>> /\ path[1] = Slash}

(* route::parse().  The search for the first parameter starts behind the     *)
(* leading slash, so "/:name" has none.                                      *)
Binds(path) == {i \in 2..(Len(path) - 1) : path[i] = Slash /\ path[i + 1] = Colon}

UriTarget(path) ==
  IF Binds(path) = {} THEN path ELSE SubSeq(path, 1, Min(Binds(path)) - 1)

(* extract_next_bind_key from position p, just after a colon: where the name *)
(* ends.  A name goes on up to the next parameter, over whatever is between. *)
KeyEnd(path, p) ==
  LET next == {i \in Binds(path) : i >= p}
  IN IF next # {} THEN Min(next)
     ELSE IF path[Len(path)] = Slash THEN Len(path)
     ELSE SlashFrom(path, p)

Key(path, p) == SubSeq(path, p, KeyEnd(path, p) - 1)

(* The colons that the loop over the path takes for the beginning of a name: *)
(* the one it starts at, and then the first behind the end of each name.     *)
Colons(path) ==
  LET colon[k \in Nat] ==
        IF k = 0 THEN Min(Binds(path)) + 1
        ELSE ColonFrom(path, KeyEnd(path, colon[k - 1] + 1) + 1)
  IN colon

Names(path) ==
  IF Binds(path) = {} THEN <<>>
  ELSE LET found == {k \in 1..Len(path) : Colons(path)[k - 1] <= Len(path)}
       IN [k \in 1..Cardinality(found) |-> Key(path, Colons(path)[k - 1] + 1)]

-----------------------------------------------------------------------------
(* The slashes of a target at which its beginning is compared with the uri:  *)
(* the character behind such a slash is skipped.                             *)
Tried(target) ==
  LET tried[i \in 0..Len(target)] ==
        IF i = 0 THEN FALSE ELSE target[i] = Slash /\ ~tried[i - 1]
  IN {i \in 1..Len(target) : tried[i]}

\* Where the parameter values of a target start, or 0.
ValuesAt(path, target) ==
  LET at == {i \in Tried(target) : SubSeq(target, 1, i - 1) = UriTarget(path)}
  IN IF at = {} THEN 0 ELSE Min(at) + 1

\* From a position to the next slash.
UpToSlash(s, p) == SubSeq(s, p, SlashFrom(s, p) - 1)

(* A value per parameter, from one slash to the next; the literal parts of   *)
(* the path are not consulted.                                               *)
ValueStarts(path, target) ==
  LET starts[k \in 1..(Len(Names(path)) + 1)] ==
        IF k = 1 THEN ValuesAt(path, target)
        ELSE LET slash == SlashFrom(target, starts[k - 1])
             IN IF slash > Len(target) THEN slash ELSE slash + 1
  IN starts

Value(path, target, k) == UpToSlash(target, ValueStarts(path, target)[k])

(* full_path_binded with the value of one more parameter.  The name is       *)
(* searched in all of it, wherever its first occurrence is; one at the very  *)
(* beginning makes replace() throw, after which it is "throws".              *)
Bind(full, name, value) ==
  LET pos == Find(full, name)
  IN CASE full = <<"throws">> -> full
       [] full # <<"throws">> /\ pos = 0 -> full
       [] full # <<"throws">> /\ pos = 1 -> <<"throws">>
       [] full # <<"throws">> /\ pos > 1 -> Replace(full, pos - 1, pos + Len(name) - 1, value)

\* full_path_binded once the first k parameters are bound.
Bound(path, target) ==
  LET bound[k \in 0..Len(Names(path))] ==
        IF k = 0 THEN path ELSE Bind(bound[k - 1], Names(path)[k], Value(path, target, k))
  IN bound

\* What the comparison of full_path_binded with the target tells.
Compared(full, target) ==
  IF full = <<"throws">> THEN "throws" ELSE IF full = target THEN "yes" ELSE "no"

\* Mutant: a target is compared with the uri only.
VerdictPrefix(rt, method, target) ==
  IF method # rt.method \/ target = <<>> \/ target[1] # Slash THEN "no"
  ELSE IF target = UriTarget(rt.path) \/ ValuesAt(rt.path, target) # 0 THEN "yes" ELSE "no"

(* What is_match_with_target_request returns.  A target that is the uri      *)
(* alone matches a route with parameters too, and binds none of them.        *)
Verdict(rt, method, target) ==
  IF method # rt.method \/ target = <<>> \/ target[1] # Slash THEN "no"
  ELSE IF target = UriTarget(rt.path) THEN "yes"
  ELSE IF ValuesAt(rt.path, target) = 0 THEN "no"
  ELSE Compared(Bound(rt.path, target)[Len(Names(rt.path))], target)

\* Mutant: only a parameter that has no value yet is bound.
ValuesOnce(rt, method, target, old) ==
  IF \/ method # rt.method \/ target = <<>> \/ target[1] # Slash
     \/ target = UriTarget(rt.path)
     \/ ValuesAt(rt.path, target) = 0
  THEN old
  ELSE [k \in DOMAIN old |-> IF old[k] # <<>> THEN old[k] ELSE Value(rt.path, target, k)]

(* And what it leaves in path_parameters_, which held old: it binds before   *)
(* it knows whether the target matches, up to the name that throws.          *)
Values(rt, method, target, old) ==
  IF \/ method # rt.method \/ target = <<>> \/ target[1] # Slash
     \/ target = UriTarget(rt.path)
     \/ ValuesAt(rt.path, target) = 0
  THEN old
  ELSE [k \in DOMAIN old |->
          IF k > 1 /\ Bound(rt.path, target)[k - 1] = <<"throws">>
          THEN old[k] ELSE Value(rt.path, target, k)]

-----------------------------------------------------------------------------
(* What a path means, segment by segment: literal segments stand for         *)
(* themselves, ":name" stands for any segment.  SlashNo(s)[k] is the         *)
(* position of the k-th slash, or the one after the end.                     *)
SlashNo(s) ==
  LET slash[k \in Nat] == IF k = 0 THEN 0 ELSE SlashFrom(s, slash[k - 1] + 1)
  IN slash

Segments(s) == {k \in 1..Len(s) : SlashNo(s)[k] <= Len(s)}

Segment(s, k) == SubSeq(s, SlashNo(s)[k] + 1, SlashNo(s)[k + 1] - 1)

IsParam(segment) == segment # <<>> /\ segment[1] = Colon

Params(path) == {k \in Segments(path) : IsParam(Segment(path, k))}

Denotes(path, target) ==
  /\ target # <<>> /\ target[1] = Slash
  /\ Segments(target) = Segments(path)
  /\ \A k \in Segments(path) \ Params(path) : Segment(path, k) = Segment(target, k)

(* The segments behind the last parameter.                                   *)
Behind(path) == {k \in Segments(path) \ Params(path) : \E j \in Params(path) : j < k}

(* The paths that matching understands, for a target: the parameters are     *)
(* consecutive segments behind a literal one that is not empty; from there   *)
(* on there is no colon but in front of a name; a slash at the end comes     *)
(* right behind the last parameter; and the target has none of the names in  *)
(* it, with which a name that is empty is ruled out.                         *)
Plain(path, target) ==
  /\ 1 \notin Params(path)
  /\ \A j, k \in Params(path) : j..k \subseteq Params(path)
  /\ \A k \in Params(path) :
       /\ k - 1 \in Params(path) \/ Segment(path, k - 1) # <<>>
       /\ Colon \notin Range(Tail(Segment(path, k)))
       /\ Find(target, Tail(Segment(path, k))) = 0
  /\ \A k \in Behind(path) :
       /\ Colon \notin Range(Segment(path, k))
       /\ path[Len(path)] = Slash => Segment(path, k) = <<>> /\ k - 1 \in Params(path)

\* The target of a path with parameters, without any of them.
Bare(path, target) == Names(path) # <<>> /\ target = UriTarget(path)

\* The value each parameter of a plain path has in a target it denotes.
Meant(path, target) ==
  [n \in 1..Cardinality(Params(path)) |-> Segment(target, Min(Params(path)) + n - 1)]
=============================================================================
