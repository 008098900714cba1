-------------------------- MODULE MiddlewaresProofs --------------------------
(* The theorems about module Middlewares: for every chain of middlewares,    *)
(* every set of routes and targets and every callback.  That a guarded       *)
(* handler needs approval and a refusal stands uses of the way targets are   *)
(* matched only that it has one of three verdicts; which route is served,    *)
(* and with which values, rests on the theorems of RouteProofs.              *)
EXTENDS Middlewares, RouteProofs

\* The auth middleware was passed by the request being served.
Passed == \E i \in 1..(at - 1) : Chain[i] = "auth"

(* A request that passed was approved for every route that needs it and      *)
(* matches the target, and none of those throws.                             *)
ApprovedInv ==
  Passed => \A r \in ToSet(Authorized) :
              VerdictOf(r) # "throws" /\ (VerdictOf(r) = "yes" => r \in approved)

\* A handler, or an exception of routing, is the end of the request.
LastInv == (handler # 0 \/ ioThread = "exited") => at = 0

\* path_parameters_ of a route has a value for each of its names.
ParametersInv ==
  \A r \in DOMAIN Routes :
    values[r] = [k \in 1..Len(Names(Routes[r].path)) |-> values[r][k]]

IInv ==
  /\ TypeOK
  /\ ParametersInv
  /\ FirstMeant
  /\ GivenMeant
  /\ ApprovedInv
  /\ LastInv
  /\ GuardedHandler
  /\ AuthShields
  /\ RefusalStands

(* Matching has one of three verdicts.                                       *)
LEMMA VerdictType ==
  ASSUME NEW r PROVE VerdictOf(r) \in {"no", "yes", "throws"}
BY DEF VerdictOf, Verdict, Compared

(* The lists name routes.                                                    *)
LEMMA ListsType ==
  /\ \A n \in 1..Len(Routers) : Routers[n] \in DOMAIN Routes
  /\ \A n \in 1..Len(Authorized) : Authorized[n] \in DOMAIN Routes
  /\ ToSet(Authorized) \subseteq DOMAIN Routes
  /\ 0 \notin ToSet(Authorized)
  /\ \A n \in 1..Len(Authorized) : Authorized[n] \in ToSet(Authorized)
  /\ \A r \in ToSet(Authorized) : \E n \in 1..Len(Authorized) : r = Authorized[n]
  /\ Chain # <<>> => Len(Chain) # 0
  /\ Len(Chain) \in Nat /\ Len(Routers) \in Nat /\ Len(Authorized) \in Nat
<1>1. DOMAIN Routers = 1..Len(Routers) /\ DOMAIN Authorized = 1..Len(Authorized)
  BY MiddlewaresAssumption
<1>2. \A n \in 1..Len(Routers) : Routers[n] \in DOMAIN Routes
  BY MiddlewaresAssumption
<1>3. \A n \in 1..Len(Authorized) : Authorized[n] \in DOMAIN Routes
  BY MiddlewaresAssumption
<1>4. 0 \notin DOMAIN Routes
  BY MiddlewaresAssumption
<1>5. Chain # <<>> => Len(Chain) # 0
  BY MiddlewaresAssumption
<1>6. Len(Chain) \in Nat /\ Len(Routers) \in Nat /\ Len(Authorized) \in Nat
  BY MiddlewaresAssumption
<1>7. ToSet(Authorized) = {Authorized[n] : n \in 1..Len(Authorized)}
  BY <1>1 DEF ToSet
<1> QED
  BY <1>2, <1>3, <1>4, <1>5, <1>6, <1>7

(* In the routing middleware of a chain that has auth before it, a request   *)
(* has passed auth.                                                          *)
LEMMA RoutingHasPassed ==
  ASSUME TypeOK, Turn("routing"), Precedes("auth", "routing")
  PROVE  Passed
<1>1. PICK i \in 1..Len(Chain) :
        Chain[i] = "auth" /\ \A j \in 1..(i - 1) : Chain[j] # "routing"
  BY DEF Precedes
<1>2. at \in 1..Len(Chain) /\ Chain[at] = "routing"
  BY ListsType DEF Turn, TypeOK
<1>3. i \in 1..(at - 1)
  BY <1>1, <1>2, ListsType
<1> QED
  BY <1>1, <1>3 DEF Passed

(* A refusal has the status of a refusal.                                    *)
LEMMA AuthStatusType ==
  ASSUME NEW r, NEW answer \in {"pass", "401", "500"}
  PROVE  AuthStatus(r, answer) \in {"pass", "401", "403", "500"}
BY VerdictType DEF AuthStatus

LEMMA RouteType ==
  ASSUME NEW r \in DOMAIN Routes
  PROVE  Routes[r].path \in Path /\ r # 0
<1>1. Routes \in Seq([method : Methods, path : Path])
  BY MiddlewaresAssumption
<1>2. \A S : Routes \in Seq(S) => Routes[r] \in S /\ r # 0
  OBVIOUS
<1>3. Routes[r] \in [method : Methods, path : Path] /\ r # 0
  BY <1>1, <1>2
<1> QED
  BY <1>3

(* For a target that its path is plain for, a route is matched just if it    *)
(* accepts the request by what the path means.                               *)
LEMMA VerdictIsMeaning ==
  ASSUME TypeOK, NEW r \in DOMAIN Routes, PlainFor(r)
  PROVE  VerdictOf(r) = IF Accepts(r) THEN "yes" ELSE "no"
<1>1. Routes[r].path \in Path
  BY RouteType
<1>2. request.target \in Seq(STRING)
  BY MiddlewaresAssumption DEF TypeOK, Request
<1>3. Plain(Routes[r].path, request.target)
  BY DEF PlainFor
<1>4. Verdict(Routes[r], request.method, request.target) =
        IF /\ request.method = Routes[r].method
           /\ Bare(Routes[r].path, request.target) \/ Denotes(Routes[r].path, request.target)
        THEN "yes" ELSE "no"
  BY <1>1, <1>2, <1>3, MatchIsMeaning
<1> QED
  BY <1>4 DEF VerdictOf, Accepts

(* Matching never changes how many values a route has.                       *)
LEMMA ParametersKept ==
  ASSUME ParametersInv, NEW list, NEW n, values' = ValuesAfter(list, n)
  PROVE  ParametersInv'
<1> SUFFICES ASSUME NEW r \in DOMAIN Routes
             PROVE  values'[r] = [k \in 1..Len(Names(Routes[r].path)) |-> values'[r][k]]
  BY DEF ParametersInv
<1> DEFINE old == values[r]
           new == Values(Routes[r], request.method, request.target, old)
           D == 1..Len(Names(Routes[r].path))
<1>1. old = [k \in D |-> old[k]]
  BY DEF ParametersInv
<1> HIDE DEF D
<1>2. values'[r] = new \/ values'[r] = old
  BY DEF ValuesAfter
<1> HIDE DEF old
<1>3. new = [k \in D |-> new[k]]
  <2>1. DOMAIN old = D
    BY <1>1
  <2>2. \/ new = old
        \/ new = [k \in D |->
                    IF k > 1 /\ Bound(Routes[r].path, request.target)[k - 1] = <<"throws">>
                    THEN old[k] ELSE Value(Routes[r].path, request.target, k)]
    BY <2>1 DEF Values
  <2> HIDE DEF new
  <2> QED BY <1>1, <2>2
<1> HIDE DEF new
<1> QED
  BY <1>1, <1>2, <1>3 DEF D

(* A request that is answered without a handler and not with a 404 leaves    *)
(* nothing to show of routing.                                               *)
LEMMA NothingServed ==
  ASSUME handler = 0, status # "404"
  PROVE  FirstMeant /\ GivenMeant
BY DEF FirstMeant, GivenMeant

(* Nothing is under way in the initial state.                                *)
LEMMA InitInv == Init => IInv
<1> SUFFICES ASSUME Init PROVE IInv
  OBVIOUS
<1>1. TypeOK
  <2>1. DOMAIN values = DOMAIN Routes
    BY DEF Init
  <2>2. at \in 0..Len(Chain) /\ status \in Statuses
    BY ListsType DEF Init, Statuses
  <2>3. approved \subseteq DOMAIN Routes /\ handler \in DOMAIN Routes \cup {0}
    BY DEF Init
  <2>4. /\ request \in Request /\ cors \in BOOLEAN /\ failed \in BOOLEAN
        /\ ioThread \in {"running", "exited"}
    BY DEF Init
  <2> QED
    BY <2>1, <2>2, <2>3, <2>4 DEF TypeOK
<1>2. ParametersInv
  BY DEF Init, ParametersInv, Unbound
<1>3. FirstMeant /\ GivenMeant
  BY NothingServed DEF Init
<1> QED
  BY <1>1, <1>2, <1>3, ListsType
     DEF Init, IInv, ApprovedInv, LastInv, GuardedHandler, AuthShields, RefusalStands, Passed

(* The handler of a step that takes the request one middleware further.      *)
LEMMA ProceedType ==
  ASSUME TypeOK, at > 0, Proceed \/ Answer
  PROVE  at' \in 0..Len(Chain)
BY ListsType DEF TypeOK, Proceed, Answer

(* One step per action of a middleware, over the state it starts from.       *)
LEMMA NextInv == IInv /\ [Next]_vars => IInv'
<1> SUFFICES ASSUME IInv, [Next]_vars PROVE IInv'
  OBVIOUS
<1> USE DEF IInv
<1>1. CASE Receive
  <2>1. at' \in {0, 1} /\ at' \in 0..Len(Chain)
    BY <1>1, ListsType DEF Receive
  <2>2. ~Passed'
    <3> SUFFICES ASSUME NEW i \in 1..(at' - 1) PROVE FALSE
      BY DEF Passed
    <3>1. at' - 1 \in {-1, 0}
      BY <2>1
    <3> QED
      BY <3>1
  <2>3. status' \in Statuses /\ cors' \in BOOLEAN /\ failed' \in BOOLEAN
    BY <1>1 DEF Receive, Statuses
  <2>4. TypeOK'
    BY <1>1, <2>1, <2>3 DEF Receive, TypeOK
  <2>5. ParametersInv'
    BY <1>1 DEF Receive, ParametersInv
  <2>6. FirstMeant' /\ GivenMeant'
    BY <1>1 DEF Receive, FirstMeant, GivenMeant
  <2> QED
    BY <1>1, <2>1, <2>2, <2>4, <2>5, <2>6, ListsType
       DEF Receive, ApprovedInv, LastInv, GuardedHandler, AuthShields, RefusalStands
<1>2. CASE Cors
  <2>1. at > 0 /\ Chain[at] = "cors" /\ (Proceed \/ Answer)
    BY <1>2 DEF Cors, Turn
  <2>2. TypeOK'
    BY <1>2, <2>1, ProceedType DEF Cors, TypeOK, Statuses
  <2>3. handler' = 0 /\ ioThread' = ioThread /\ ioThread # "exited"
    BY <1>2, <2>1 DEF Cors, LastInv
  <2>4. Passed' => Passed
    BY <2>1 DEF Passed, Proceed, Answer, TypeOK
  <2>5. ApprovedInv'
    BY <1>2, <2>4 DEF Cors, ApprovedInv, VerdictOf
  <2>6. RefusalStands'
    BY <1>2, <2>1, <2>3 DEF Cors, RefusalStands, Answer, Proceed
  <2>7. ParametersInv'
    BY <1>2 DEF Cors, ParametersInv
  <2>8. status' # "404" \/ status' = status
    BY <1>2 DEF Cors
  <2>9. FirstMeant' /\ GivenMeant'
    BY <1>2, <2>3, <2>8 DEF Cors, FirstMeant, GivenMeant, PlainFor, Accepts
  <2> QED
    BY <2>2, <2>3, <2>5, <2>6, <2>7, <2>9, ListsType DEF LastInv, GuardedHandler, AuthShields
<1>3. CASE AuthPasses
  <2>1. at > 0 /\ Proceed
    BY <1>3 DEF AuthPasses, Turn
  <2>2. handler' = 0 /\ ioThread' = ioThread /\ ioThread # "exited"
    BY <1>3, <2>1 DEF AuthPasses, LastInv
  <2>3. TypeOK'
    BY <1>3, <2>1, <2>2, ProceedType, ListsType DEF AuthPasses, TypeOK, ValuesAfter
  <2>4. \A r \in ToSet(Authorized) : VerdictOf(r) # "throws"
    BY <1>3, ListsType DEF AuthPasses, MayPass, AuthStatus
  <2>5. ApprovedInv'
    BY <1>3, <2>4 DEF AuthPasses, ApprovedInv, VerdictOf
  <2>6. RefusalStands'
    BY <1>3, <2>1, <2>2 DEF AuthPasses, RefusalStands
  <2>7. ParametersInv'
    BY <1>3, ParametersKept DEF AuthPasses
  <2>8. FirstMeant' /\ GivenMeant'
    BY <1>3, <2>2 DEF AuthPasses, FirstMeant, GivenMeant, PlainFor, Accepts
  <2> QED
    BY <2>2, <2>3, <2>5, <2>6, <2>7, <2>8, ListsType DEF LastInv, GuardedHandler, AuthShields
<1>4. CASE AuthRefuses
  <2>1. at > 0 /\ at' = 0
    BY <1>4 DEF AuthRefuses, Turn, Answer
  <2>2. handler' = 0 /\ ioThread' = ioThread /\ ioThread # "exited"
    BY <1>4, <2>1 DEF AuthRefuses, LastInv
  <2>3. PICK n \in 1..Len(Authorized), answer \in Answers :
          /\ AuthStatus(Authorized[n], answer) # "pass"
          /\ status' = AuthStatus(Authorized[n], answer)
          /\ values' = ValuesAfter(Authorized, n)
          /\ approved' = {r \in Matched(Authorized, n - 1) : VerdictOf(r) = "yes"}
    BY <1>4 DEF AuthRefuses
  <2>4. status' \in {"401", "403", "500"}
    BY <2>3, AuthStatusType DEF Answers
  <2>5. Matched(Authorized, n - 1) \subseteq DOMAIN Routes
    BY ListsType DEF Matched
  <2>6. TypeOK'
    BY <1>4, <2>1, <2>2, <2>3, <2>4, <2>5, ListsType
       DEF AuthRefuses, TypeOK, ValuesAfter, Statuses
  <2>7. RefusalStands'
    BY <1>4, <2>1, <2>2 DEF AuthRefuses, RefusalStands
  <2>8. ParametersInv'
    BY <2>3, ParametersKept
  <2>9. FirstMeant' /\ GivenMeant'
    BY <2>2, <2>4 DEF FirstMeant, GivenMeant
  <2> QED
    BY <2>1, <2>2, <2>6, <2>7, <2>8, <2>9, ListsType
       DEF ApprovedInv, Passed, LastInv, GuardedHandler, AuthShields
<1>5. CASE RouteFound
  <2>1. at > 0 /\ at' = 0 /\ Turn("routing")
    BY <1>5 DEF RouteFound, Turn, Answer
  <2>2. PICK n \in 1..Len(Routers) :
          /\ FoundAt(n) /\ VerdictOf(Routers[n]) = "yes"
          /\ values' = ValuesAfter(Routers, n)
          /\ handler' = Routers[n]
    BY <1>5 DEF RouteFound
  <2>3. ioThread' = ioThread /\ ioThread # "exited"
    BY <1>5, <2>1 DEF RouteFound, LastInv
  <2>4. TypeOK'
    <3>1. status' \in Statuses /\ failed' \in BOOLEAN
      BY <1>5 DEF RouteFound, TypeOK, Statuses
    <3>2. DOMAIN values' = DOMAIN Routes /\ handler' \in DOMAIN Routes \cup {0}
      BY <2>2, ListsType DEF ValuesAfter
    <3>3. UNCHANGED <<request, cors, approved, ioThread>>
      BY <1>5 DEF RouteFound
    <3> QED
      BY <2>1, <3>1, <3>2, <3>3, ListsType DEF TypeOK
  <2>5. GuardedHandler'
    BY <1>5, <2>1, <2>2, RoutingHasPassed DEF RouteFound, GuardedHandler, ApprovedInv, Precedes
  <2>6. RefusalStands'
    BY <1>5, <2>1 DEF RouteFound, RefusalStands
  <2>7. ParametersInv'
    BY <2>2, ParametersKept
  <2>8. /\ request' = request /\ given' = values'[handler'] /\ handler' = Routers[n]
        /\ handler' \in DOMAIN Routes
    BY <1>5, <2>2, ListsType DEF RouteFound
  <2>9. FirstMeant'
    <3> DEFINE hits == {h \in 1..Len(Routers) : PlainFor(Routers[h]) /\ Accepts(Routers[h])}
    <3>1. PlainFor(Routers[n]) => n \in hits
      BY <2>2, VerdictIsMeaning, ListsType
    <3>2. ASSUME NEW hit \in hits PROVE n <= hit
      <4>1. hit \in 1..Len(Routers) /\ PlainFor(Routers[hit]) /\ Accepts(Routers[hit])
        OBVIOUS
      <4>2. VerdictOf(Routers[hit]) = "yes"
        BY <4>1, VerdictIsMeaning, ListsType
      <4>3. hit \notin 1..(n - 1)
        BY <2>2, <4>2 DEF FoundAt
      <4> QED
        BY <4>1, <4>3, ListsType
    <3>3. hits' = hits /\ (PlainFor(handler') <=> PlainFor(handler)')
      BY <2>8 DEF PlainFor, Accepts
    <3>4. handler' # 0
      BY <2>8, RouteType
    <3> QED
      BY <2>8, <3>1, <3>2, <3>3, <3>4 DEF FirstMeant, PlainFor
  <2>10. GivenMeant'
    <3> DEFINE r == Routers[n]
               path == Routes[r].path
    <3> SUFFICES ASSUME PlainFor(r), ~Bare(path, request.target)
                 PROVE  given' = Meant(path, request.target)
      BY <2>8 DEF GivenMeant, PlainFor
    <3>1. r \in DOMAIN Routes /\ path \in Path /\ request.target \in Seq(STRING)
      <4>1. r \in DOMAIN Routes
        BY ListsType
      <4>2. request.target \in Targets
        BY DEF TypeOK, Request
      <4> QED
        BY <4>1, <4>2, RouteType, MiddlewaresAssumption
    <3>2. given' = Values(Routes[r], request.method, request.target, values[r])
      <4>1. r \in Matched(Routers, n)
        BY DEF Matched
      <4> QED
        BY <2>2, <2>8, <3>1, <4>1 DEF ValuesAfter
    <3>3. Verdict(Routes[r], request.method, request.target) = "yes" /\ Plain(path, request.target)
      BY <2>2 DEF VerdictOf, PlainFor
    <3>4. values[r] = [k \in 1..Len(Names(path)) |-> values[r][k]]
      BY <3>1 DEF ParametersInv
    <3> QED
      BY <3>1, <3>2, <3>3, <3>4, ValuesAreMeaning
  <2> QED
    BY <2>1, <2>3, <2>4, <2>5, <2>6, <2>7, <2>9, <2>10 DEF ApprovedInv, Passed, LastInv, AuthShields
<1>6. CASE RouteNotFound
  <2>1. at > 0 /\ at' = 0
    BY <1>6 DEF RouteNotFound, Turn, Answer
  <2>2. handler' = 0 /\ ioThread' = ioThread /\ ioThread # "exited"
    BY <1>6, <2>1 DEF RouteNotFound, LastInv
  <2>3. TypeOK'
    BY <1>6, <2>1, <2>2, ListsType DEF RouteNotFound, TypeOK, ValuesAfter, Statuses
  <2>4. RefusalStands'
    BY <1>6, <2>1, <2>2 DEF RouteNotFound, RefusalStands
  <2>5. ParametersInv'
    BY <1>6, ParametersKept DEF RouteNotFound
  <2>6. \A h \in 1..Len(Routers) : ~(PlainFor(Routers[h]) /\ Accepts(Routers[h]))
    BY <1>6, VerdictIsMeaning, ListsType DEF RouteNotFound
  <2>7. FirstMeant' /\ GivenMeant'
    BY <1>6, <2>2, <2>6 DEF RouteNotFound, FirstMeant, GivenMeant, PlainFor, Accepts
  <2> QED
    BY <2>1, <2>2, <2>3, <2>4, <2>5, <2>7, ListsType
       DEF ApprovedInv, Passed, LastInv, GuardedHandler, AuthShields
<1>7. CASE RouteThrows
  <2>1. at > 0 /\ at' = 0 /\ Turn("routing")
    BY <1>7 DEF RouteThrows, Turn, Answer
  <2>2. PICK n \in 1..Len(Routers) :
          /\ FoundAt(n) /\ VerdictOf(Routers[n]) = "throws"
          /\ values' = ValuesAfter(Routers, n)
    BY <1>7 DEF RouteThrows
  <2>3. handler' = 0
    BY <1>7, <2>1 DEF RouteThrows, responseVars, LastInv
  <2>4. TypeOK'
    BY <1>7, <2>1, <2>2 DEF RouteThrows, responseVars, TypeOK, ValuesAfter
  <2>5. \A m \in 1..Len(Routers) : FoundAt(m) => m = n
    BY <2>2, ListsType DEF FoundAt
  <2>6. AuthShields'
    <3> SUFFICES ASSUME Precedes("auth", "routing"),
                        NEW m \in 1..Len(Routers), FoundAt(m)'
                 PROVE  Routers[m] \notin ToSet(Authorized)
      BY DEF AuthShields, Precedes
    <3>1. FoundAt(m)
      BY <1>7 DEF RouteThrows, FoundAt, VerdictOf
    <3>2. VerdictOf(Routers[m]) = "throws"
      BY <2>2, <2>5, <3>1
    <3> QED
      BY <2>1, <3>2, RoutingHasPassed DEF ApprovedInv
  <2>7. RefusalStands'
    BY <1>7, <2>1, <2>3 DEF RouteThrows, responseVars, RefusalStands
  <2>8. ParametersInv'
    BY <2>2, ParametersKept
  <2>9. FirstMeant' /\ GivenMeant'
    BY <1>7, <2>3 DEF RouteThrows, responseVars, FirstMeant, GivenMeant, PlainFor, Accepts
  <2> QED
    BY <2>1, <2>3, <2>4, <2>6, <2>7, <2>8, <2>9, ListsType
       DEF ApprovedInv, Passed, LastInv, GuardedHandler
<1>8. CASE UNCHANGED vars
  <2>1. UNCHANGED <<request, at, values, status, cors, approved, handler, given, failed, ioThread>>
    BY <1>8 DEF vars, responseVars
  <2>2. TypeOK' /\ LastInv' /\ RefusalStands' /\ ParametersInv'
    BY <2>1 DEF TypeOK, LastInv, RefusalStands, ParametersInv
  <2>3. ApprovedInv' /\ GuardedHandler'
    BY <2>1 DEF ApprovedInv, Passed, GuardedHandler, VerdictOf
  <2>4. AuthShields'
    BY <2>1 DEF AuthShields, FoundAt, VerdictOf
  <2>5. FirstMeant' /\ GivenMeant'
    BY <2>1 DEF FirstMeant, GivenMeant, PlainFor, Accepts
  <2> QED
    BY <2>2, <2>3, <2>4, <2>5
<1> QED
  BY <1>1, <1>2, <1>3, <1>4, <1>5, <1>6, <1>7, <1>8 DEF Next, Routing

(* The inductive invariant holds in every state.                             *)
LEMMA Invariance == Spec => []IInv
BY InitInv, NextInv, PTL DEF Spec

(* Every variable keeps its type.                                            *)
THEOREM TypeCorrect == Spec => []TypeOK
<1>1. IInv => TypeOK
  BY DEF IInv
<1> QED
  BY <1>1, Invariance, PTL

(* The handler of a route that needs authorisation runs only after the       *)
(* callback approved that route for that request: any chain with auth before *)
(* routing, any lists of routes.                                             *)
THEOREM HandlersAreGuarded == Spec => []GuardedHandler
<1>1. IInv => GuardedHandler
  BY DEF IInv
<1> QED
  BY <1>1, Invariance, PTL

(* A refusal of CORS or of auth is what the client gets, and no handler runs. *)
THEOREM RefusalsStand == Spec => []RefusalStands
<1>1. IInv => RefusalStands
  BY DEF IInv
<1> QED
  BY <1>1, Invariance, PTL

(* Behind the auth middleware a route that needs authorisation never ends    *)
(* the I/O thread.                                                           *)
THEOREM AuthShieldsRoutes == Spec => []AuthShields
<1>1. IInv => AuthShields
  BY DEF IInv
<1> QED
  BY <1>1, Invariance, PTL

(* Among the routes that are plain for the target of a request, routing      *)
(* calls the handler of the first whose path means that target, and answers  *)
(* 404 only if there is none: for any routes and any targets.                *)
THEOREM FirstMeaningIsServed == Spec => []FirstMeant
<1>1. IInv => FirstMeant
  BY DEF IInv
<1> QED
  BY <1>1, Invariance, PTL

(* A handler is given the values of its own request, whatever the requests   *)
(* before have left in the route.                                            *)
THEOREM HandlersGetTheirValues == Spec => []GivenMeant
<1>1. IInv => GivenMeant
  BY DEF IInv
<1> QED
  BY <1>1, Invariance, PTL
=============================================================================
