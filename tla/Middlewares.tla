----------------------------- MODULE Middlewares -----------------------------
(***************************************************************************)
(* The middlewares a request runs through in WebSession::on_receive: CORS, *)
(* authorisation and routing, in the order they were added to the server.  *)
(* All sessions share them, and with them the routes, in which matching a  *)
(* target leaves the parameter values it found; requests are served one    *)
(* after another by the I/O thread.                                        *)
(*                                                                         *)
(* Handlers and the authorisation callback are the application's: they     *)
(* return what they like, or throw.                                        *)
(***************************************************************************)
EXTENDS Route, SequencesExt

CONSTANTS
  Chain,        \* middlewares_: a sequence of "cors", "auth" and "routing"
  Routes,       \* the routes, a sequence of records [method, path]
  Routers,      \* routers_ of the routing middleware: indices into Routes
  Authorized,   \* routes_ of the auth middleware: indices into Routes
  Targets       \* the targets of requests

Methods == {"get", "options"}

ASSUME MiddlewaresAssumption ==
  /\ Routes \in Seq([method : Methods, path : Path])
  /\ Chain \in Seq({"cors", "auth", "routing"})
  /\ Routers \in Seq(DOMAIN Routes)
  /\ Authorized \in Seq(DOMAIN Routes)
  /\ Targets \subseteq Seq(STRING)

\* What the middlewares read of a request.  The origin header is compared
\* with the host header, and no origin is as good as the same one; the token
\* is that of the authorization header, and an empty one is as good as none.
Request ==
  [target : Targets,
   method : Methods,
   origin : {"same", "foreign", "no_host"},
   token  : {"missing", "given"}]

VARIABLES
  request,    \* the request being served, or the last one (at first, any)
  at,         \* the middleware whose turn it is; 0 between requests
  status,     \* of the response
  cors,       \* the response carries the CORS headers
  values,     \* path_parameters_ of each route
  approved,   \* the routes the callback has approved for this request
  handler,    \* the route whose handler was called, or 0
  given,      \* the parameters it was called with
  failed,     \* the handler threw
  ioThread    \* "running", or "exited" with an exception of a route match

responseVars == <<status, cors, approved, handler, given, failed>>
vars == <<request, at, values, responseVars, ioThread>>

Unbound(r) == [k \in 1..Len(Names(Routes[r].path)) |-> <<>>]

Statuses == {"500", "204", "401", "403", "404", "application"}

TypeOK ==
  /\ request \in Request
  /\ at \in 0..Len(Chain)
  /\ status \in Statuses
  /\ cors \in BOOLEAN
  /\ DOMAIN values = DOMAIN Routes
  /\ approved \subseteq DOMAIN Routes
  /\ handler \in DOMAIN Routes \cup {0}
  /\ failed \in BOOLEAN
  /\ ioThread \in {"running", "exited"}

Init ==
  /\ request \in Request
  /\ at = 0
  /\ status = "500"
  /\ cors = FALSE
  /\ values = [r \in DOMAIN Routes |-> Unbound(r)]
  /\ approved = {}
  /\ handler = 0
  /\ given = <<>>
  /\ failed = FALSE
  /\ ioThread = "running"

(* on_receive has a request: a response that nobody fills is a 500.          *)
Receive ==
  /\ at = 0 /\ ioThread = "running"
  /\ request' \in Request
  /\ at' = IF Chain = <<>> THEN 0 ELSE 1
  /\ status' = "500"
  /\ cors' = FALSE
  /\ approved' = {}
  /\ handler' = 0
  /\ given' = <<>>
  /\ failed' = FALSE
  /\ UNCHANGED <<values, ioThread>>

\* A middleware that returns TRUE leaves the request to the next one.
Proceed == at' = IF at = Len(Chain) THEN 0 ELSE at + 1

\* Mutant: routing leaves the request to the middleware behind it.
AnswerProceeds == at' = at + 1

Answer == at' = 0

Turn(middleware) == at > 0 /\ Chain[at] = middleware

-----------------------------------------------------------------------------
\* Mutant: a preflight is left to the routes.
CorsPreflightProceeds ==
  /\ Turn("cors")
  /\ cors' = (request.origin = "foreign")
  /\ status' = IF cors' /\ request.method = "options" THEN "204" ELSE status
  /\ IF request.origin = "no_host" THEN Answer ELSE Proceed
  /\ UNCHANGED <<request, values, approved, handler, given, failed, ioThread>>

(* cors_middleware::execute: an origin without a host ends the request with  *)
(* whatever status the response has.                                         *)
Cors ==
  /\ Turn("cors")
  /\ cors' = (request.origin = "foreign")
  /\ status' = IF cors' /\ request.method = "options" THEN "204" ELSE status
  /\ IF request.origin = "no_host" \/ (cors' /\ request.method = "options")
     THEN Answer
     ELSE Proceed
  /\ UNCHANGED <<request, values, approved, handler, given, failed, ioThread>>

-----------------------------------------------------------------------------
VerdictOf(r) == Verdict(Routes[r], request.method, request.target)

\* The routes that were matched when a search went over the first n of list.
Matched(list, n) == {list[i] : i \in 1..n}

ValuesAfter(list, n) ==
  [r \in DOMAIN Routes |->
     IF r \in Matched(list, n)
     THEN Values(Routes[r], request.method, request.target, values[r])
     ELSE values[r]]

\* Mutant: a route whose matching throws is passed over.
AuthStatusSkips(r, answer) ==
  CASE VerdictOf(r) \in {"no", "throws"}                -> "pass"
    [] VerdictOf(r) = "yes" /\ request.token # "given" -> "403"
    [] VerdictOf(r) = "yes" /\ request.token = "given" -> answer

(* What the authorisation of route r comes to, given what the callback does; *)
(* one that was never configured throws.                                     *)
AuthStatus(r, answer) ==
  CASE VerdictOf(r) = "no"                              -> "pass"
    [] VerdictOf(r) = "throws"                          -> "500"
    [] VerdictOf(r) = "yes" /\ request.token # "given" -> "403"
    [] VerdictOf(r) = "yes" /\ request.token = "given" -> answer

\* The callback succeeds, refuses the token, or throws.
Answers == {"pass", "401", "500"}

\* Nothing but the callback can refuse route r, and it need not.
MayPass(r) == AuthStatus(r, "pass") = "pass"

\* Mutant: the first approval settles it.
AuthPassesOnce ==
  /\ Turn("auth")
  /\ \/ /\ \A i \in 1..Len(Authorized) : VerdictOf(Authorized[i]) = "no"
        /\ values' = ValuesAfter(Authorized, Len(Authorized))
        /\ approved' = {}
     \/ \E n \in 1..Len(Authorized) :
          /\ \A i \in 1..(n - 1) : VerdictOf(Authorized[i]) = "no"
          /\ VerdictOf(Authorized[n]) = "yes" /\ request.token = "given"
          /\ values' = ValuesAfter(Authorized, n)
          /\ approved' = {Authorized[n]}
  /\ Proceed
  /\ UNCHANGED <<request, status, cors, handler, given, failed, ioThread>>

(* auth_middleware::execute goes through all routes that need authorisation: *)
(* every one that matches the target has to pass.                            *)
AuthPasses ==
  /\ Turn("auth")
  /\ \A i \in 1..Len(Authorized) : MayPass(Authorized[i])
  /\ values' = ValuesAfter(Authorized, Len(Authorized))
  /\ approved' = {r \in ToSet(Authorized) : VerdictOf(r) = "yes"}
  /\ Proceed
  /\ UNCHANGED <<request, status, cors, handler, given, failed, ioThread>>

(* The first that does not ends the request; an exception of the match or of *)
(* the callback is caught and ends it with a 500.                            *)
AuthRefuses ==
  /\ Turn("auth")
  /\ \E n \in 1..Len(Authorized), answer \in Answers :
       /\ \A i \in 1..(n - 1) : MayPass(Authorized[i])
       /\ AuthStatus(Authorized[n], answer) # "pass"
       /\ status' = AuthStatus(Authorized[n], answer)
       /\ values' = ValuesAfter(Authorized, n)
       /\ approved' = {r \in Matched(Authorized, n - 1) : VerdictOf(r) = "yes"}
  /\ Answer
  /\ UNCHANGED <<request, cors, handler, given, failed, ioThread>>

-----------------------------------------------------------------------------
\* The search of routers_ ends at the n-th.
FoundAt(n) ==
  /\ VerdictOf(Routers[n]) # "no"
  /\ \A i \in 1..(n - 1) : VerdictOf(Routers[i]) = "no"

(* routing_middleware::execute calls the handler of the first route that     *)
(* matches.  An exception sets the status to 500, and then, no route counting *)
(* as found, to 404.                                                         *)
RouteFound ==
  /\ Turn("routing")
  /\ \E n \in 1..Len(Routers) :
       /\ FoundAt(n) /\ VerdictOf(Routers[n]) = "yes"
       /\ values' = ValuesAfter(Routers, n)
       /\ handler' = Routers[n]
  /\ given' = values'[handler']
  /\ \/ failed' = TRUE /\ status' = "404"
     \/ failed' = FALSE /\ status' \in {status, "application"}
  /\ Answer
  /\ UNCHANGED <<request, cors, approved, ioThread>>

RouteNotFound ==
  /\ Turn("routing")
  /\ \A n \in 1..Len(Routers) : VerdictOf(Routers[n]) = "no"
  /\ values' = ValuesAfter(Routers, Len(Routers))
  /\ status' = "404"
  /\ Answer
  /\ UNCHANGED <<request, cors, approved, handler, given, failed, ioThread>>

\* Matching is not inside the try block, so its exception ends the I/O thread.
RouteThrows ==
  /\ Turn("routing")
  /\ \E n \in 1..Len(Routers) :
       /\ FoundAt(n) /\ VerdictOf(Routers[n]) = "throws"
       /\ values' = ValuesAfter(Routers, n)
  /\ ioThread' = "exited"
  /\ Answer
  /\ UNCHANGED <<request, responseVars>>

Routing == RouteFound \/ RouteNotFound \/ RouteThrows

Next == Receive \/ Cors \/ AuthPasses \/ AuthRefuses \/ Routing

Spec == Init /\ [][Next]_vars
-----------------------------------------------------------------------------
(* Properties *)

Precedes(first, second) ==
  \E i \in 1..Len(Chain) :
    Chain[i] = first /\ \A j \in 1..(i - 1) : Chain[j] # second

(* If the auth middleware comes before routing, the handler of a route that  *)
(* needs authorisation runs only after the callback approved that route for  *)
(* that request, whichever other routes match the target and in whatever     *)
(* order the two middlewares list them.                                      *)
GuardedHandler ==
  Precedes("auth", "routing") /\ handler \in ToSet(Authorized) => handler \in approved

(* A refusal stands: neither a preflight nor a request that was refused goes *)
(* on to a handler, and the refusal is the status that is sent.              *)
RefusalStands ==
  /\ cors /\ request.method = "options" => handler = 0 /\ at = 0 /\ status = "204"
  /\ status \in {"401", "403"} => handler = 0 /\ at = 0

Accepts(r) ==
  /\ request.method = Routes[r].method
  /\ Bare(Routes[r].path, request.target) \/ Denotes(Routes[r].path, request.target)

PlainFor(r) == Plain(Routes[r].path, request.target)

(* Among the routes that are plain for the target, routing calls the handler *)
(* of the first whose path means the target, read segment by segment, and    *)
(* answers 404 only if there is none.                                        *)
FirstMeant ==
  LET hits == {n \in 1..Len(Routers) : PlainFor(Routers[n]) /\ Accepts(Routers[n])}
  IN /\ handler # 0 =>
          \E n \in 1..Len(Routers) :
            /\ Routers[n] = handler
            /\ PlainFor(handler) => n \in hits
            /\ \A hit \in hits : n <= hit
     /\ status = "404" /\ handler = 0 => hits = {}

(* A handler is given the values that the segments of its own request have,  *)
(* though the route it belongs to is shared by all requests.                 *)
GivenMeant ==
  handler # 0 /\ PlainFor(handler) /\ ~Bare(Routes[handler].path, request.target) =>
    given = Meant(Routes[handler].path, request.target)

(* The auth middleware catches what the matching of a route throws, so a     *)
(* route that needs authorisation never ends the I/O thread behind it.       *)
AuthShields ==
  Precedes("auth", "routing") /\ ioThread = "exited" =>
    \A n \in 1..Len(Routers) : FoundAt(n) => Routers[n] \notin ToSet(Authorized)
=============================================================================
