------------------------------ MODULE Service ------------------------------
(***************************************************************************)
(* The SDK end to end, as one service runs it: the authentication          *)
(* middlewares (nethttp, gin, echo, wkhttp) over the verify path itself,   *)
(* instead of over what AuthContract promises of it.  A request is a call  *)
(* of Verifier with what surrounds it: Begin is the middleware calling     *)
(* Verify, and the step that ends the call hands the middleware a          *)
(* Principal or a typed error.  Here the context is that of the very       *)
(* answer, through the cache, and not a fixed function of the account.     *)
(*                                                                         *)
(* Left to Requests: extraction, RequireKind, the dispatch by kind, and    *)
(* that a Principal is an object.  A route here is mounted over one        *)
(* verifier, and Principals are values, which PrincipalsAreOwn allows.     *)
(***************************************************************************)
EXTENDS Verifier

CONSTANTS
  Routes,           \* [verifier : Options.Verifier, space : is SpaceHeader set]
  Spaces,
  Holds,            \* Holds[g]: the spaces an account with grant g is a member of
  SpaceHeaders      \* bound: the space headers clients send, or None

ASSUME ServiceAssumption ==
  /\ Routes \subseteq [verifier : Instances, space : BOOLEAN]
  /\ Holds \in [Grants -> (SUBSET Spaces) \ {{}}]
  /\ SpaceHeaders \subseteq Spaces \cup {None}
  /\ None \notin Spaces \cup {"401", "403 disabled", "403 forbidden", "503"}

VARIABLES
  stage,            \* stage[r]: how far request r has come
  route, sid,       \* its route and its space header
  space,            \* space[r]: SpaceID of the Principal its handler is given
  wrote             \* wrote[r]: the response the middleware wrote, as a status

requestVars == <<stage, route, sid, space, wrote>>
serviceVars == <<vars, requestVars>>

Stages == {"idle", "verifying", "serving", "answered"}

Responses == {"401", "403 disabled", "403 forbidden", "503"}

ServiceTypeOK ==
  /\ TypeOK
  /\ stage \in [Calls -> Stages]
  /\ route \in [Calls -> Routes \cup {None}]
  /\ sid \in [Calls -> Spaces \cup {None}]
  /\ space \in [Calls -> Spaces \cup {None}]
  /\ wrote \in [Calls -> Responses \cup {None}]
  /\ \A r \in Calls :
       /\ (stage[r] = "idle") = (pc[r] = "idle")
       /\ stage[r] \in {"serving", "answered"} => pc[r] = "done"
       /\ (stage[r] = "answered") = (wrote[r] # None)
       /\ stage[r] # "idle" => route[r] \in Routes /\ inst[r] = route[r].verifier

ServiceInit ==
  /\ Init
  /\ stage = [r \in Calls |-> "idle"]
  /\ route = [r \in Calls |-> None]
  /\ sid = [r \in Calls |-> None]
  /\ space = [r \in Calls |-> None]
  /\ wrote = [r \in Calls |-> None]

----------------------------------------------------------------------------
(* A request. *)

\* A request with a credential of the route's kind and space header s.
Arrive(r, t, c, s) ==
  /\ stage[r] = "idle"
  /\ Begin(r, t.verifier, c) \/ Refuse(r, t.verifier, c)
  /\ stage' = [stage EXCEPT ![r] = "verifying"]
  /\ route' = [route EXCEPT ![r] = t]
  /\ sid' = [sid EXCEPT ![r] = s]
  /\ UNCHANGED <<space, wrote>>

Looks(r) == HitPos(r) \/ MissPos(r) \/ HitNeg(r) \/ MissNeg(r)

HearsOfServer(r) ==
  AnswerAccepts(r) \/ AnswerLacksUid(r) \/ AnswerRejects(r) \/ ReadBody(r)

\* The call proceeds inside Verify.
Verifies(r) ==
  /\ Looks(r) \/ HearsOfServer(r) \/ RequestFails(r) \/ TimeOut(r) \/ Finalize(r)
  /\ UNCHANGED requestVars

\* Verify has returned to the middleware.
Returned(r, outcomes) ==
  /\ stage[r] = "verifying" /\ pc[r] = "done"
  /\ verdict[r] \in outcomes

Answer(r, status) ==
  /\ stage' = [stage EXCEPT ![r] = "answered"]
  /\ wrote' = [wrote EXCEPT ![r] = status]
  /\ UNCHANGED <<vars, route, sid, space>>

\* Mutant: what is not known better is unauthorized.
StatusByDefault(kind) == IF kind = "disabled" THEN "403 disabled" ELSE "401"

\* Mutant: an infrastructure failure has no status of its own.
StatusIfKnown(kind) ==
  IF kind = "invalid_credential" THEN "401"
  ELSE IF kind = "disabled" THEN "403 disabled" ELSE None

\* DefaultErrorMapper, for the errors Verify returns.
StatusFor(kind) ==
  IF kind = "invalid_credential" THEN "401"
  ELSE IF kind = "disabled" THEN "403 disabled" ELSE "503"

RespondError(r) ==
  /\ Returned(r, Errors)
  /\ Answer(r, StatusFor(verdict[r].kind))

\* The early returns of SpaceFromHeader: nothing to enrich.
Enrichable(r) == route[r].space /\ verdict[r].realm = "session" /\ sid[r] # None

\* Only a context the server affirmed lets the client's space be bound.
MayBind(r) == verdict[r].context = "included" /\ sid[r] \in Holds[verdict[r].grant]

Forbid(r) ==
  /\ Returned(r, Principals)
  /\ Enrichable(r) /\ verdict[r].context # "not_requested" /\ ~MayBind(r)
  /\ Answer(r, "403 forbidden")

\* The copy goes into the request's context and the handler runs.
Serve(r, s) ==
  /\ stage' = [stage EXCEPT ![r] = "serving"]
  /\ space' = [space EXCEPT ![r] = s]
  /\ UNCHANGED <<vars, route, sid, wrote>>

BindSpace(r) ==
  /\ Returned(r, Principals)
  /\ Enrichable(r) /\ MayBind(r)
  /\ Serve(r, sid[r])

\* The SpaceID the verifier fills in: octo-server names a bot's or api key's.
OwnSpace(p) == IF p.realm = "session" THEN None ELSE CHOOSE s \in Holds[p.grant] : TRUE

\* Nothing to enrich, or a context that was never requested.
PassOn(r) ==
  /\ Returned(r, Principals)
  /\ ~Enrichable(r) \/ verdict[r].context = "not_requested"
  /\ Serve(r, OwnSpace(verdict[r]))

Settle(r) == RespondError(r) \/ Forbid(r) \/ BindSpace(r) \/ PassOn(r)

\* The handler returns, or the response is on its way.
Finish(r) ==
  /\ stage[r] \in {"serving", "answered"}
  /\ Return(r)
  /\ stage' = [stage EXCEPT ![r] = "idle"]
  /\ route' = [route EXCEPT ![r] = None]
  /\ sid' = [sid EXCEPT ![r] = None]
  /\ space' = [space EXCEPT ![r] = None]
  /\ wrote' = [wrote EXCEPT ![r] = None]

\* octo-server, the cache's memory and time go on beside the requests.
Environment ==
  /\ \/ \E a \in Accounts, status \in Statuses : SetAccount(a, status)
     \/ \E k \in Keys : Evict(k)
     \/ Tick
  /\ UNCHANGED requestVars

ServiceNext ==
  \/ \E r \in Calls :
       \/ \E t \in Routes, c \in Creds, s \in SpaceHeaders : Arrive(r, t, c, s)
       \/ Verifies(r) \/ Settle(r) \/ Finish(r)
  \/ Environment

ServiceSpec == ServiceInit /\ [][ServiceNext]_serviceVars

\* What r's goroutine does by itself: not the answers it waits for.
Proceeds(r) ==
  \/ Settle(r)
  \/ (Looks(r) \/ TimeOut(r) \/ Finalize(r)) /\ UNCHANGED requestVars

\* As in Verifier: goroutines run, timers fire, and time passes however busy the
\* service is.  Nothing is assumed of octo-server or of handlers.
ServiceFairness ==
  /\ SF_serviceVars(Tick /\ UNCHANGED requestVars)
  /\ \A r \in Calls : WF_serviceVars(Proceeds(r))

FairServiceSpec == ServiceSpec /\ ServiceFairness

----------------------------------------------------------------------------
(* Properties. *)

\* The account r asks for was s a window before Verify decided, at most.
TrueInWindow(r, s) ==
  mark[r] <= Last(AccountOf(r), s) + WindowOf[AccountOf(r)][s]

AsksContext(r) == Include[route[r].verifier]

\* A session's space header means the same on every request of a route, whatever
\* routes and verifiers share the cache: where the verifier asks for the context,
\* a handler that runs has exactly that space, never the unbound Principal that
\* was cached for a verifier that does not ask; where it does not ask, the header
\* is neither bound nor a reason to refuse (SpaceFromHeader in enrich.go over the
\* keys of newVerifyContext in http_verifier.go).
HeaderHonoured ==
  \A r \in Calls :
    /\ (stage[r] = "serving" /\ Realm[route[r].verifier] = "session") =>
         space[r] = IF route[r].space /\ AsksContext(r) THEN sid[r] ELSE None
    /\ wrote[r] = "403 forbidden" => route[r].space /\ sid[r] # None /\ AsksContext(r)

\* Whatever a client is given has its cause at octo-server, a window ago at most,
\* through caches, retries and late answers: a handler runs with a space the
\* account was a member of, by the grant it ran for; a "forbidden" was right for a
\* grant the account had, or the server did not affirm the context; a 401 or
\* "disabled" was true, unless the credential is refused unseen or the answer
\* lacked the uid; and a 503 is a failure of this request's own question (Wrap in
\* nethttp.go, New in gin.go, echo.go and wkhttp.go, over Verify).
OutcomesFounded ==
  \A r \in Calls :
    /\ stage[r] = "serving" =>
         \E g \in Grants : TrueInWindow(r, g) /\ space[r] \in Holds[g] \cup {None}
    /\ wrote[r] = "403 forbidden" =>
         \E g \in Grants :
           /\ TrueInWindow(r, g)
           /\ \/ sid[r] \notin Holds[g]
              \/ verdict[r].context \in {"not_included", "unknown_server"}
    /\ wrote[r] = "401" =>
         \/ TrueInWindow(r, "revoked")
         \/ <<Realm[inst[r]], cred[r]>> \in Unsendable
         \/ verdict[r].why = "missing_uid"
    /\ wrote[r] = "403 disabled" => TrueInWindow(r, "disabled")
    /\ wrote[r] = "503" => count[r].miss = 1 /\ count[r].hit = 0

\* Every request reaches its handler or is answered, even when octo-server never
\* answers: no call inside Verify and no step of the middleware waits for ever
\* (the http.Client's timeout, DefaultHTTPTimeout in config.go).
EveryRequestEnds ==
  \A r \in Calls : stage[r] = "verifying" ~> stage[r] \in {"serving", "answered"}
=============================================================================
