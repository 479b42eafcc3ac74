------------------------------ MODULE Resolver ------------------------------
(***************************************************************************)
(* Bot Resolve: WrapBotResolve in go/middleware/nethttp/resolve_bot.go     *)
(* (expressBotResolveMiddleware in TypeScript) over Resolve in             *)
(* go/resolver.go.  A route asks octo-server, for the bot that calls it    *)
(* and a space the caller names, whether the bot may act as itself         *)
(* (AS_BOT) or for its owner (OBO) with the action the route fixes.        *)
(* Nothing is cached: every request asks anew, while octo-server changes   *)
(* its mind, and what answers may be an older server that ignores a field, *)
(* or a gateway.                                                           *)
(***************************************************************************)
EXTENDS Integers, Sequences, Credentials

CONSTANTS
  Requests,         \* requests in flight, one Resolve each
  Routes,           \* the routes: mode and Action
  Actions,          \* what OBO routes act for; NoAction on AS_BOT routes
  Spaces,
  Malformed,        \* spaces octo-server calls a malformed request
  Presented,        \* bound: the headers clients present
  Markers,          \* bound: the obo query parameter they send
  Standings,        \* bound: what octo-server may hold of a bot
  NoAction,         \* the empty string
  BlankAction,      \* an Action of white space only
  BlankSpace,       \* a space_id that is missing, repeated or white space
  None

Questions == [mode : {"AS_BOT", "OBO"}, space : Spaces,
              action : Actions \cup {NoAction}]

\* WrapBotResolve panics unless the Action is fixed for OBO only.  It tests for
\* the empty string; Resolve will refuse an Action of white space.
ASSUME RouteAssumption ==
  /\ Routes \subseteq [mode : {"AS_BOT", "OBO"}, action : Actions \cup {NoAction, BlankAction}]
  /\ \A t \in Routes : (t.mode = "OBO") <=> (t.action # NoAction)
  /\ NoAction \notin Actions /\ BlankAction \notin Actions /\ NoAction # BlankAction

ASSUME ClientAssumption ==
  /\ Presented \subseteq Headers
  /\ Markers \subseteq {"absent", "true", "other"}
  /\ BlankSpace \notin Spaces
  /\ Malformed \subseteq Spaces

ASSUME NoneAssumption ==
  /\ None \notin Routes /\ None \notin Presented /\ None \notin Markers
  /\ None \notin Spaces /\ None # BlankSpace

----------------------------------------------------------------------------
(* octo-server: what it holds of a bot, and how it decides a question. *)

Bots == {raw \in Raws : raw.prefix = "bf_"}

\* state: is the token known; spaces: where the bot may act; actions: what its
\* owner lets it do for him.
BotStandings == [state : {"active", "disabled", "unknown"}, spaces : SUBSET Spaces,
                 actions : SUBSET Actions]

ASSUME StandingAssumption == Standings \subseteq [Bots -> BotStandings]

Decide(b, q) ==
  IF b.state = "unknown" THEN "invalid_credential"
  ELSE IF b.state = "disabled" THEN "disabled"
  ELSE IF q.space \in Malformed THEN "invalid_request"
  ELSE IF q.space \notin b.spaces THEN "space_not_allowed"
  ELSE IF q.mode = "OBO" /\ b.actions = {} THEN "delegation_denied"
  ELSE IF q.mode = "OBO" /\ q.action \notin b.actions THEN "action_not_allowed"
  ELSE "permitted"

Codes == {"invalid_request", "invalid_credential", "disabled", "space_not_allowed",
          "delegation_denied", "action_not_allowed", "infra_failure"}

StatusFor(code) ==
  IF code = "invalid_request" THEN 400
  ELSE IF code = "invalid_credential" THEN 401
  ELSE IF code = "infra_failure" THEN 503
  ELSE 403

\* Answers.  A 200 says which question it permits and whether every field is
\* there; any other carries a code and a request_id, or not.
Permits == [status : {200}, question : Questions, complete : BOOLEAN]

Denials == [status : {400, 401, 403, 500, 503}, code : Codes \cup {None},
            requestId : BOOLEAN]

Answers == Permits \cup Denials

ASSUME AnswerAssumption == None \notin Answers

VARIABLES
  standing,         \* standing[b]: what octo-server holds of bot b
  stage,            \* stage[r]: how far request r has come
  route, header, marker, space, subject, \* what r asks: subject: it names one
  answer,           \* answer[r]: what was answered, as far as it has come
  result,           \* result[r]: what Resolve, or a check before it, decided
  truths,           \* history: what octo-server held of r's question since it was sent
  metrics           \* metrics[r]: r's calls of the MetricsCollector

callVars == <<route, header, marker, space, subject>>
vars == <<standing, stage, route, header, marker, space, subject, answer, result,
          truths, metrics>>

Stages == {"idle", "resolving", "sent", "answering", "settled"}

ErrorKinds == {"invalid_credential", "disabled", "forbidden", "invalid_request",
               "infra_failure"}

\* What Resolve returns: the question a principal was permitted, or an error.
Results == [kind : {"permitted"}, question : Questions] \cup [kind : ErrorKinds, question : {None}]

Permitted(q) == [kind |-> "permitted", question |-> q]
Failure(kind) == [kind |-> kind, question |-> None]

Tags == {"miss-ok", "miss-err", "error"}

NoMetrics == [errors |-> 0, observed |-> <<>>]

TypeOK ==
  /\ standing \in Standings
  /\ stage \in [Requests -> Stages]
  /\ route \in [Requests -> Routes \cup {None}]
  /\ header \in [Requests -> Presented \cup {None}]
  /\ marker \in [Requests -> Markers \cup {None}]
  /\ space \in [Requests -> Spaces \cup {BlankSpace, None}]
  /\ subject \in [Requests -> BOOLEAN]
  /\ answer \in [Requests -> Answers \cup {None}]
  /\ result \in [Requests -> Results \cup {None}]
  /\ truths \in [Requests -> SUBSET (Codes \cup {"permitted"})]
  /\ metrics \in [Requests -> [errors : Nat, observed : Seq(Tags)]]

Init ==
  /\ standing \in Standings
  /\ stage = [r \in Requests |-> "idle"]
  /\ route = [r \in Requests |-> None]
  /\ header = [r \in Requests |-> None]
  /\ marker = [r \in Requests |-> None]
  /\ space = [r \in Requests |-> None]
  /\ subject = [r \in Requests |-> FALSE]
  /\ answer = [r \in Requests |-> None]
  /\ result = [r \in Requests |-> None]
  /\ truths = [r \in Requests |-> {}]
  /\ metrics = [r \in Requests |-> NoMetrics]

----------------------------------------------------------------------------
(* WrapBotResolve: the checks before Resolve. *)

Receive(r, t, h, m, s, n) ==
  /\ stage[r] = "idle"
  /\ route' = [route EXCEPT ![r] = t]
  /\ header' = [header EXCEPT ![r] = h]
  /\ marker' = [marker EXCEPT ![r] = m]
  /\ space' = [space EXCEPT ![r] = s]
  /\ subject' = [subject EXCEPT ![r] = n]
  /\ UNCHANGED <<standing, answer, truths, metrics>>

\* The middleware writes an error of this kind; Resolve is not called.
Refuse(r, kind) ==
  /\ stage' = [stage EXCEPT ![r] = "settled"]
  /\ result' = [result EXCEPT ![r] = Failure(kind)]

\* Mutant: an OBO route takes any obo parameter for the marker.
MarkerPresent(t, m) == IF t.mode = "OBO" THEN m # "absent" ELSE m = "absent"

\* obo=true exactly once on an OBO route, no obo at all on an AS_BOT route.
MarkerFits(t, m) == IF t.mode = "OBO" THEN m = "true" ELSE m = "absent"

RefuseCredential(r, t, h, m, s, n) ==
  /\ ExtractedKind(h) # "bot"
  /\ Receive(r, t, h, m, s, n)
  /\ Refuse(r, "invalid_credential")

RefuseParameters(r, t, h, m, s, n) ==
  /\ ExtractedKind(h) = "bot"
  /\ ~MarkerFits(t, m) \/ n
  /\ Receive(r, t, h, m, s, n)
  /\ Refuse(r, "invalid_request")

CallResolve(r, t, h, m, s, n) ==
  /\ ExtractedKind(h) = "bot"
  /\ MarkerFits(t, m) /\ ~n
  /\ Receive(r, t, h, m, s, n)
  /\ stage' = [stage EXCEPT ![r] = "resolving"]
  /\ UNCHANGED result

----------------------------------------------------------------------------
(* Resolve: its own checks, the request, what is answered. *)

Credential(r) == ReadCredentialHeader(header[r])

\* What the route asks for this request.
Question(r) == [mode |-> route[r].mode, space |-> space[r], action |-> route[r].action]

Truth(r) == Decide(standing[Credential(r)], Question(r))

\* The deferred metrics: one observation, and one error if Resolve failed.
Record(r, res) ==
  metrics' = [metrics EXCEPT ![r] =
    [errors   |-> @.errors + (IF res.kind # "permitted" THEN 1 ELSE 0),
     observed |-> Append(@.observed,
                         IF res.kind = "permitted" THEN "miss-ok"
                         ELSE IF res.kind = "infra_failure" THEN "error" ELSE "miss-err")]]

\* Resolve returns res, and the middleware writes it or calls the handler.
Return(r, res) ==
  /\ stage' = [stage EXCEPT ![r] = "settled"]
  /\ result' = [result EXCEPT ![r] = res]
  /\ Record(r, res)
  /\ UNCHANGED <<standing, callVars, answer>>

\* Resolve refuses what can name no bot, no space or no action.
Asks(r) ==
  /\ Credential(r).prefix = "bf_" /\ Credential(r).tail # "bare"
  /\ space[r] # BlankSpace
  /\ route[r].action # BlankAction

\* Mutant: the metrics are deferred after these checks.
ResolveRefusesUnseen(r) ==
  /\ stage[r] = "resolving" /\ ~Asks(r)
  /\ Refuse(r, IF Credential(r).prefix # "bf_" \/ Credential(r).tail = "bare"
               THEN "invalid_credential" ELSE "invalid_request")
  /\ UNCHANGED <<standing, callVars, answer, truths, metrics>>

ResolveRefuses(r) ==
  /\ stage[r] = "resolving"
  /\ IF Credential(r).prefix # "bf_" \/ Credential(r).tail = "bare"
     THEN Return(r, Failure("invalid_credential"))
     ELSE (space[r] = BlankSpace \/ route[r].action = BlankAction) /\ Return(r, Failure("invalid_request"))
  /\ UNCHANGED truths

SendRequest(r) ==
  /\ stage[r] = "resolving"
  /\ Asks(r)
  /\ stage' = [stage EXCEPT ![r] = "sent"]
  /\ truths' = [truths EXCEPT ![r] = {Truth(r)}]
  /\ UNCHANGED <<standing, callVars, answer, result, metrics>>

Respond(r, a) ==
  /\ stage[r] = "sent"
  /\ stage' = [stage EXCEPT ![r] = "answering"]
  /\ answer' = [answer EXCEPT ![r] = a]
  /\ UNCHANGED <<standing, callVars, result, truths, metrics>>

\* octo-server decides what it was asked.
ServerDecides(r) ==
  /\ stage[r] = "sent"
  /\ IF Truth(r) = "permitted"
     THEN Respond(r, [status |-> 200, question |-> Question(r), complete |-> TRUE])
     ELSE Respond(r, [status |-> StatusFor(Truth(r)), code |-> Truth(r), requestId |-> TRUE])

\* An older server reads another question into the request, and what it permits
\* it truly permits; or it leaves fields out of its answer.
OldServerDecides(r) ==
  /\ stage[r] = "sent"
  /\ \E q \in Questions, complete \in BOOLEAN :
       /\ (q.mode = "OBO") <=> (q.action # NoAction)
       /\ Decide(standing[Credential(r)], q) = "permitted"
       /\ Respond(r, [status |-> 200, question |-> q, complete |-> complete])

\* Something in between answers: never with a request_id on a status and code that
\* fit each other, unless to say that it failed.
GatewayAnswers(r) ==
  \E a \in Denials :
    /\ \/ ~a.requestId
       \/ a.code = None \/ a.code = "infra_failure"
       \/ a.status # StatusFor(a.code)
    /\ Respond(r, a)

\* Mutant: the timer is cleared once the status line is there.
TimedToStatus(r) == stage[r] = "sent"

\* The request timeout covers the body.
Timed(r) == stage[r] \in {"sent", "answering"}

\* A refused connection, a cancelled context, a body cut off or too long.
RequestFails(r) ==
  /\ stage[r] \in {"sent", "answering"}
  /\ Return(r, Failure("infra_failure"))
  /\ UNCHANGED truths

TimeOut(r) == Timed(r) /\ RequestFails(r)

\* Mutant: the delegation's action is not compared.
MatchesButAction(r, a) ==
  /\ a.complete
  /\ a.question.mode = route[r].mode
  /\ a.question.space = space[r]

\* The identity checks of Resolve: the mode, both spaces and, for OBO, the action
\* are the ones asked for; the subject is of the kind the mode calls for; no id
\* is missing.
Matches(r, a) ==
  /\ a.complete
  /\ a.question.mode = route[r].mode
  /\ a.question.space = space[r]
  /\ a.question.action = route[r].action

\* Mutant: the status alone tells the kind.
WireKindByStatus(a) ==
  IF a.status = 400 THEN "invalid_request"
  ELSE IF a.status = 401 THEN "invalid_credential"
  ELSE IF a.status = 403 THEN "forbidden" ELSE "infra_failure"

\* Mutant: octo-server's code is passed on as the kind.
WireKindIsCode(a) ==
  IF ~a.requestId \/ a.code = None \/ a.status # StatusFor(a.code) THEN "infra_failure"
  ELSE a.code

\* resolveWireError: a code counts only with its own status and a request_id.
WireKind(a) ==
  IF ~a.requestId \/ a.code = None \/ a.status # StatusFor(a.code) THEN "infra_failure"
  ELSE IF a.code \in {"space_not_allowed", "delegation_denied", "action_not_allowed"}
       THEN "forbidden"
  ELSE a.code

ResolvePermits(r) ==
  /\ stage[r] = "answering" /\ answer[r].status = 200
  /\ Matches(r, answer[r])
  /\ Return(r, Permitted(answer[r].question))
  /\ UNCHANGED truths

ResolveMismatch(r) ==
  /\ stage[r] = "answering" /\ answer[r].status = 200
  /\ ~Matches(r, answer[r])
  /\ Return(r, Failure("infra_failure"))
  /\ UNCHANGED truths

ResolveDenied(r) ==
  /\ stage[r] = "answering" /\ answer[r].status # 200
  /\ Return(r, Failure(WireKind(answer[r])))
  /\ UNCHANGED truths

Finish(r) ==
  /\ stage[r] = "settled"
  /\ stage' = [stage EXCEPT ![r] = "idle"]
  /\ route' = [route EXCEPT ![r] = None]
  /\ header' = [header EXCEPT ![r] = None]
  /\ marker' = [marker EXCEPT ![r] = None]
  /\ space' = [space EXCEPT ![r] = None]
  /\ subject' = [subject EXCEPT ![r] = FALSE]
  /\ answer' = [answer EXCEPT ![r] = None]
  /\ result' = [result EXCEPT ![r] = None]
  /\ truths' = [truths EXCEPT ![r] = {}]
  /\ metrics' = [metrics EXCEPT ![r] = NoMetrics]
  /\ UNCHANGED standing

\* octo-server changes what it holds; requests under way may meet the old or
\* the new.
ServerChanges(held) ==
  /\ held # standing
  /\ standing' = held
  /\ truths' = [r \in Requests |->
       IF stage[r] \in {"sent", "answering"}
       THEN truths[r] \cup {Decide(held[Credential(r)], Question(r))}
       ELSE truths[r]]
  /\ UNCHANGED <<stage, callVars, answer, result, metrics>>

Resolves(r) ==
  \/ ResolveRefuses(r) \/ SendRequest(r)
  \/ ResolvePermits(r) \/ ResolveMismatch(r) \/ ResolveDenied(r)

Next ==
  \/ \E r \in Requests :
       \/ \E t \in Routes, h \in Presented, m \in Markers,
             s \in Spaces \cup {BlankSpace}, n \in BOOLEAN :
            \/ RefuseCredential(r, t, h, m, s, n)
            \/ RefuseParameters(r, t, h, m, s, n)
            \/ CallResolve(r, t, h, m, s, n)
       \/ ServerDecides(r) \/ OldServerDecides(r) \/ GatewayAnswers(r)
       \/ RequestFails(r) \/ TimeOut(r) \/ Resolves(r) \/ Finish(r)
  \/ \E held \in Standings : ServerChanges(held)

Spec == Init /\ [][Next]_vars

\* A runnable goroutine runs and a timer fires.
Fairness ==
  \A r \in Requests :
    WF_vars(ResolveRefuses(r) \/ SendRequest(r)) /\ WF_vars(TimeOut(r))

FairSpec == Spec /\ Fairness

----------------------------------------------------------------------------
(* Properties. *)

Handled(r) == stage[r] = "settled" /\ result[r].kind = "permitted"

\* No handler runs unless octo-server, at some moment while this request waited,
\* held the route's own question permitted: this mode, this action, this space.
\* An OBO route never falls back to the bot itself, nor an AS_BOT route to its
\* owner, whatever older servers and gateways answer (Resolve in resolver.go,
\* WrapBotResolve in resolve_bot.go).
PermittedAsAsked ==
  \A r \in Requests : Handled(r) =>
    /\ result[r].question = Question(r) /\ "permitted" \in truths[r]
    /\ marker[r] = (IF route[r].mode = "OBO" THEN "true" ELSE "absent")
    /\ ~subject[r]

Forbidding == {"space_not_allowed", "delegation_denied", "action_not_allowed"}

Wrote(r, kind) == stage[r] = "settled" /\ result[r].kind = kind

\* A request is turned away as unauthorized, disabled or forbidden only when
\* octo-server itself held that while the request waited, or the credential is no
\* bot token; and as malformed only when it is, or its route is.  All else, a
\* gateway's 401 or 403 included, is an infrastructure failure (resolveWireError
\* in resolver.go).
DeniedByServer ==
  \A r \in Requests :
    /\ Wrote(r, "invalid_credential") =>
         \/ "invalid_credential" \in truths[r]
         \/ ExtractedKind(header[r]) # "bot"
         \/ Credential(r).prefix = "app_" \/ Credential(r).tail = "bare"
    /\ Wrote(r, "disabled") => "disabled" \in truths[r]
    /\ Wrote(r, "forbidden") => truths[r] \cap Forbidding # {}
    /\ Wrote(r, "invalid_request") =>
         \/ "invalid_request" \in truths[r]
         \/ ~MarkerFits(route[r], marker[r]) \/ subject[r]
         \/ space[r] = BlankSpace \/ route[r].action = BlankAction

\* The middleware's checks fail, and Resolve is never called.
TurnedAway(r) ==
  ExtractedKind(header[r]) # "bot" \/ ~MarkerFits(route[r], marker[r]) \/ subject[r]

\* Every Resolve is observed exactly once, under the result it returns, and counts
\* an error exactly when it returns one, on its early refusals of a credential, a
\* space or an action as much as after the request; a request the middleware turns
\* away is not its business (the deferred function in Resolve, resolver.go).
ResolveAccounting ==
  \A r \in Requests : stage[r] = "settled" =>
    metrics[r] =
      IF TurnedAway(r) THEN NoMetrics
      ELSE IF Handled(r) THEN [errors |-> 0, observed |-> <<"miss-ok">>]
      ELSE IF result[r].kind = "infra_failure"
           THEN [errors |-> 1, observed |-> <<"error">>]
           ELSE [errors |-> 1, observed |-> <<"miss-err">>]

\* The bots and the questions octo-server can be asked about.
Askable == [bot : Bots, question : Questions]

ASSUME AskableAssumption == None \notin Askable \cup Results \cup Codes \cup {"permitted"}

Held == [k \in Askable |-> Decide(standing[k.bot], k.question)]

Waiting ==
  [r \in Requests |-> IF stage[r] \in {"sent", "answering"}
                      THEN [bot |-> Credential(r), question |-> Question(r)] ELSE None]

\* The decision an answer carries, if it carries one on r's question.
Carries(r, a) ==
  IF a.status = 200 THEN IF Matches(r, a) THEN "permitted" ELSE None
  ELSE IF WireKind(a) # "infra_failure" THEN a.code ELSE None

Decided ==
  [r \in Requests |-> IF stage[r] = "answering" THEN Carries(r, answer[r]) ELSE None]

Settled == [r \in Requests |-> IF stage[r] = "settled" THEN result[r] ELSE None]

Decisions == INSTANCE BotDecisions WITH
  Asked <- Askable, Decisions <- Codes \cup {"permitted"}, Nothing <- None,
  held <- Held, asked <- Waiting, decision <- Decided, told <- Settled

\* A question asked over HTTP, of servers old and new and through gateways, is as
\* good as one decided on the spot: octo-server's decision on the route's own
\* question, taken at one moment of the wait and not altered since, is what the
\* route is told, or it is told of a failure (Resolve in resolver.go).
DecidesAtOnce == Decisions!DecisionSpec

\* Every request is settled, even when nothing answers or the answer's body never
\* ends: the timeout covers both (http.Client.Timeout in config.go).
EveryResolveSettles ==
  \A r \in Requests : stage[r] = "resolving" ~> stage[r] = "settled"

=============================================================================
