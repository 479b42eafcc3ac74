------------------------------- MODULE Notify -------------------------------
(***************************************************************************)
(* The service-to-service channel of go/internal_helpers: a producer       *)
(* process posts notifications through NotifyClient (notify_client.go); a  *)
(* consumer process guards its handler with the internal-token middleware  *)
(* (NewInternalTokenGinMiddleware, WrapInternalTokenNetHTTP).  Each reads  *)
(* the shared secret from its own environment when it starts and never     *)
(* again; an operator changes the environments, processes stop and start,  *)
(* requests and answers are lost or late, and what stands in front of the  *)
(* consumer may redirect or fail.                                          *)
(***************************************************************************)
EXTENDS Integers

CONSTANTS
  Sends,            \* calls of Send the producer may have open
  Secrets,          \* non-empty shared secrets
  Clients,          \* the http.Clients NotifyConfig may carry
  MaxHops,          \* bound: redirects an application's own policy follows
  None

\* redirect: no CheckRedirect, or one that follows.  own: HTTPClient is nil and
\* NewNotifyClient makes the client.  timed: its Timeout is positive, which an own
\* client's is unless NotifyConfig.Timeout is negative: only zero is replaced.
HTTPClients == [own : BOOLEAN, redirect : {"unset", "follows"}, timed : BOOLEAN]

ASSUME ClientAssumption ==
  /\ Clients \subseteq HTTPClients
  /\ \A c \in Clients : c.own => c.redirect = "unset"
  /\ None \notin HTTPClients

ASSUME NoneAssumption == None \notin Secrets \cup {"nil", "error"}

ASSUME BoundAssumption == MaxHops \in Nat

Processes == {"producer", "consumer"}
Hosts == {"configured", "elsewhere"}
Codes == {200, 307, 401, 500}

VARIABLES
  env,              \* env[p]: the variable TokenEnvVar names; None: unset or empty
  token,            \* NotifyClient.token; None: the producer is not running
  client,           \* NotifyClient.client, None with it
  tokenBytes,       \* the secret the middleware holds; None: not running
  stage,            \* stage[s]: how far Send has come
  request,          \* request[s]: what is on the wire
  response,         \* response[s]: what has come back, status line first
  outcome,          \* outcome[s]: "nil" or "error"
  hops,             \* redirects followed by s
  handled,          \* history: how often the consumer's handler ran for s
  reached,          \* history: hosts that were sent the token of s
  by,               \* history: the client s was made with
  parted            \* history: the processes disagreed on the secret during s

processVars == <<env, token, client, tokenBytes>>
sendVars == <<stage, request, response, outcome, hops, handled, reached, by, parted>>
vars == <<env, token, client, tokenBytes, stage, request, response, outcome, hops,
          handled, reached, by, parted>>

Wired == [to : Hosts, token : Secrets]

ASSUME WireAssumption == None \notin Wired

Answered == [status : Codes, location : Hosts]

TypeOK ==
  /\ env \in [Processes -> Secrets \cup {None}]
  /\ token \in Secrets \cup {None}
  /\ client \in Clients \cup {None}
  /\ (client = None) <=> (token = None)
  /\ tokenBytes \in Secrets \cup {None}
  /\ stage \in [Sends -> {"idle", "sending", "draining", "settled"}]
  /\ request \in [Sends -> Wired \cup {None}]
  /\ response \in [Sends -> Answered \cup {None}]
  /\ outcome \in [Sends -> {"nil", "error", None}]
  /\ hops \in [Sends -> 0 .. MaxHops]
  /\ handled \in [Sends -> Nat]
  /\ reached \in [Sends -> SUBSET Hosts]
  /\ by \in [Sends -> Clients \cup {None}]
  /\ parted \in [Sends -> BOOLEAN]

Init ==
  /\ env \in [Processes -> Secrets \cup {None}]
  /\ token = None /\ client = None /\ tokenBytes = None
  /\ stage = [s \in Sends |-> "idle"]
  /\ request = [s \in Sends |-> None]
  /\ response = [s \in Sends |-> None]
  /\ outcome = [s \in Sends |-> None]
  /\ hops = [s \in Sends |-> 0]
  /\ handled = [s \in Sends |-> 0]
  /\ reached = [s \in Sends |-> {}]
  /\ by = [s \in Sends |-> None]
  /\ parted = [s \in Sends |-> FALSE]

----------------------------------------------------------------------------
(* Processes start, stop, and have their environment changed. *)

SetEnv(p, v) ==
  /\ env[p] # v
  /\ env' = [env EXCEPT ![p] = v]
  /\ UNCHANGED <<token, client, tokenBytes, sendVars>>

\* Mutant: an empty token is taken for a token.
StartProducerUnchecked(c) ==
  /\ token = None
  /\ token' = env["producer"]
  /\ client' = c
  /\ UNCHANGED <<env, tokenBytes, sendVars>>

\* NewNotifyClient: without a token there is no client.
StartProducer(c) ==
  /\ token = None /\ env["producer"] # None
  /\ token' = env["producer"]
  /\ client' = c
  /\ UNCHANGED <<env, tokenBytes, sendVars>>

\* Open calls die with the process; what they put on the wire does not.
StopProducer ==
  /\ token # None
  /\ token' = None /\ client' = None
  /\ stage' = [s \in Sends |-> "idle"]
  /\ response' = [s \in Sends |-> None]
  /\ outcome' = [s \in Sends |-> None]
  /\ UNCHANGED <<env, tokenBytes, request, hops, handled, reached, by, parted>>

\* resolveInternalTokenConfig panics without a token: the process does not start.
\* Open sends remember when the two secrets differ.
StartConsumer ==
  /\ tokenBytes = None /\ env["consumer"] # None
  /\ tokenBytes' = env["consumer"]
  /\ parted' = [s \in Sends |-> \/ parted[s]
                                \/ request[s] # None /\ request[s].token # env["consumer"]]
  /\ UNCHANGED <<env, token, client, stage, request, response, outcome, hops, handled, reached, by>>

StopConsumer ==
  /\ tokenBytes # None
  /\ tokenBytes' = None
  /\ UNCHANGED <<env, token, client, sendVars>>

----------------------------------------------------------------------------
(* Send. *)

\* Mutant: the redirect policy is left to net/http, which follows.
FollowsByDefault(c) == ~c.own \/ c.redirect = "follows"

\* NewNotifyClient installs a policy that follows nothing, unless the application
\* brought one.
Follows(c) == c.redirect = "follows"

\* A call starts once nothing of the last one is left on the wire.
CallSend(s) ==
  /\ token # None
  /\ stage[s] = "idle" /\ request[s] = None
  /\ stage' = [stage EXCEPT ![s] = "sending"]
  /\ request' = [request EXCEPT ![s] = [to |-> "configured", token |-> token]]
  /\ hops' = [hops EXCEPT ![s] = 0]
  /\ handled' = [handled EXCEPT ![s] = 0]
  /\ reached' = [reached EXCEPT ![s] = {}]
  /\ by' = [by EXCEPT ![s] = client]
  /\ parted' = [parted EXCEPT ![s] = tokenBytes # None /\ tokenBytes # token]
  /\ UNCHANGED <<processVars, response, outcome>>

Settle(s, result) ==
  /\ stage' = [stage EXCEPT ![s] = "settled"]
  /\ outcome' = [outcome EXCEPT ![s] = result]

\* Refused, reset, cancelled: Do returns an error, whatever becomes of the request.
SendFails(s) ==
  /\ stage[s] = "sending"
  /\ Settle(s, "error")
  /\ UNCHANGED <<processVars, request, response, hops, handled, reached, by, parted>>

\* Do follows a redirect that the client's policy lets it follow.
FollowRedirect(s) ==
  /\ stage[s] = "sending"
  /\ response[s] # None /\ response[s].status = 307
  /\ Follows(client) /\ hops[s] < MaxHops
  /\ request' = [request EXCEPT ![s] = [to |-> response[s].location, token |-> token]]
  /\ response' = [response EXCEPT ![s] = None]
  /\ hops' = [hops EXCEPT ![s] = @ + 1]
  /\ UNCHANGED <<processVars, stage, outcome, handled, reached, by, parted>>

\* Otherwise Do returns the response, and Send drains its body.
DoReturns(s) ==
  /\ stage[s] = "sending"
  /\ response[s] # None
  /\ response[s].status # 307 \/ ~Follows(client) \/ hops[s] = MaxHops
  /\ stage' = [stage EXCEPT ![s] = "draining"]
  /\ UNCHANGED <<processVars, request, response, outcome, hops, handled, reached, by, parted>>

\* Mutant: a redirect is no failure.
SucceedsBelow400(status) == status < 400

Succeeds(status) == status >= 200 /\ status < 300

\* End of body, 64 KiB of it, or an error that Send ignores: the status decides.
Drained(s) ==
  /\ stage[s] = "draining"
  /\ Settle(s, IF Succeeds(response[s].status) THEN "nil" ELSE "error")
  /\ UNCHANGED <<processVars, request, response, hops, handled, reached, by, parted>>

\* Mutant: the timer is cleared once the status line is there.
TimedToStatus(s) == stage[s] = "sending"

\* http.Client.Timeout covers the request and the body.
Timed(s) == stage[s] \in {"sending", "draining"}

TimeOut(s) ==
  /\ client # None /\ client.timed
  /\ Timed(s)
  /\ SendFails(s) \/ Drained(s)

Finish(s) ==
  /\ stage[s] = "settled"
  /\ stage' = [stage EXCEPT ![s] = "idle"]
  /\ response' = [response EXCEPT ![s] = None]
  /\ outcome' = [outcome EXCEPT ![s] = None]
  /\ UNCHANGED <<processVars, request, hops, handled, reached, by, parted>>

----------------------------------------------------------------------------
(* The wire, the middleware and the handler. *)

\* An answer reaches Send only while it waits for one.
Reply(s, status, host) ==
  /\ request' = [request EXCEPT ![s] = None]
  /\ reached' = [reached EXCEPT ![s] = @ \cup {request[s].to}]
  /\ response' = IF stage[s] = "sending"
                 THEN [response EXCEPT ![s] = [status |-> status, location |-> host]]
                 ELSE response
  /\ UNCHANGED <<processVars, stage, outcome, hops, by, parted>>

\* Mutant: the middleware reads the environment on every request.
AuthenticNow(got) == got = env["consumer"]

\* constantTimeEqualString with the secret read at construction.
Authentic(got) == got = tokenBytes

\* The middleware calls the handler, which answers as it likes.
Handle(s, status, host) ==
  /\ request[s] # None /\ request[s].to = "configured" /\ tokenBytes # None
  /\ Authentic(request[s].token)
  /\ status # 401
  /\ handled' = [handled EXCEPT ![s] = @ + 1]
  /\ Reply(s, status, host)

\* The middleware answers 401 and calls nothing.
Reject(s) ==
  /\ request[s] # None /\ request[s].to = "configured" /\ tokenBytes # None
  /\ ~Authentic(request[s].token)
  /\ Reply(s, 401, "configured")
  /\ UNCHANGED handled

\* A proxy before the consumer redirects or fails; another host does as it likes.
OthersAnswer(s, status, host) ==
  /\ request[s] # None
  /\ request[s].to = "configured" => status \in {307, 500}
  /\ Reply(s, status, host)
  /\ UNCHANGED handled

\* A request or an answer is lost.
LoseRequest(s) ==
  /\ request[s] # None
  /\ request' = [request EXCEPT ![s] = None]
  /\ UNCHANGED <<processVars, stage, response, outcome, hops, handled, reached, by, parted>>

LoseResponse(s) ==
  /\ stage[s] = "sending" /\ response[s] # None
  /\ response' = [response EXCEPT ![s] = None]
  /\ UNCHANGED <<processVars, stage, request, outcome, hops, handled, reached, by, parted>>

Next ==
  \/ \E p \in Processes, v \in Secrets \cup {None} : SetEnv(p, v)
  \/ \E c \in Clients : StartProducer(c)
  \/ StopProducer \/ StartConsumer \/ StopConsumer
  \/ \E s \in Sends :
       \/ CallSend(s) \/ SendFails(s) \/ FollowRedirect(s) \/ DoReturns(s)
       \/ Drained(s) \/ TimeOut(s) \/ Finish(s)
       \/ Reject(s) \/ LoseRequest(s) \/ LoseResponse(s)
       \/ \E status \in Codes, host \in Hosts :
            Handle(s, status, host) \/ OthersAnswer(s, status, host)

Spec == Init /\ [][Next]_vars

\* A timer fires; nothing else is promised.
FairSpec == Spec /\ \A s \in Sends : WF_vars(TimeOut(s))

----------------------------------------------------------------------------
(* Properties.  An application that brings a redirect policy of its own    *)
(* keeps it: what the first three say is about the others.                 *)

Guarded(s) == by[s] # None /\ by[s].redirect = "unset"

\* The token is sent to no host but the configured one, whoever redirects: the
\* policy NewNotifyClient installs, on supplied clients too.
TokenStays == \A s \in Sends : Guarded(s) => "elsewhere" \notin reached[s]

\* No call runs the consumer's handler twice, even when the handler's own answer
\* redirects or is lost.
HandledOnce == \A s \in Sends : Guarded(s) => handled[s] <= 1

\* Send returns nil only if the consumer's handler ran for this call: a redirect or
\* a proxy's failure is never taken for it.
SuccessWasHandled ==
  \A s \in Sends : outcome[s] = "nil" /\ Guarded(s) => handled[s] > 0

\* The consumer turns a call away only if it and the producer held different
\* secrets at some moment during the call: an environment that changes under two
\* running processes breaks nothing until one of them restarts.
RejectedForCause ==
  \A s \in Sends :
    response[s] # None /\ response[s].status = 401 /\ Guarded(s) => parted[s]

\* What a producer sees of its call, if its client follows no redirects.
Call ==
  [s \in Sends |-> IF ~Guarded(s) \/ stage[s] = "idle" THEN "none"
                   ELSE IF stage[s] = "settled" THEN outcome[s] ELSE "open"]

Travelling == {s \in Sends : Guarded(s) /\ request[s] # None}

Ran == {s \in Sends : Guarded(s) /\ handled[s] > 0}

Deliveries == INSTANCE Delivery WITH
  call <- Call, travelling <- Travelling, ran <- Ran

\* Redirects, proxies, late answers and restarts on either side included, a call
\* is one notification that travels once, runs the handler at most once and is
\* reported delivered only if it did (Send in notify_client.go).
DeliversOnce == Deliveries!DeliverySpec

\* Every Send returns, even when nobody answers or the body never ends, if its
\* client has a timeout (NewNotifyClient).
EverySendReturns ==
  \A s \in Sends :
    stage[s] # "idle" /\ client # None /\ client.timed ~> stage[s] \in {"idle", "settled"}

=============================================================================
