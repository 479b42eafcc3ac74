------------------------------ MODULE Verifier ------------------------------
(***************************************************************************)
(* The verify path shared by the session, bot and api-key verifiers:       *)
(* Verify in go/*_verifier.go over verifyContext and doVerifyRequest in    *)
(* go/http_verifier.go, and their TypeScript twins.  Verify calls run      *)
(* concurrently against one Cache; each looks up a positive and then a     *)
(* negative key in two separate Gets, asks octo-server on a miss, and      *)
(* stores what it was told.  Nothing joins concurrent misses, and nothing  *)
(* orders a Set against another call's answer.                             *)
(*                                                                         *)
(* octo-server revokes, disables and restores credentials at any time; it  *)
(* judges a request at some moment between the request and its answer.     *)
(***************************************************************************)
EXTENDS Integers, Sequences, FiniteSets

CONSTANTS
  Calls,            \* goroutines calling Verify, one call at a time each
  Creds,            \* raw credentials
  Instances,        \* verifier instances sharing the Cache
  Realm,            \* Realm[i]: the PrincipalKind instance i handles
  Include,          \* Include[i]: its Config.RequestIncludeContext
  HashCacheKey,     \* Config.HashCacheKey
  NegOf,            \* NegOf[c]: the credential that reads raw(c) + ":neg"
  Unsendable,       \* <<realm, credential>> pairs refused before any lookup
  ConfigTTL,        \* ConfigTTL[r]: the SessionTTL, BotTTL, APIKeyTTL a user sets
  ConfigNegativeTTL,
  DefaultTTL,       \* DefaultTTL[r]: DefaultSessionTTL, and so on
  DefaultNegativeTTL,
  Timeout,          \* the HTTP client's request timeout
  Lag,              \* from the response's last byte to the Set taking effect
  TimerCoversBody,  \* Go: the timeout covers the body read; TypeScript: not
  ServerContexts,   \* context kinds the server's answers may carry
  Grants,           \* what a valid credential stands for: who and which spaces
  LongAgo,          \* a time before the process started
  InitialAccounts,  \* bound: what octo-server may hold true at the start
  Changing,         \* bound: the changes octo-server makes later
  Horizon,          \* bound: no call begins after this time
  NoEntry, Miss, NoVerdict, None

ASSUME InstanceAssumption ==
  /\ Realm \in [Instances -> {"session", "bot", "apikey"}]
  /\ Include \in [Instances -> BOOLEAN]
  /\ HashCacheKey \in BOOLEAN
  /\ TimerCoversBody \in BOOLEAN

Realms == {Realm[i] : i \in Instances}

ASSUME TimeAssumption ==
  /\ ConfigTTL \in [Realms -> Int]
  /\ ConfigNegativeTTL \in Int
  /\ DefaultTTL \in [Realms -> Nat \ {0}]
  /\ DefaultNegativeTTL \in Nat \ {0}
  /\ Timeout \in Nat
  /\ Lag \in Nat
  /\ Horizon \in Nat
  /\ LongAgo \in Int /\ LongAgo < 0

\* Mutant: only a ttl that was not set is replaced.
DefaultedIfUnset(ttl, default) == IF ttl = 0 THEN default ELSE ttl

\* applyDefaults: the Cache would take any other ttl for "no expiry".
Defaulted(ttl, default) == IF ttl <= 0 THEN default ELSE ttl

TTL == [r \in Realms |-> Defaulted(ConfigTTL[r], DefaultTTL[r])]

NegativeTTL == Defaulted(ConfigNegativeTTL, DefaultNegativeTTL)

\* Appending ":neg" is injective; None marks a string nobody presents.
ASSUME NegOfAssumption ==
  /\ NegOf \in [Creds -> Creds \cup {None}]
  /\ None \notin Creds
  /\ \A c, d \in Creds : NegOf[c] = NegOf[d] /\ NegOf[c] # None => c = d

ASSUME ContextAssumption ==
  ServerContexts \subseteq {"included", "not_included", "unknown_server"}

Accounts == Realms \X Creds

Refusals == {"revoked", "disabled"}

Statuses == Grants \cup Refusals

ASSUME AccountAssumption ==
  /\ Grants \cap {"revoked", "disabled", "unfounded", "infra_failure"} = {}
  /\ NoVerdict \notin Grants \cup {"revoked", "disabled", "unfounded", "infra_failure"}
  /\ None \notin Accounts
  /\ InitialAccounts \subseteq [Accounts -> Statuses]
  /\ Changing \subseteq Accounts \X Statuses

----------------------------------------------------------------------------
(* Values and keys of the cache. *)

Contexts == {"not_requested", "included", "not_included", "unknown_server"}

\* A Principal, by the credential it was issued for and what it says.
Principals == [type : {"principal"}, realm : Realms, cred : Creds,
               grant : Grants, context : Contexts]

\* An Error; why tells a refusal by the server from a 2xx answer that lacks
\* the uid, and both from a failure to get an answer.
Errors == [type : {"error"}, realm : Realms, cred : Creds,
           kind : {"invalid_credential", "disabled", "infra_failure"},
           why  : {"status", "missing_uid", "no_answer", "unsendable"}]

Outcomes == Principals \cup Errors

\* Config decides the ttl by what is stored.
TtlOf == [v \in Outcomes |-> IF v.type = "principal" THEN TTL[v.realm] ELSE NegativeTTL]

Tags == {"c:", "n:"}

\* Key strings: prefix, context tag, credential (or its hash), ":neg" or not.
Keys == [realm : Realms, tag : Tags, base : Creds, neg : BOOLEAN]

\* Mutant: the key does not tell whether a context was asked for.
NoTag(i) == "n:"

CtxTag(i) == IF Include[i] THEN "c:" ELSE "n:"

PosKey(i, c) == [realm |-> Realm[i], tag |-> CtxTag(i), base |-> c, neg |-> FALSE]

\* posKey + ":neg"; unhashed, it is another credential's posKey.
NegKey(i, c) ==
  IF ~HashCacheKey /\ NegOf[c] # None
  THEN PosKey(i, NegOf[c])
  ELSE [PosKey(i, c) EXCEPT !.neg = TRUE]

VARIABLES
  now, live, reply, \* the Cache (CacheContract)
  account,          \* account[<<r, c>>]: what octo-server holds true of c
  ended,            \* history: ended[a][s], when account a last ceased to be s
  pc,               \* pc[v]: where call v is
  inst, cred,       \* its verifier instance and credential
  mark,             \* mark[v]: when v's last step with a deadline happened
  verdict,          \* verdict[v]: its outcome, as far as it is decided
  count             \* count[v]: v's calls of the MetricsCollector

callVars  == <<pc, inst, cred, mark, verdict, count>>
cacheVars == <<now, live, reply>>
vars == <<now, live, reply, account, ended, pc, inst, cred, mark, verdict, count>>

Store == INSTANCE CacheContract WITH
  Values <- Outcomes, Ttl <- TtlOf, Callers <- Calls

\* What stands for an absence is told from what is stored.
ASSUME AbsenceAssumption ==
  /\ Miss \notin Outcomes /\ NoVerdict \notin Outcomes
  /\ NoEntry \notin Store!Entries
  /\ None \notin Instances

Places == {"idle", "pos", "neg", "sent", "answered", "received", "done"}

Results == {"hit", "miss-ok", "miss-err", "error"}

Counts == [hit : Nat, miss : Nat, errors : Nat, observed : Seq(Results)]

NoCount == [hit |-> 0, miss |-> 0, errors |-> 0, observed |-> <<>>]

AccountOf(v) == <<Realm[inst[v]], cred[v]>>

TypeOK ==
  /\ Store!ContractTypeOK
  /\ account \in [Accounts -> Statuses]
  /\ ended \in [Accounts -> [Statuses -> Int]]
  /\ pc \in [Calls -> Places]
  /\ inst \in [Calls -> Instances \cup {None}]
  /\ cred \in [Calls -> Creds \cup {None}]
  /\ mark \in [Calls -> Int]
  /\ verdict \in [Calls -> Outcomes \cup {NoVerdict}]
  /\ count \in [Calls -> Counts]
  /\ \A v \in Calls : pc[v] # "idle" => inst[v] \in Instances /\ cred[v] \in Creds
  /\ \A v \in Calls : pc[v] \in {"answered", "received", "done"} =>
       verdict[v] \in Outcomes

Init ==
  /\ Store!ContractInit
  /\ account \in InitialAccounts
  /\ ended = [a \in Accounts |-> [s \in Statuses |-> LongAgo]]
  /\ pc = [v \in Calls |-> "idle"]
  /\ inst = [v \in Calls |-> None]
  /\ cred = [v \in Calls |-> None]
  /\ mark = [v \in Calls |-> LongAgo]
  /\ verdict = [v \in Calls |-> NoVerdict]
  /\ count = [v \in Calls |-> NoCount]

----------------------------------------------------------------------------
(* The call: Begin, two lookups, the request, finalize, Return. *)

Error(v, kind, why) ==
  [type |-> "error", realm |-> Realm[inst[v]], cred |-> cred[v],
   kind |-> kind, why |-> why]

\* Call v is over at this moment with outcome o.
Decide(v, o) ==
  /\ pc' = [pc EXCEPT ![v] = "done"]
  /\ verdict' = [verdict EXCEPT ![v] = o]
  /\ mark' = [mark EXCEPT ![v] = now]

\* Mutant: the credential is not passed on.
BeginNoCred(v, i, c) ==
  /\ pc[v] = "idle" /\ now <= Horizon
  /\ <<Realm[i], c>> \notin Unsendable
  /\ pc' = [pc EXCEPT ![v] = "pos"]
  /\ inst' = [inst EXCEPT ![v] = i]
  /\ UNCHANGED <<cacheVars, account, ended, cred, mark, verdict, count>>

Begin(v, i, c) ==
  /\ pc[v] = "idle" /\ now <= Horizon
  /\ <<Realm[i], c>> \notin Unsendable
  /\ pc' = [pc EXCEPT ![v] = "pos"]
  /\ inst' = [inst EXCEPT ![v] = i]
  /\ cred' = [cred EXCEPT ![v] = c]
  /\ UNCHANGED <<cacheVars, account, ended, mark, verdict, count>>

\* An empty, reserved or malformed credential is refused at once: no lookup,
\* no request, no metrics.
Refuse(v, i, c) ==
  /\ pc[v] = "idle" /\ now <= Horizon
  /\ <<Realm[i], c>> \in Unsendable
  /\ inst' = [inst EXCEPT ![v] = i]
  /\ cred' = [cred EXCEPT ![v] = c]
  /\ Decide(v, [type |-> "error", realm |-> Realm[i], cred |-> c,
                kind |-> "invalid_credential", why |-> "unsendable"])
  /\ UNCHANGED <<cacheVars, account, ended, count>>

\* recordCacheHit.
RecordHit(v) ==
  count' = [count EXCEPT ![v].hit = @ + 1,
                         ![v].observed = Append(@, "hit")]

\* A hit is a value of the expected type; any other is taken for a miss.
Found(v, expected) == reply'[v] \in expected

\* Mutant: a hit renews the entry.
HitPosRenews(v) ==
  LET k == PosKey(inst[v], cred[v]) IN
  /\ pc[v] = "pos"
  /\ Store!Readable(k)
  /\ reply' = [reply EXCEPT ![v] = live[k].value]
  /\ live' = [live EXCEPT ![k].deadline = now + TTL[Realm[inst[v]]]]
  /\ Found(v, Principals)
  /\ Decide(v, reply'[v])
  /\ RecordHit(v)
  /\ UNCHANGED <<now, account, ended, inst, cred>>

HitPos(v) ==
  /\ pc[v] = "pos"
  /\ Store!GetHit(v, PosKey(inst[v], cred[v]))
  /\ Found(v, Principals)
  /\ Decide(v, reply'[v])
  /\ RecordHit(v)
  /\ UNCHANGED <<account, ended, inst, cred>>

MissPos(v) ==
  /\ pc[v] = "pos"
  /\ Store!Get(v, PosKey(inst[v], cred[v]))
  /\ ~Found(v, Principals)
  /\ pc' = [pc EXCEPT ![v] = "neg"]
  /\ UNCHANGED <<account, ended, inst, cred, mark, verdict, count>>

HitNeg(v) ==
  /\ pc[v] = "neg"
  /\ Store!GetHit(v, NegKey(inst[v], cred[v]))
  /\ Found(v, Errors)
  /\ Decide(v, reply'[v])
  /\ RecordHit(v)
  /\ UNCHANGED <<account, ended, inst, cred>>

\* Both Gets missed: recordCacheMiss, and the request goes out.
MissNeg(v) ==
  /\ pc[v] = "neg"
  /\ Store!Get(v, NegKey(inst[v], cred[v]))
  /\ ~Found(v, Errors)
  /\ count' = [count EXCEPT ![v].miss = @ + 1]
  /\ pc' = [pc EXCEPT ![v] = "sent"]
  /\ mark' = [mark EXCEPT ![v] = now]
  /\ UNCHANGED <<account, ended, inst, cred, verdict>>

\* The status line arrives, with what the server judged while v waited.
Answered(v, o) ==
  /\ pc' = [pc EXCEPT ![v] = "answered"]
  /\ verdict' = [verdict EXCEPT ![v] = o]
  /\ UNCHANGED <<cacheVars, account, ended, inst, cred, mark, count>>

\* A bot's Principal never carries a context; the others' do on request.
ContextsFor(i) ==
  IF Include[i] /\ Realm[i] # "bot" THEN ServerContexts ELSE {"not_requested"}

AnswerAccepts(v) ==
  /\ pc[v] = "sent"
  /\ account[AccountOf(v)] \in Grants
  /\ \E context \in ContextsFor(inst[v]) :
       Answered(v, [type |-> "principal", realm |-> Realm[inst[v]],
                    cred |-> cred[v], grant |-> account[AccountOf(v)],
                    context |-> context])

\* A 2xx answer without the uid is reported as a rejected credential.
AnswerLacksUid(v) ==
  /\ pc[v] = "sent"
  /\ account[AccountOf(v)] \in Grants
  /\ Answered(v, Error(v, "invalid_credential", "missing_uid"))

\* statusToError: 401 and 403.  It reads the status alone; here only octo-server
\* answers with either.
AnswerRejects(v) ==
  /\ pc[v] = "sent"
  /\ \/ /\ account[AccountOf(v)] = "revoked"
        /\ Answered(v, Error(v, "invalid_credential", "status"))
     \/ /\ account[AccountOf(v)] = "disabled"
        /\ Answered(v, Error(v, "disabled", "status"))

\* Any other status, a refused connection, a cancelled ctx, a body that is cut
\* off, too long or not JSON.
RequestFails(v) ==
  /\ pc[v] \in {"sent", "answered"}
  /\ pc' = [pc EXCEPT ![v] = "received"]
  /\ verdict' = [verdict EXCEPT ![v] = Error(v, "infra_failure", "no_answer")]
  /\ mark' = [mark EXCEPT ![v] = now]
  /\ UNCHANGED <<cacheVars, account, ended, inst, cred, count>>

\* Mutant: the timer is cleared when the status line arrives.
TimedToStatus(v) == pc[v] = "sent"

\* The request timeout is running for v.
Timed(v) == pc[v] = "sent" \/ (pc[v] = "answered" /\ TimerCoversBody)

TimeOut(v) ==
  /\ Timed(v) /\ now >= mark[v] + Timeout
  /\ RequestFails(v)

\* The whole body has been read and decoded.
ReadBody(v) ==
  /\ pc[v] = "answered"
  /\ pc' = [pc EXCEPT ![v] = "received"]
  /\ mark' = [mark EXCEPT ![v] = now]
  /\ UNCHANGED <<cacheVars, account, ended, inst, cred, verdict, count>>

\* Mutant: only answers are observed.
ObserveAnswers(v, result, errors) ==
  count' = [count EXCEPT ![v].errors = @ + errors,
                         ![v].observed = IF result = "error" THEN @ ELSE Append(@, result)]

\* finalize reports one observation, and one error if there was one.
Observe(v, result, errors) ==
  count' = [count EXCEPT ![v].errors = @ + errors,
                         ![v].observed = Append(@, result)]

\* The Set that finalize makes: at once, and for ever without a ttl.
Deadline(ttl) == IF ttl <= 0 THEN Store!Never ELSE now + ttl

FinalizeAccepted(v) ==
  /\ pc[v] = "received" /\ verdict[v] \in Principals
  /\ Store!Set(PosKey(inst[v], cred[v]), verdict[v], Deadline(TTL[Realm[inst[v]]]), {})
  /\ Observe(v, "miss-ok", 0)
  /\ Decide(v, verdict[v])
  /\ UNCHANGED <<account, ended, inst, cred>>

\* Mutant: a rejection is stored where acceptances are.
FinalizeRejectedSwaps(v) ==
  /\ pc[v] = "received" /\ verdict[v] \in Errors
  /\ verdict[v].kind # "infra_failure"
  /\ Store!Set(PosKey(inst[v], cred[v]), verdict[v], Deadline(NegativeTTL), {})
  /\ Observe(v, "miss-err", 1)
  /\ Decide(v, verdict[v])
  /\ UNCHANGED <<account, ended, inst, cred>>

FinalizeRejected(v) ==
  /\ pc[v] = "received" /\ verdict[v] \in Errors
  /\ verdict[v].kind # "infra_failure"
  /\ Store!Set(NegKey(inst[v], cred[v]), verdict[v], Deadline(NegativeTTL), {})
  /\ Observe(v, "miss-err", 1)
  /\ Decide(v, verdict[v])
  /\ UNCHANGED <<account, ended, inst, cred>>

\* Mutant: every error is cached.
FinalizeFailedCaches(v) ==
  /\ pc[v] = "received" /\ verdict[v] \in Errors
  /\ verdict[v].kind = "infra_failure"
  /\ Store!Set(NegKey(inst[v], cred[v]), verdict[v], Deadline(NegativeTTL), {})
  /\ Observe(v, "error", 1)
  /\ Decide(v, verdict[v])
  /\ UNCHANGED <<account, ended, inst, cred>>

\* An infrastructure failure is not cached.
FinalizeFailed(v) ==
  /\ pc[v] = "received" /\ verdict[v] \in Errors
  /\ verdict[v].kind = "infra_failure"
  /\ Observe(v, "error", 1)
  /\ Decide(v, verdict[v])
  /\ UNCHANGED <<cacheVars, account, ended, inst, cred>>

Finalize(v) == FinalizeAccepted(v) \/ FinalizeRejected(v) \/ FinalizeFailed(v)

Return(v) ==
  /\ pc[v] = "done"
  /\ Store!Consume(v)
  /\ pc' = [pc EXCEPT ![v] = "idle"]
  /\ inst' = [inst EXCEPT ![v] = None]
  /\ cred' = [cred EXCEPT ![v] = None]
  /\ mark' = [mark EXCEPT ![v] = LongAgo]
  /\ verdict' = [verdict EXCEPT ![v] = NoVerdict]
  /\ count' = [count EXCEPT ![v] = NoCount]
  /\ UNCHANGED <<account, ended>>

----------------------------------------------------------------------------
(* The environment: octo-server's accounts, the cache's memory, time. *)

SetAccount(a, status) ==
  /\ account[a] # status
  /\ <<a, status>> \in Changing
  /\ account' = [account EXCEPT ![a] = status]
  /\ ended' = [ended EXCEPT ![a] = [@ EXCEPT ![account[a]] = now]]
  /\ UNCHANGED <<cacheVars, callVars>>

Evict(k) ==
  /\ live[k] # NoEntry
  /\ Store!Lose(k)
  /\ UNCHANGED <<account, ended, callVars>>

\* Time passes, but not beyond a running timeout nor beyond the Lag a call may
\* take from its answer to the cache; with no timeout running it stops at the
\* Horizon.
Tick ==
  /\ now < Horizon \/ \E v \in Calls : Timed(v)
  /\ \A v \in Calls :
       /\ Timed(v) => now < mark[v] + Timeout
       /\ pc[v] = "received" => now < mark[v] + Lag
  /\ Store!Tick
  /\ UNCHANGED <<account, ended, callVars>>

Next ==
  \/ \E v \in Calls, i \in Instances, c \in Creds : Begin(v, i, c) \/ Refuse(v, i, c)
  \/ \E v \in Calls :
       \/ HitPos(v) \/ MissPos(v) \/ HitNeg(v) \/ MissNeg(v)
       \/ AnswerAccepts(v) \/ AnswerLacksUid(v) \/ AnswerRejects(v)
       \/ RequestFails(v) \/ TimeOut(v) \/ ReadBody(v)
       \/ Finalize(v) \/ Return(v)
  \/ \E a \in Accounts, status \in Statuses : SetAccount(a, status)
  \/ \E k \in Keys : Evict(k)
  \/ Tick

Spec == Init /\ [][Next]_vars

\* What the runtimes guarantee: a runnable goroutine runs, a timer fires, time
\* passes.  Nothing is assumed of octo-server.
Fairness ==
  /\ WF_vars(Tick)
  /\ \A v \in Calls :
       /\ WF_vars(HitPos(v) \/ MissPos(v))
       /\ WF_vars(HitNeg(v) \/ MissNeg(v))
       /\ WF_vars(TimeOut(v))
       /\ WF_vars(Finalize(v))

FairSpec == Spec /\ Fairness

----------------------------------------------------------------------------
(* Properties. *)

\* The last time account a was s.
Last(a, s) == IF account[a] = s THEN now ELSE ended[a][s]

\* What an outcome says of its account; judged outcomes are those that say what
\* the server held true.
Judged(o) == o \in Principals \/ (o \in Errors /\ o.why = "status")

StatusOf(o) ==
  IF o \in Principals THEN o.grant
  ELSE IF o.kind = "disabled" THEN "disabled" ELSE "revoked"

LastHeld(o) == Last(<<o.realm, o.cred>>, StatusOf(o))

Accepted(v) == pc[v] = "done" /\ verdict[v] \in Principals

\* The revocation window (docs of Cache in cache.go and of DefaultSessionTTL in
\* config.go): however calls, evictions and late answers interleave, no Verify
\* accepts a credential, or reports a membership, later than its realm's TTL,
\* plus one request timeout and the lag to the cache, after the server last
\* held it so.
RevocationWindow ==
  \A v \in Calls : Accepted(v) =>
    mark[v] <= Last(AccountOf(v), verdict[v].grant) + Timeout + Lag + TTL[Realm[inst[v]]]

Rejected(v) == pc[v] = "done" /\ verdict[v] \in Errors /\ verdict[v].why = "status"

\* The converse (DefaultNegativeTTL in config.go): a restored credential is not
\* refused for a 401 or 403 of the past longer than NegativeTTL, plus one
\* request timeout and the lag, after the server last held it so.
RejectionWindow ==
  \A v \in Calls : Rejected(v) =>
    mark[v] <= Last(AccountOf(v), StatusOf(verdict[v])) + Timeout + Lag + NegativeTTL

RightContext(i, p) ==
  p.context = "not_requested" <=> ContextsFor(i) = {"not_requested"}

\* Whatever instances share the cache and whatever strings are presented, a
\* call's outcome was decided for its own realm and credential, and a Principal
\* lacks its context only for an instance that never asks for it
\* (newVerifyContext's key layout and lookupCache's type checks).
Isolation ==
  \A v \in Calls : pc[v] = "done" =>
    /\ verdict[v].realm = Realm[inst[v]]
    /\ verdict[v].cred = cred[v]
    /\ verdict[v] \in Principals => RightContext(inst[v], verdict[v])

\* Why both windows hold: an outcome's age is bounded where it waits for its
\* body, where it waits for the cache, in the cache, and in the caller's hands.
CallsInTime ==
  \A v \in Calls :
    /\ pc[v] = "sent" => mark[v] <= now
    /\ Timed(v) => now <= mark[v] + Timeout
    /\ pc[v] = "received" => now <= mark[v] + Lag
    /\ (pc[v] = "answered" /\ Judged(verdict[v])) => mark[v] <= LastHeld(verdict[v])
    /\ (pc[v] = "received" /\ Judged(verdict[v])) =>
         mark[v] <= LastHeld(verdict[v]) + Timeout
    /\ (pc[v] = "done" /\ Judged(verdict[v])) =>
         mark[v] <= LastHeld(verdict[v]) + Timeout + Lag + TtlOf[verdict[v]]

EntriesInTime ==
  \A k \in Keys : live[k] # NoEntry =>
    /\ live[k].deadline # Store!Never
    /\ Judged(live[k].value) =>
         live[k].deadline <= LastHeld(live[k].value) + Timeout + Lag + TtlOf[live[k].value]

\* No cached outcome, and no call's, is older than its window allows, in any
\* state (finalize and lookupCache in http_verifier.go).
Staleness ==
  /\ \A a \in Accounts, s \in Statuses : ended[a][s] <= now
  /\ CallsInTime
  /\ EntriesInTime

\* Why Isolation holds: every entry sits under a key its own value determines,
\* whichever instance wrote it, even where ":neg" makes two keys one.
EntriesKeyed ==
  \A k \in Keys : live[k] # NoEntry =>
    \E i \in Instances :
      /\ live[k].value.realm = Realm[i]
      /\ \/ /\ live[k].value \in Principals
            /\ k = PosKey(i, live[k].value.cred)
            /\ RightContext(i, live[k].value)
         \/ /\ live[k].value \in Errors
            /\ k = NegKey(i, live[k].value.cred)

\* What Verify's caller sees of an outcome, once the call is over.
Told(o) ==
  IF Judged(o) THEN StatusOf(o)
  ELSE IF o.kind = "infra_failure" THEN "infra_failure" ELSE "unfounded"

\* The age an outcome that says s of account a may reach.
WindowOf == [a \in Accounts |-> [s \in Statuses |->
               Timeout + Lag + IF s \in Grants THEN TTL[a[1]] ELSE NegativeTTL]]

Asked == [v \in Calls |-> IF pc[v] = "idle" THEN None ELSE AccountOf(v)]

Outcome == [v \in Calls |-> IF pc[v] = "done" THEN Told(verdict[v]) ELSE NoVerdict]

Contract == INSTANCE AuthContract WITH
  Window <- WindowOf, asked <- Asked, outcome <- Outcome

\* The caches, requests and retries of the verify path implement the contract
\* of AuthContract: a verdict founded on what octo-server said is no older than
\* its window, and each call gets one verdict, about the account it asked of
\* (Verify in go/*_verifier.go).
ImplementsContract == Contract!ContractSpec

\* A failing upstream is never remembered: no call is answered with an
\* infrastructure failure it did not meet itself (the rules above finalize in
\* http_verifier.go).
InfraNotCached ==
  \A v \in Calls :
    (pc[v] = "done" /\ verdict[v] \in Errors /\ verdict[v].kind = "infra_failure") =>
      count[v].miss = 1 /\ count[v].hit = 0

\* Every call that reaches the cache is counted as exactly one hit or miss and
\* observed exactly once, under the result it returns (metrics.go).
Accounting ==
  \A v \in Calls : pc[v] = "done" =>
    \/ count[v] = NoCount /\ <<Realm[inst[v]], cred[v]>> \in Unsendable
    \/ /\ count[v].hit = 1 /\ count[v].miss = 0
       /\ count[v].observed = <<"hit">>
    \/ /\ count[v].hit = 0 /\ count[v].miss = 1
       /\ count[v].errors = (IF verdict[v] \in Errors THEN 1 ELSE 0)
       /\ count[v].observed =
            IF verdict[v] \in Principals THEN <<"miss-ok">>
            ELSE IF verdict[v].kind = "infra_failure" THEN <<"error">> ELSE <<"miss-err">>

\* Every Verify returns, even when octo-server never answers: the request
\* timeout ends it (DefaultHTTPTimeout in config.go, timeoutMs in config.ts).
EveryCallReturns == \A v \in Calls : pc[v] = "pos" ~> pc[v] = "done"

\* The window taken literally from the docs of Cache.Set and DefaultSessionTTL:
\* the TTL alone bounds how long a revoked credential is served from the cache.
TTLBoundsWindow ==
  \A v \in Calls : (Accepted(v) /\ count[v].hit = 1) =>
    mark[v] <= Last(AccountOf(v), verdict[v].grant) + TTL[Realm[inst[v]]]

\* The doc of MetricsCollector (metrics.go): IncErrorByKind is called whenever
\* Verify returns a typed error.
EveryErrorCounted ==
  \A v \in Calls : (pc[v] = "done" /\ verdict[v] \in Errors) => count[v].errors = 1

=============================================================================
