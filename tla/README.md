# octo-auth: TLA+ models and proofs

octo-auth is an SDK, written twice (Go in `go/`, TypeScript in `ts/src/`), that a service uses to
verify the credentials of its callers against octo-server. This directory models the SDK's state
and concurrency, checks the models with TLC, and proves their safety properties with TLAPS.

## The system

| Part | State | Operations | Model |
|---|---|---|---|
| Cache (`go/cache.go`, `ts/src/cache.ts`) | entries with an absolute expiry, an LRU list | Get, Set, Delete | `CacheContract`, `LRUCache` |
| Verifiers and the verify path (`go/http_verifier.go`, `go/{session,bot_token,user_key}_verifier.go`, TS twins) | per call: place, outcome, metrics; shared: the cache | Verify = lookup, request, finalize | `Verifier` |
| What Verify promises (`go/verifier.go`) | | the Verifier interface | `AuthContract` |
| Extraction, classification (`go/extract.go`, `classifyCredential`) | none | ExtractCredential, ValidateAPIKey, ValidateBotToken | `Credentials` |
| MultiVerifier (`go/verifier.go`, `go/full_multi_verifier.go`) | the registry map | Verify dispatches; Register | `Requests`, the registry fixed |
| Middlewares, enrichment, cloning (`go/middleware/{nethttp,gin,echo,wkhttp}`, `enrich.go`, `principal_clone.go`, `express.ts`) | one Principal and one response per request | Wrap/New, SpaceFromHeader, Clone | `Requests`, and with the verify path `Service` |
| Bot Resolve (`go/resolver.go`, `resolve_bot.go`, `resolver.ts`, `express.ts`) | none: every call asks octo-server | Resolve, WrapBotResolve | `Resolver` |
| Layer-2 tokens, Hocuspocus hook (`go/layer2/`, `ts/src/layer2.ts`, `hocuspocus.ts`) | tokens, the application's epochs | Issue, Verify, onAuthenticate | `Layer2` |
| Notify client, token middleware (`go/internal_helpers/`, TS twins) | each process's secret | Send, the token check | `Notify` |
| Config, errors, metrics (`go/config.go`, `errors.go`, `metrics.go`) | ttls, timeout; counters | applyDefaults, DefaultErrorMapper, the collector | constants and helpers of the above |

How they interact. A middleware extracts a credential and calls a (Multi)Verifier. Verify reads
the shared Cache twice (the positive key, then `posKey + ":neg"`), on a miss posts to octo-server,
and finalize stores the Principal for its realm's TTL or the rejection for NegativeTTL. The
middleware clones the Principal, may bind the client's space header into the copy, and calls the
handler. Concurrent calls share only the Cache, what the verifier keeps in it, the Config and the
MetricsCollector; nothing joins concurrent misses. Bot Resolve shares extraction and the error
mapper with this path and uses no cache. Layer 2 and Notify share no state with the rest.

What is hard:

- *Order.* octo-server may judge one call before a revocation and another after it, and the first
  may store its Principal last. Two Gets are not one snapshot. A permission epoch is read, awaited
  and compared while roles are taken away.
- *Time.* An answer waits for its body, for its finalize, in the cache, and ages throughout. `exp`
  is cut to a second.
- *Sharing.* Realms, context requests and credentials share one key space; unhashed, the key of one
  credential's rejection is the key of another's Principal. One Principal serves many requests.
- *Failure.* Requests time out, bodies stall, answers lack fields, gateways answer for octo-server,
  redirects lead away, processes restart with another secret; a failure must not be remembered or
  taken for a decision.

What makes each part correct, in a line:

- the cache never serves past a ttl and stays within capacity;
- the verify path bounds how stale an acceptance and a refusal may be, keeps callers apart, returns,
  and counts what it does;
- a handler is given only spaces octo-server affirmed, only its own request's, and what the verifier
  keeps never changes;
- Resolve permits and denies only what octo-server decided of the route's own question;
- whoever the hook lets in held the role; a token lives for its ttl;
- the internal secret stays with the configured host, a notification is handled at most once and
  success means it was.

## Modules

**`CacheContract`** is the abstract specification of the cache: what the doc of the `Cache`
interface lets the verifiers rely on. Get answers with the live value or misses; a Set's deadline is
no later than `now + ttl`; any entry may be lost early. It is the only thing `Verifier` knows of it.

**`LRUCache`** is `go/cache.go` over golang-lru. `live` is golang-lru's item map, `recency` its list,
`pending` the Sets that have read the clock and wait for the mutex: the code computes `expiresAt`
outside the critical section, so `SetStamp` and `SetInsert` are two actions. Get is three
(`GetFresh`, `GetExpired`, `GetAbsent`). `usedAfter` is history. `KeepsContract` is the refinement:
`CacheContract` under the identity mapping on `now`, `live` and `reply`.

**`AuthContract`** is the abstract specification of Verify, with no cache or request in sight: a
verdict that speaks for octo-server was true of this account at most `Window` ago; any call may fail
instead. An account has a *status*: a grant (who and which spaces, for Principals) or a refusal.
`ended[a][s]` is when account `a` was last `s` before it changed.

**`Verifier`** is the verify path. `pc[v]` is where a call stands:

| pc | the call is | code |
|---|---|---|
| idle | not running | |
| pos, neg | before its first, its second Get | `lookupCache` |
| sent | waiting for the status line; the server judges here | `doVerifyRequest`, `Do` |
| answered | reading the body | `io.ReadAll`, `readTextBounded` |
| received | between the last byte and the cache | decode, `finalize` |
| done | about to return `verdict[v]` | |

`mark[v]` is when the call's last step with a deadline happened: the request's start in `sent` and
`answered`, the last byte in `received`, the outcome's moment in `done`. Environment actions are
`SetAccount`, `Evict` and `Tick`. `TimerCoversBody` tells the two implementations apart: Go's
`http.Client.Timeout` covers the body, the TypeScript timer is cleared when `fetch` resolves. A Go
client supplied by the user without a Timeout is outside the model. `ImplementsContract` is the
refinement of `AuthContract`: `asked` and `outcome` are read off `pc`, `cred` and `verdict`, and the
window is the realm's TTL or NegativeTTL plus Timeout plus Lag.

The ttls are what `applyDefaults` (`Defaulted`) makes of those a user sets: one that is not positive
would reach the Cache as "no expiry" (`Deadline`), so a wrong default shows as an entry that stays.

Two assumptions on time are parameters, not code. A timer fires at `Timeout` at the latest, and
`Lag` bounds what a runtime may take from an answer's last byte to its place in the cache (decoding,
scheduling, a slow Cache backend). The code bounds neither; the windows are stated in terms of both.

Abstractions of `Verifier`. A credential is a model value; `NegOf[c]` is the credential that reads
`c` + ":neg", which is all the key layout can confuse. A Principal is its realm, credential, context
kind and grant. Every way to fail is `RequestFails`, enabled whenever a request is out. SHA-256 is
taken to be injective. A TypeScript `await` between two steps is an interleaving point and so
covered; one synchronous stretch is one action.

**`Credentials`** holds the pure functions from headers to a realm: a credential is its prefix, how
much follows the prefix, and a name; a header value is its scheme and its credential.

**`Requests`** is the authentication middleware: `nethttp`, `gin`, `echo`, `wkhttp` and express take
the same steps in the same order, over `AuthContract`, so every request's verdict is any the contract
allows. The two compose through `Verifier`'s refinement. Principals are objects on a heap: `object`
holds each place's fields, `list` the slice an object refers to (one slice stands for RelatedUIDs,
Spaces and the map of owned bots, which Clone copies alike). The Verifier interface does not say who
owns what it returns, and a verifier written against it may return the object it keeps; the model's
does, so that the middleware's Clone is what protects it.
A request is `idle`, `verifying`, `cloned`, then `serving` its handler (which may write to
its Principal and slice) or `answered`. `RejectCredential`, `RejectKind` and `CallVerify` are the steps before Verify,
`RespondError`, `Clone`, `Forbid`, `BindSpace` and `PassOn` those after it.

**`Service`** is the SDK end to end: the Go middlewares over `Verifier` itself instead of its contract. A
request *is* a call of `Verifier`, with what surrounds it: `stage`, its `route`, the space header `sid`, the
`space` its handler is given, the response the middleware `wrote`. `Arrive` is the middleware calling Verify,
`Verifies` the call's own steps, `RespondError`, `Forbid`, `BindSpace` and `PassOn` what follows it, `Finish`
the end. What only the composition can say: two requests of two routes meet in the cache, the context in a
Principal is that of the answer it came with, and a client's response has its cause at octo-server.
Extraction, RequireKind, the dispatch by kind and that a Principal is an object stay in `Requests`; here a
route is mounted over one verifier and Principals are values, as `PrincipalsAreOwn` allows.

**`OwnPrincipals`** is the abstract specification of the middleware's Principals, after the promise of
`Principal.Clone`: no heap, no references, each request owns a value that starts as what the verifier
built for its verdict. `ActsOnValues` is the refinement: `mine` is the *content* behind `ref[r]`, read
through object and slice, while a request is cloned or serving, so a write through a shared slice would
show as a change of somebody else's value; `entitled` is the account and grant of its verdict.

**`Resolver`** is Bot Resolve. The middleware's refusals, Resolve's own (`ResolveRefuses`), the
request, the answer and the identity checks are an action each; `Return` carries the deferred
metrics. `standing` is what octo-server holds of a bot and `Decide` how it decides a question;
`OldServerDecides` answers another question than the one asked or leaves fields out, and
`GatewayAnswers` answers without octo-server. `truths[r]` is history: every decision that held
while the request waited. TypeScript uses `AbortSignal.timeout` here, which, unlike its verify path,
covers the body.

**`BotDecisions`** is the abstract specification of Resolve: octo-server decides the route's own
question once, while the request waits, and the route is told that decision or of a failure.
`DecidesAtOnce` is the refinement: `decision` is what the answer carries *after* the identity checks and
the error table (`Carries`), so an answer they reject must be one nobody decided, and `held` is `Decide`
of every askable question under the current `standing`.

**`Layer2`** is token, application and hook. The application reads a role and the epoch together
(`Decide`), issues later (`Issue`), and raises the epoch with every `Revoke`. `SignedElsewhere` is
other software that signs with a secret too short to be one. A token may be presented to any server
for any document at any time. The hook verifies it (`Authenticate`, `Refuse`, the checks in the
order of the code), awaits the epoch (`ReadEpoch`), and compares when the answer comes (`Accept`,
`RejectStale`). `Rounded` is a float64: in Go the decoded JSON number, in TypeScript every number.
`due` and `held` are history.

**`RoleCheck`** is the abstract specification of the hook: no tokens, epochs, secrets or clock; the
application is asked for this user, document and role while the connection authenticates. `ChecksRole`
is the refinement: a connection passes when it is told an epoch its token is current for. Documents whose
epoch has outgrown what a float64 holds are taken out of the promise (`counted`), as in `AcceptedHeld`.

**`Notify`** is producer, wire and consumer. Each process reads its environment when it starts
(`StartProducer`, `StartConsumer`) and never again; `SetEnv` is the operator. A request is on the
wire to the configured host or elsewhere; it is handled, rejected, answered by others, or lost, and
so are answers. `reached`, `handled` and `parted` are history.

**`Delivery`** is the abstract specification of Send: a notification travels once and may be lost, the
handler runs for it at most once, possibly after the producer gave up or stopped, and Send returns nil
only if it ran. `DeliversOnce` is the refinement, for calls of clients that follow no redirects; to
`Delivery` the calls of other clients are slots nothing is promised of (`Reuse`).

The **`MC...`** modules give the constants values. The **`...Proofs`** modules hold the theorems.
Operators under a comment that starts with "Mutant" are plausible bugs. No behaviour uses them: each
shows that a property fails when the code goes wrong in that way.

## Runs

| Run | Config | Shows |
|---|---|---|
| lru_cache | `LRUCache.cfg` | list and map agree, capacity holds, working set kept, contract implemented |
| verifier_timing | `VerifierTiming.cfg` | both windows, `Staleness`, no cached failure, metrics, `AuthContract` implemented |
| verifier_sharing | `VerifierSharing.cfg` | isolation of instances and credentials on one unhashed cache |
| service | `Service.cfg` | end to end: headers honoured, outcomes founded at octo-server, every request ends |
| requests | `Requests.cfg` | spaces are held and one's own, kept Principals pristine, responses true, `OwnPrincipals` implemented |
| resolver | `Resolver.cfg` | permitted as asked, denied by octo-server only, counted once, settled, `BotDecisions` implemented |
| layer2 | `Layer2.cfg` | who is let in held the role; tokens and attempts true; ttl kept; `RoleCheck` implemented |
| notify | `Notify.cfg` | the secret stays, rejection for cause, every Send ends, `Delivery` implemented (handled once, success true) |
| body_timeout | `VerifierBodyTimeout.cfg` | finding 2 |
| ttl_window | `VerifierTTLWindow.cfg` | finding 3 |
| error_metrics | `VerifierErrorMetrics.cfg` | finding 1 |
| layer2_open | `Layer2Open.cfg` | finding 4 |

Bounds and why they suffice:

- *lru_cache*: capacity 2, three keys, so every insertion order can evict; two goroutines, so a Set
  can be overtaken between clock and lock; Horizon 3 lets an entry expire, be overwritten and expire
  again; one value expires, one never does.
- *verifier_timing*: one token, two calls (one to be late, one to overtake it). TTL 2, NegativeTTL 1,
  Timeout 1, Lag 0, Horizon 3: judged, body, stored, expired, with the account changing at each. TTL
  and NegativeTTL differ so that a mix-up shows; both come from defaults, of a negative and an unset ttl. The windows are proved for every Lag; the
  findings' runs have Lag 1 where it matters.
- *verifier_sharing*: a session verifier with context, one without, and a bot verifier, HashCacheKey
  off, two credentials of which one is the other plus ":neg", and one the bot verifier refuses. Time
  stands still (Horizon 0): keys do not depend on it, and an expiry is covered by Evict, which may
  take any entry at any moment. Accounts are uniform and fixed, so accepted and rejected outcomes come
  from two initial states; a missing uid mixes rejections into the accepted one.
- *service*: two requests with one token, a verifier that asks for the context and one that does not, on
  one cache, a route over each; the account is disabled and enabled once, octo-server affirms the context or
  is too old to. TTLs and Timeout 1, Lag and Horizon 0: one round of calls that may overtake each other,
  time out and hit what the other stored. No account ages past a window in so short a time (*verifier_timing*
  has that, and the proof); a header for a space the account lacks is *requests*' case. Symmetry is off,
  because the run checks liveness.
- *requests*: two requests, since a Principal is shared by pairs. One session account that starts
  with two spaces, with no context, on an older server or disabled, and may change to one space: a space
  lost, or an account restored while a refusal is on its way; one bot;
  an api key nobody registered a verifier for; malformed and reserved credentials; a bot token beside
  an Authorization of another scheme; routes with and without RequireKind and space header. Window 0
  and Horizon 1: the middleware reads no clock, and a longer window would only let
  the contract say more.
- *resolver*: one request, because requests share only `standing`, which changes at any moment
  anyway. Six standings, so that every code can be the decision and any may replace any; three
  routes (AS_BOT, OBO, OBO with an Action of white space), three spaces (one malformed) and a blank
  one, every marker and every answer.
- *layer2*: two issuers (one token before, one after a revocation), one connection, since connections
  share only the application; two documents, three servers (one shares the secret, one has a short
  secret, one another algorithm). A second is two ticks and TTLs are an absent one and one of half a
  second; Horizon 2 spans a token's life and a due moment cut to its second; epochs 3 to 5 and Exact 4 put the edge of float64 between them.
- *notify*: one Send, since calls share only the processes; two secrets in the environments and none,
  which a rotation passes through; clients of the module's own, one without a timeout, one with a
  redirect policy; one hop.
- Symmetry (calls, requests; keys and callers of the LRU; issuers, documents and connections) is used
  only where no liveness is checked and no constant singles a member out.
- Deadlock checking is off: past its Horizon a bounded system stops, and a Notify whose processes
  are not running has nothing to do.

The `Horizon` bounds when calls begin and, when no timeout is running, the clock. `Changing`,
`InitialAccounts`, `Standings`, `Presented`, `Markers` and `SpaceHeaders` bound what octo-server and
clients do, `MaxEpoch` and `MaxHops` the two counters that could grow.

Fairness. Everywhere: a timer fires. In `Verifier` and `Service` also: time passes, and a runnable goroutine
runs (the two lookups, finalize, the middleware's steps). In `Service` time passes *strongly* fairly: other
requests disable the clock whenever they wait for the processor, and clocks do not stop for that. In `Resolver` also: a call that has nothing to wait for goes on. Nothing is
assumed of octo-server, of the network or of a body: no fairness on answers, and in `Notify` none but
the timer's.

## Findings

1. **Cached rejections are not counted by kind.** `go/metrics.go:14` says IncErrorByKind is called
   whenever Verify returns a typed error; `recordCacheHit` never calls it.
2. **The TypeScript timeout ends at the headers.** `ts/src/config.ts:70` calls it the per-request
   timeout; `ts/src/http-verifier.ts:141` clears it before the body is read. A stalled body leaves
   `verify()` pending, and what arrives may be cached at any age: the theorems on the two windows
   assume `TimerCoversBody`. The TypeScript notify client has the same shape.
3. **The TTL starts at the store, not at the judgement.** `go/config.go:20` equates the session TTL
   with the revocation window; the window is TTL + Timeout + the lag to the cache, and that much
   is proved.
4. **An open connection outlives role and token.** `ts/src/middleware/hocuspocus.ts:28` lets a
   revocation propagate within the token's remaining TTL; the hook compares the epoch once, when the
   connection authenticates, and nothing looks again.

Smaller observations, no run of their own:

- `Config.ErrorMapper` (`go/config.go:69`) is filled in by applyDefaults and read by no middleware:
  each takes the mapper of its own options.
- `ValidateBotToken` accepts a bare `app_` (`go/extract.go:130` compares with the length of `bf_`);
  `RefusedByChild` refuses it later.
- An OBO route whose Action is white space passes its constructor (`go/middleware/nethttp/resolve_bot.go:33`)
  and is then refused on every request.
- An `http.Client` without a Timeout, supplied by the user, or a negative `NotifyConfig.Timeout`
  (`go/internal_helpers/notify_client.go:97` replaces only zero) leaves calls unbounded.

## Proofs

Every theorem holds for every value of the constants, from the assumptions named in the modules (`Verifier`'s ttls: any a user sets).
All the safety properties of the passing runs are proved: every invariant, the action property and the
six refinements. Each refinement proof has one lemma that every step of the detailed specification is a step
of the abstract one or a stutter, action by action, from the component's inductive invariant. Four
assumptions say that `None`, which marks absence, is not also a Principal's content, a question, a request on
the wire or a connection (`ValueAssumption`, `AskableAssumption`, `WireAssumption`, `EntryAssumption`).

`LRUCacheProofs`:

- `TypeCorrect` and `BoundedHolds`: lists without repetition are handled once, in `UnlistFacts`,
  `PushFacts`, `FrontFacts` and `MoveFacts`; the invariant `ListAgrees` then says map and list hold
  the same keys, which is what makes the evicted key present and never the one inserted.
- `Refines`: `Spec => KeepsContract`. `GetFresh` is the contract's hit, `GetExpired` and `GetAbsent`
  its miss, `SetInsert` its Set with the evicted keys as `lost`, `Delete` its Lose, and `SetStamp` a
  stutter. It needs `PendingHonored`: a Set that waits for the mutex carries a deadline that its ttl
  would still allow now, because the clock only advances.
- `WorkingSetIsKept`: a fresh entry leaves by Delete or after all `MaxSize - 1` others were used since.
  The invariant is `HistoryIsOrder`: the recency list *is* the history of uses, `j` ahead of `k` exactly
  when `j` was used after `k` (`HistoryStep`, from how Unlist, Push and MoveToFront change the order). The
  evicted key stands last in a full list, so every other key stands ahead of it; counting them is the
  bijection of a list without repetition with its indices.

`VerifierProofs`:

- `EntriesStayKeyed`, `IsolationHolds`. Isolation is not inductive: it needs every entry to sit under
  a key that determines its value (`EntriesKeyed`) and every waiting verdict to fit its call
  (`CallsKeyed`). `KeysInjective` says what a key string determines: two instances that share a key
  agree on realm and context tag, and where a rejection's key is another credential's positive key
  the value's type tells them apart.
- `NothingStale`, `RevocationWindowHolds`, `RejectionWindowHolds`, under `TimerCoversBody`. The two
  windows speak of calls that are done; `Staleness` follows an outcome through body, finalize and
  cache and adds at each stage what that stage may cost: Timeout, Lag, ttl.
- `AccountingHolds`, `InfraNotCachedHolds`, from `CountedInv`: what a call has counted at each place
  (`CountFits`), and that the cache holds no infrastructure failure (`NoInfraCached`).
- `ContractImplemented`: `Spec => ImplementsContract`, under `TimerCoversBody`. A call's last step
  is the contract's Tell or Fail (`TellsInTime` draws the window from `Staleness`), a credential the
  verifier does not send is RefuseAtOnce, and cache, request and eviction are stutters.

`RequestsProofs`: type, `KeptStaysPristine`, `SpacesAreHeld`, `SpacesAreOwn`, `AnswersAreTrue`. The
invariant `IInv` says that kept places are pristine (`Pristine`), that a request past Clone works on
its own place and refers to its own slice, with the content the grant had (`CopyFits`), and that the verdict
was within its window when told (`VerdictFits`). `WindowStable` carries that past every later change
of the account: what was last true at some moment stays so. `RoutingAgrees` relates `Classify` to the two
validators: routing and validation cannot disagree on an api key, and among routed credentials only
a reserved `app_` token is refused by the verifier it is routed to.
`PrincipalsAreOwn`: `Spec => ActsOnValues`. Clone is Take, because what it copies is pristine; BindSpace and
PassOn hand over; a handler's writes are Write, and change nobody else's value because `CopyFits` gives
each request its own place and its own slice. A bad copy of either refutes it.

`ServiceProofs`:

- `RunsVerifier`: `ServiceSpec => Spec`. Each step of the service is a step of one call of `Verifier` or leaves
  the verify path alone, so every theorem of `VerifierProofs` holds of a request's call, and their
  invariants are cited here as facts.
- `ServiceTypeCorrect`; `HeadersAreHonoured`, for any number of requests, routes and verifiers on one cache.
  `StageFits` says of which verdict a handler or a response is, and `Isolation` that this verdict has the
  realm and the context kind its own route asks for: a Principal cached for a verifier that does not ask
  never reaches a route that binds.
- `OutcomesAreFounded`, under `TimerCoversBody`. `StageFits` ties the response to the verdict, the two window
  theorems tie an acceptance or a rejection to the account, and `WhyInv` says what a rejection or a
  failure may say of its cause: a refusal octo-server gave (`RejectionsFit`, which holds of cached ones too),
  a credential refused unseen, an answer without uid, or this request's own miss (`ErrorFits`).

`ResolverProofs`: type, `PermittedOnlyAsAsked`, `DeniedOnlyByServer`, `ResolvesAreAccounted` (every Resolve is observed, its early
refusals too; a request turned away before it never is). The
heart of `IInv` is `AnswerFits`: an answer that permits exactly the question asked, or whose code
fits its status and has a request_id, says what octo-server held while the request waited; every
other answer ends as an infrastructure failure (`WireKindMeans`, `MatchesMeans`).
`ResolveDecidesAtOnce`: `Spec => DecidesAtOnce`. The answer's arrival is the moment of decision
(`AnswerDecides`): an answer that survives the checks carries the `Truth` of the question at that
moment, whoever sent it, and what Resolve returns later is that decision although `standing` has moved
on (`SettlesAsTold`, `ReturnsAsTold`).

`Layer2Proofs`: type, `TokensAreTrue`, `AttemptsAreTrue`, `AcceptedHeldTheRole`,
`TokensLiveTheirTTL`. A claim is true as long as its epoch is current and can never become current
again (`ClaimStaysTrue`): the epoch rises with each revocation. The hook's question freezes that into
the attempt, and the comparison makes it a fact, for epochs a float64 holds exactly.
`TokensCheckRoles`: `Spec => ChecksRole`. The epoch's answer is the abstract question
(`AnswerAdmits`): if it leaves the token current, the two epochs are equal (`CurrentMeansEqual`), so by
`AttemptsTrue` the role is held at that moment.

`NotifyProofs`: type, `TokenNeverStrays`, `HandledAtMostOnce`, `SuccessIsTrue`, `RejectionHasCause`,
for clients without a redirect policy of their own. `WireFits` says that what is on the wire for such a
call is its first request, to the configured host and not yet handled; `Disagree` that a request the
consumer would turn away has seen the secrets differ.
`HandledAtMostOnce` and `SuccessIsTrue` are no properties of the run: `DeliversOnce`, which it checks, is
stronger. `SendDeliversOnce`: `Spec => DeliversOnce`. The consumer's Handle is Run, a loss or anybody else's answer a
Drop (`ReplyDelivers`), and Send returns nil only on a status that only Handle can have produced
(`SettleReturns`).

Only model-checked: liveness (`EveryRequestEnds`, `EveryResolveSettles`, `EverySendReturns`, and
`EveryCallReturns`, which finding 2 refutes for TypeScript), out of this prover's reach with ENABLED and
induction over data.

## Not modelled

- *Register while requests run.* `go/verifier.go:159` writes a Go map that `Verify` reads without a
  lock, although `go/verifier.go:99` asks for safety under concurrent use. A map race may end the
  process; no property of the requests could survive it, so `Registered` is a constant.
- *A cache that rejects.* `finalizeSuccess` in `ts/src/session-verifier.ts` is returned without
  await, so a backend's rejection escapes the catch; the model's cache never fails, as the Go
  interface cannot and the built-in caches do not.
- *A gateway's 401 or 403 on the verify path.* `statusToError` (`go/http_verifier.go:133`) takes each for
  octo-server's rejection, and finalize caches it. It reads the status alone,
  not the code of the error envelope. In the model only octo-server answers with either (`AnswerRejects`);
  `RejectionWindow`, `ImplementsContract` and `OutcomesFounded` rest on that. Bot Resolve, which reads the
  envelope, is modelled with gateways.
- *Expiry while the hook waits.* Between verifying a token and accepting it the hook awaits the epoch and
  does not look at `exp` again; the model does the same and no property forbids it.
- *Epochs past 2^53* are in `Layer2`, where a stale token then passes; the properties promise nothing of them.
- *A 2xx without uid* is modelled, and cached as a rejection; no property bounds the lockout it
  causes, since no document does.
- *The mutation of a shared Config* by applyDefaults: idempotent, and before the first request.
- *The hook's path without layer 2*, a plain `verify()` of the token: it adds nothing to `AuthContract`.
- *Redirects on the verify path*, refused as in the notify client, whose model has them.
- *The TypeScript twins where they only repeat Go*: the LRU (there delegated to lru-cache), the
  notify client's timer (its shape is the mutant of `EverySendReturns`).
- Logging, wording, wire formatting, hash and JWT internals, constant-time comparison, durations,
  test helpers, examples, CI files and the OpenAPI documents.

## Plan

Done: all modules above with their runs and proofs. Left, in this order:

1. The TypeScript finalize with a cache that rejects, as a variant of `Verifier`'s finalize.
2. The registry: Register in TypeScript, where it is one synchronous step between requests.
