------------------------------ MODULE Requests ------------------------------
(***************************************************************************)
(* The authentication middlewares (nethttp, gin, echo, wkhttp and, in      *)
(* TypeScript, express: the same steps in each) over a MultiVerifier and   *)
(* what AuthContract promises of it.  Requests run concurrently; routes    *)
(* differ in the credential kind they require and in whether they read the *)
(* space header.                                                           *)
(*                                                                         *)
(* Principals are objects.  A verifier may hand every caller the object it *)
(* keeps for the account, as the Verifier interface allows; the middleware *)
(* clones it before it writes the space into it, and the handler owns what *)
(* it is given: it may write to it, and to the slices it refers to, until  *)
(* the request is over.                                                    *)
(***************************************************************************)
EXTENDS AuthContract, Credentials

CONSTANTS
  Routes,           \* [require : the RequireKind or None, space : BOOLEAN]
  Registered,       \* the realms with a child verifier in the MultiVerifier
  Presented,        \* bound: the headers clients present
  SpaceHeaders,     \* bound: the space headers they send, or None
  Spaces,
  Holds,            \* Holds[g]: the spaces an account with grant g is a member of
  ContextOf,        \* ContextOf[g]: what the session answer says of the context
  Changing,         \* bound: the changes octo-server makes later
  Horizon           \* bound: no request arrives and no time passes after it

Requests == Calls

ASSUME RouteAssumption ==
  /\ Routes \subseteq [require : Kinds \cup {None}, space : BOOLEAN]
  /\ Registered \subseteq Kinds
  /\ Presented \subseteq Headers
  /\ SpaceHeaders \subseteq Spaces \cup {None}
  /\ \A h \in Presented : ExtractedKind(h) \in Kinds =>
       <<ExtractedKind(h), ReadCredentialHeader(h)>> \in Accounts

Contexts == {"not_requested", "included", "not_included", "unknown_server"}

ASSUME GrantAssumption ==
  /\ Holds \in [Grants -> (SUBSET Spaces) \ {{}}]
  /\ ContextOf \in [Grants -> Contexts]
  /\ None \notin Spaces /\ None \notin Kinds

\* An account is known to one realm, under one credential.
ASSUME AccountAssumption == Accounts \subseteq Kinds \X Raws

----------------------------------------------------------------------------
(* Principals. *)

\* The object a verifier keeps for an account and the grant it was told.
Kept == Accounts \X Grants

Places == Kept \cup Requests

ASSUME PlaceAssumption == Kept \cap Requests = {} /\ None \notin Places

\* The fields the middleware and handlers tell apart.  list is the slice
\* Context.Spaces refers to, by the place it was allocated for.
Objects == [kind : Kinds, context : Contexts, space : Spaces \cup {None}, list : Places]

NoObject(p) == [kind |-> "session", context |-> "not_requested", space |-> None, list |-> p]

\* As the verifiers build it: a bot carries no context, and a session lacks the
\* space, which octo-server names for a bot or an api key.
Built(k) ==
  LET realm == k[1][1]
      g     == k[2]
  IN [kind    |-> realm,
      context |-> IF realm = "bot" THEN "not_requested" ELSE ContextOf[g],
      space   |-> IF realm = "session" THEN None ELSE CHOOSE s \in Holds[g] : TRUE,
      list    |-> k]

BuiltList(k) ==
  IF k[1][1] # "bot" /\ ContextOf[k[2]] = "included" THEN Holds[k[2]] ELSE {}

VARIABLES
  object, list,     \* the heap: Principals and the slices they refer to
  stage,            \* stage[r]: how far request r has come
  route, header, sid, \* its route, its credential headers, its space header
  told,             \* told[r]: when Verify returned to r
  ref,              \* ref[r]: the Principal r works on
  given,            \* given[r]: kind and space it was handed to the handler with
  wrote             \* wrote[r]: the response the middleware wrote, as a status

requestVars == <<object, list, stage, route, header, sid, told, ref, given, wrote>>
vars == <<now, account, ended, asked, outcome,
          object, list, stage, route, header, sid, told, ref, given, wrote>>

Stages == {"idle", "verifying", "cloned", "serving", "answered"}

Statuses == {"401", "403 disabled", "403 forbidden", "503"}

ASSUME StatusAssumption == None \notin Statuses

TypeOK ==
  /\ ContractTypeOK
  /\ object \in [Places -> Objects]
  /\ list \in [Places -> SUBSET Spaces]
  /\ stage \in [Requests -> Stages]
  /\ route \in [Requests -> Routes \cup {None}]
  /\ header \in [Requests -> Presented \cup {None}]
  /\ sid \in [Requests -> Spaces \cup {None}]
  /\ told \in [Requests -> Int]
  /\ ref \in [Requests -> Places \cup {None}]
  /\ given \in [Requests -> [kind : Kinds \cup {None}, space : Spaces \cup {None}]]
  /\ wrote \in [Requests -> Statuses \cup {None}]
  /\ \A r \in Requests : stage[r] = "answered" => wrote[r] # None

NotGiven == [kind |-> None, space |-> None]

Init ==
  /\ ContractInit
  /\ object = [p \in Places |-> IF p \in Kept THEN Built(p) ELSE NoObject(p)]
  /\ list = [p \in Places |-> IF p \in Kept THEN BuiltList(p) ELSE {}]
  /\ stage = [r \in Requests |-> "idle"]
  /\ route = [r \in Requests |-> None]
  /\ header = [r \in Requests |-> None]
  /\ sid = [r \in Requests |-> None]
  /\ told = [r \in Requests |-> LongAgo]
  /\ ref = [r \in Requests |-> None]
  /\ given = [r \in Requests |-> NotGiven]
  /\ wrote = [r \in Requests |-> None]

----------------------------------------------------------------------------
(* A request up to Verify: ExtractCredential, RequireKind, the dispatch. *)

contractUnchanged == UNCHANGED <<now, account, ended, asked, outcome>>

Receive(r, t, h, s) ==
  /\ stage[r] = "idle" /\ now <= Horizon
  /\ route' = [route EXCEPT ![r] = t]
  /\ header' = [header EXCEPT ![r] = h]
  /\ sid' = [sid EXCEPT ![r] = s]
  /\ UNCHANGED <<object, list, told, ref, given>>

Answer(r, status) ==
  /\ stage' = [stage EXCEPT ![r] = "answered"]
  /\ wrote' = [wrote EXCEPT ![r] = status]

RejectCredential(r, t, h, s) ==
  /\ ExtractedKind(h) = BadCredential
  /\ Receive(r, t, h, s)
  /\ Answer(r, "401")
  /\ contractUnchanged

KindPermitted(t, h) == t.require \in {None, ExtractedKind(h)}

RejectKind(r, t, h, s) ==
  /\ ExtractedKind(h) # BadCredential /\ ~KindPermitted(t, h)
  /\ Receive(r, t, h, s)
  /\ Answer(r, "403 forbidden")
  /\ contractUnchanged

\* The account the headers are about, once the kind is known.
AccountIn(h) == <<ExtractedKind(h), ReadCredentialHeader(h)>>

\* multiVerifier.Verify finds a child, and the child does not refuse at once.
Dispatched(h) ==
  /\ ExtractedKind(h) \in Registered
  /\ ~RefusedByChild(ExtractedKind(h), ReadCredentialHeader(h))

CallVerify(r, t, h, s) ==
  /\ ExtractedKind(h) # BadCredential /\ KindPermitted(t, h)
  /\ Receive(r, t, h, s)
  /\ stage' = [stage EXCEPT ![r] = "verifying"]
  /\ IF Dispatched(h) THEN Ask(r, AccountIn(h)) ELSE RefuseAtOnce(r, AccountIn(h))
  /\ UNCHANGED wrote

\* Verify returns, as AuthContract has it.
VerifyReturns(r) ==
  /\ \/ \E s \in ContractStatuses : Tell(r, s)
     \/ \E e \in Unfounded : Fail(r, e)
  /\ told' = [told EXCEPT ![r] = now]
  /\ UNCHANGED <<object, list, stage, route, header, sid, ref, given, wrote>>

----------------------------------------------------------------------------
(* From Verify to the handler: the error mapper, Clone, the space header. *)

\* Mutant: what is not known better is unauthorized.
MappedByDefault(o) == IF o = "disabled" THEN "403 disabled" ELSE "401"

\* Mutant: an infrastructure failure has no status of its own.
MappedNotInfra(o) ==
  IF o \in {"revoked", "unfounded"} THEN "401"
  ELSE IF o = "disabled" THEN "403 disabled" ELSE None

\* DefaultErrorMapper, for the errors Verify returns.
Mapped(o) ==
  IF o \in {"revoked", "unfounded"} THEN "401"
  ELSE IF o = "disabled" THEN "403 disabled" ELSE "503"

RespondError(r) ==
  /\ stage[r] = "verifying"
  /\ outcome[r] \in ContractRefusals \cup Unfounded
  /\ Answer(r, Mapped(outcome[r]))
  /\ contractUnchanged
  /\ UNCHANGED <<object, list, route, header, sid, told, ref, given>>

Source(r) == <<asked[r], outcome[r]>>

\* Mutant: the copy refers to the slices of the original.
CloneShallow(r) ==
  /\ stage[r] = "verifying" /\ outcome[r] \in Grants
  /\ object' = [object EXCEPT ![r] = object[Source(r)]]
  /\ ref' = [ref EXCEPT ![r] = r]
  /\ stage' = [stage EXCEPT ![r] = "cloned"]
  /\ contractUnchanged
  /\ UNCHANGED <<list, route, header, sid, told, given, wrote>>

\* Mutant: no copy is made.
CloneNot(r) ==
  /\ stage[r] = "verifying" /\ outcome[r] \in Grants
  /\ ref' = [ref EXCEPT ![r] = Source(r)]
  /\ stage' = [stage EXCEPT ![r] = "cloned"]
  /\ contractUnchanged
  /\ UNCHANGED <<object, list, route, header, sid, told, given, wrote>>

\* Principal.Clone: the object and every slice it refers to are copied.
Clone(r) ==
  /\ stage[r] = "verifying" /\ outcome[r] \in Grants
  /\ object' = [object EXCEPT ![r] = [object[Source(r)] EXCEPT !.list = r]]
  /\ list' = [list EXCEPT ![r] = list[object[Source(r)].list]]
  /\ ref' = [ref EXCEPT ![r] = r]
  /\ stage' = [stage EXCEPT ![r] = "cloned"]
  /\ contractUnchanged
  /\ UNCHANGED <<route, header, sid, told, given, wrote>>

\* The early returns of SpaceFromHeader: nothing to enrich.
Enrichable(r) == route[r].space /\ object[ref[r]].kind = "session" /\ sid[r] # None

ContextIs(r) == object[ref[r]].context

\* Mutant: a context that is not included is no reason to refuse.
MayBindUnlessExcluded(r) ==
  ContextIs(r) # "included" \/ sid[r] \in list[object[ref[r]].list]

\* Only a context the server affirmed lets the client's space be bound.
MayBind(r) == ContextIs(r) = "included" /\ sid[r] \in list[object[ref[r]].list]

Forbid(r) ==
  /\ stage[r] = "cloned"
  /\ Enrichable(r) /\ ContextIs(r) # "not_requested" /\ ~MayBind(r)
  /\ Answer(r, "403 forbidden")
  /\ contractUnchanged
  /\ UNCHANGED <<object, list, route, header, sid, told, ref, given>>

\* The Principal goes into the request's context and the handler runs.
Serve(r, space) ==
  /\ stage' = [stage EXCEPT ![r] = "serving"]
  /\ given' = [given EXCEPT ![r] = [kind |-> object[ref[r]].kind, space |-> space]]
  /\ contractUnchanged
  /\ UNCHANGED <<list, route, header, sid, told, ref, wrote>>

BindSpace(r) ==
  /\ stage[r] = "cloned"
  /\ Enrichable(r) /\ MayBind(r)
  /\ object' = [object EXCEPT ![ref[r]].space = sid[r]]
  /\ Serve(r, sid[r])

\* Nothing to enrich, or a context that was never requested.
PassOn(r) ==
  /\ stage[r] = "cloned"
  /\ ~Enrichable(r) \/ ContextIs(r) = "not_requested"
  /\ Serve(r, object[ref[r]].space)
  /\ UNCHANGED object

\* The handler writes to the Principal it was given and to its slice.
HandlerWrites(r, s) ==
  /\ stage[r] = "serving"
  /\ object' = [object EXCEPT ![ref[r]].space = s]
  /\ list' = [list EXCEPT ![object[ref[r]].list] = Spaces]
  /\ contractUnchanged
  /\ UNCHANGED <<stage, route, header, sid, told, ref, given, wrote>>

\* The request is over, and what it allocated is garbage.
Finish(r) ==
  /\ stage[r] \in {"serving", "answered"}
  /\ \/ Forget(r)
     \/ outcome[r] = NoVerdict /\ contractUnchanged
  /\ object' = [object EXCEPT ![r] = NoObject(r)]
  /\ list' = [list EXCEPT ![r] = {}]
  /\ stage' = [stage EXCEPT ![r] = "idle"]
  /\ route' = [route EXCEPT ![r] = None]
  /\ header' = [header EXCEPT ![r] = None]
  /\ sid' = [sid EXCEPT ![r] = None]
  /\ told' = [told EXCEPT ![r] = LongAgo]
  /\ ref' = [ref EXCEPT ![r] = None]
  /\ given' = [given EXCEPT ![r] = NotGiven]
  /\ wrote' = [wrote EXCEPT ![r] = None]

----------------------------------------------------------------------------
(* octo-server and time. *)

AccountChanges(a, status) ==
  /\ <<a, status>> \in Changing
  /\ Change(a, status)
  /\ UNCHANGED requestVars

TimePasses ==
  /\ now < Horizon
  /\ Pass
  /\ UNCHANGED requestVars

Arrives(r, t, h, s) ==
  RejectCredential(r, t, h, s) \/ RejectKind(r, t, h, s) \/ CallVerify(r, t, h, s)

Settles(r) ==
  RespondError(r) \/ Clone(r) \/ Forbid(r) \/ BindSpace(r) \/ PassOn(r)

Next ==
  \/ \E r \in Requests :
       \/ \E t \in Routes, h \in Presented, s \in SpaceHeaders : Arrives(r, t, h, s)
       \/ VerifyReturns(r) \/ Settles(r) \/ Finish(r)
       \/ \E s \in Spaces : HandlerWrites(r, s)
  \/ \E a \in Accounts, status \in ContractStatuses : AccountChanges(a, status)
  \/ TimePasses

Spec == Init /\ [][Next]_vars

----------------------------------------------------------------------------
(* Properties. *)

\* Grant g of r's account was true a window before Verify returned, at most.
HeldInWindow(r, g) == told[r] <= LastTrue(asked[r], g) + Window[asked[r]][g]

\* No handler is given a space the account was not a member of within the
\* window before Verify returned: the space header of a session is bound only
\* against what octo-server affirmed, whatever other requests and handlers do
\* with their own Principals (SpaceFromHeader in enrich.go).
SpaceHeld ==
  \A r \in Requests : (stage[r] = "serving" /\ given[r].space # None) =>
    \E g \in Grants : given[r].space \in Holds[g] /\ HeldInWindow(r, g)

\* A session's handler is given its own request's space header or no space, never
\* what another request or a handler left in a shared Principal; and a handler
\* behind RequireKind is given a Principal of that kind (Wrap in nethttp.go, New
\* in gin.go, echo.go and wkhttp.go).
OwnSpace ==
  \A r \in Requests : stage[r] = "serving" =>
    /\ given[r].kind = "session" => given[r].space \in {None, sid[r]}
    /\ route[r].require \in {None, given[r].kind}
    /\ given[r].kind = asked[r][1]

\* What a verifier keeps for later calls never changes, though it hands it to
\* every caller and handlers write to what they are given (Clone in
\* principal_clone.go).
KeptPristine ==
  \A k \in Kept : object[k] = Built(k) /\ list[k] = BuiltList(k)

\* A response tells what happened: a 401 or a "disabled" that was true within
\* the window, a 503 only when nothing is known, and a "forbidden" only when the
\* kind is wrong or octo-server, a window ago at most, held an account that was
\* not a member of the space or answered without the context
\* (DefaultErrorMapper in config.go).
AnswersTrue ==
  \A r \in Requests :
    /\ wrote[r] = "401" =>
         \/ ExtractedKind(header[r]) = BadCredential
         \/ outcome[r] = "unfounded" \/ HeldInWindow(r, "revoked")
    /\ wrote[r] = "403 disabled" => HeldInWindow(r, "disabled")
    /\ wrote[r] = "503" => outcome[r] = "infra_failure"
    /\ wrote[r] = "403 forbidden" =>
         \/ ~KindPermitted(route[r], header[r])
         \/ \E g \in Grants :
              /\ HeldInWindow(r, g)
              /\ sid[r] \notin Holds[g] \/ ContextOf[g] \in {"not_included", "unknown_server"}

\* What is at p, with the slice it refers to.
Contents(p) ==
  [kind |-> object[p].kind, context |-> object[p].context, space |-> object[p].space,
   spaces |-> list[object[p].list]]

BuiltValue(k) ==
  [kind |-> Built(k).kind, context |-> Built(k).context, space |-> Built(k).space,
   spaces |-> BuiltList(k)]

ASSUME ValueAssumption ==
  None \notin [kind : Kinds, context : Contexts, space : Spaces \cup {None},
               spaces : SUBSET Spaces]

Entitled ==
  [r \in Requests |-> IF outcome[r] \in Grants THEN Source(r) ELSE None]

Mine ==
  [r \in Requests |-> IF stage[r] \in {"cloned", "serving"} THEN Contents(ref[r]) ELSE None]

Serving == {r \in Requests : stage[r] = "serving"}

Values == INSTANCE OwnPrincipals WITH
  Verdicts <- Kept, Value <- [k \in Kept |-> BuiltValue(k)], Nothing <- None,
  entitled <- Entitled, mine <- Mine, serving <- Serving

\* Objects on a shared heap behave as values: whatever verifiers, middlewares and
\* handlers write, a request's Principal starts as what the verifier built for its
\* own verdict, is changed by its own steps only, and reaches the handler with no
\* space but one it lists ("safe for the caller to mutate without affecting other
\* references", principal_clone.go).
ActsOnValues == Values!ValueSpec
=============================================================================
