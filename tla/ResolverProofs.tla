--------------------------- MODULE ResolverProofs ---------------------------
(***************************************************************************)
(* Proofs about Resolver, for any set of requests, routes and standings:   *)
(* its type invariant, that a handler runs only for what octo-server held  *)
(* permitted while the request waited, that a request is turned away only  *)
(* for what octo-server held or the request lacks, the metrics, and that   *)
(* Resolver implements BotDecisions.                                       *)
(***************************************************************************)
EXTENDS Resolver, TLAPS

Asking(x) == stage[x] \in {"sent", "answering"}
Open(x) == stage[x] = "resolving" \/ Asking(x)

\* A slot nobody uses holds nothing.
IdleFits(x) ==
  stage[x] = "idle" => metrics[x] = NoMetrics /\ truths[x] = {} /\ answer[x] = None

\* A request in hand has a route and headers and names a space, or a blank one.
CallFits(x) ==
  stage[x] # "idle" =>
    route[x] \in Routes /\ header[x] \in Presented /\ space[x] \in Spaces \cup {BlankSpace}

\* A request that Resolve works on has passed the checks before it.
OpenFits(x) ==
  Open(x) =>
    /\ metrics[x] = NoMetrics
    /\ ExtractedKind(header[x]) = "bot"
    /\ MarkerFits(route[x], marker[x]) /\ ~subject[x]
    /\ stage[x] = "resolving" => truths[x] = {}

\* A question under way is one octo-server can decide, and what it holds of it
\* is among what it held since it was sent.
AskFits(x) == Asking(x) => Asks(x) /\ Truth(x) \in truths[x]

\* An answer that permits the question asked, or denies it in a way Resolve
\* recognizes, says what octo-server held.
AnswerFits(x) ==
  stage[x] = "answering" =>
    /\ answer[x] # None
    /\ (answer[x].status = 200 /\ answer[x].question = Question(x)) => "permitted" \in truths[x]
    /\ (answer[x].status # 200 /\ WireKind(answer[x]) # "infra_failure")
         => answer[x].code \in truths[x]

\* The properties, one request at a time.
PermittedFits(x) ==
  Handled(x) =>
    /\ result[x].question = Question(x) /\ "permitted" \in truths[x]
    /\ marker[x] = (IF route[x].mode = "OBO" THEN "true" ELSE "absent")
    /\ ~subject[x]

DeniedFits(x) ==
  /\ Wrote(x, "invalid_credential") =>
       \/ "invalid_credential" \in truths[x]
       \/ ExtractedKind(header[x]) # "bot"
       \/ Credential(x).prefix = "app_" \/ Credential(x).tail = "bare"
  /\ Wrote(x, "disabled") => "disabled" \in truths[x]
  /\ Wrote(x, "forbidden") => truths[x] \cap Forbidding # {}
  /\ Wrote(x, "invalid_request") =>
       \/ "invalid_request" \in truths[x]
       \/ ~MarkerFits(route[x], marker[x]) \/ subject[x]
       \/ space[x] = BlankSpace \/ route[x].action = BlankAction

AccountFits(x) ==
  stage[x] = "settled" =>
    metrics[x] =
      IF TurnedAway(x) THEN NoMetrics
      ELSE IF Handled(x) THEN [errors |-> 0, observed |-> <<"miss-ok">>]
      ELSE IF result[x].kind = "infra_failure"
           THEN [errors |-> 1, observed |-> <<"error">>]
           ELSE [errors |-> 1, observed |-> <<"miss-err">>]

RequestFits(x) ==
  /\ IdleFits(x) /\ CallFits(x) /\ OpenFits(x) /\ AskFits(x) /\ AnswerFits(x)
  /\ PermittedFits(x) /\ DeniedFits(x) /\ AccountFits(x)

\* The inductive invariant.
IInv == TypeOK /\ \A x \in Requests : RequestFits(x)

----------------------------------------------------------------------------
(* What the operators give. *)

\* Resolve knows an error for every status and code.
LEMMA WireKindType ==
  ASSUME NEW a \in Denials
  PROVE  WireKind(a) \in ErrorKinds
BY DEF Denials, Codes, WireKind, ErrorKinds

\* A kind other than infra_failure is the code itself, or stands for it.
LEMMA WireKindMeans ==
  ASSUME NEW a \in Denials, WireKind(a) # "infra_failure"
  PROVE  /\ a.requestId /\ a.code # None /\ a.status = StatusFor(a.code)
         /\ \/ WireKind(a) = "forbidden" /\ a.code \in Forbidding
            \/ WireKind(a) = a.code /\ a.code \in {"invalid_request", "invalid_credential", "disabled"}
BY DEF Denials, Codes, WireKind, Forbidding

\* octo-server always decides.
LEMMA DecideType ==
  ASSUME NEW b, NEW q
  PROVE  Decide(b, q) \in Codes \cup {"permitted"}
BY DEF Decide, Codes

\* What Resolve asks is a question.
LEMMA QuestionType ==
  ASSUME NEW x \in Requests, CallFits(x), stage[x] # "idle", Asks(x)
  PROVE  Question(x) \in Questions
BY RouteAssumption DEF CallFits, Asks, Question, Questions

\* What Resolve accepts is the answer to its question.
LEMMA MatchesMeans ==
  ASSUME NEW x \in Requests, NEW a \in Permits, Matches(x, a)
  PROVE  a.question = Question(x)
<1>1. a.question \in Questions
  BY DEF Permits
<1>2. a.question = [mode |-> a.question.mode, space |-> a.question.space,
                    action |-> a.question.action]
  BY <1>1 DEF Questions
<1> QED BY <1>2 DEF Matches, Question

\* The metrics of a Resolve that had none.
LEMMA RecordGives ==
  ASSUME TypeOK, NEW r \in Requests, metrics[r] = NoMetrics, NEW res, Record(r, res)
  PROVE  /\ metrics'[r] =
              IF res.kind = "permitted" THEN [errors |-> 0, observed |-> <<"miss-ok">>]
              ELSE IF res.kind = "infra_failure"
                   THEN [errors |-> 1, observed |-> <<"error">>]
                   ELSE [errors |-> 1, observed |-> <<"miss-err">>]
         /\ \A x \in Requests : x # r => metrics'[x] = metrics[x]
         /\ metrics' \in [Requests -> [errors : Nat, observed : Seq(Tags)]]
<1> DEFINE tag == IF res.kind = "permitted" THEN "miss-ok"
                  ELSE IF res.kind = "infra_failure" THEN "error" ELSE "miss-err"
           new == [errors |-> IF res.kind # "permitted" THEN 1 ELSE 0, observed |-> <<tag>>]
<1>1. metrics' = [metrics EXCEPT ![r] = new]
  BY DEF Record, NoMetrics, TypeOK
<1>2. new \in [errors : Nat, observed : Seq(Tags)]
  <2>1. tag \in Tags
    BY DEF Tags
  <2>2. <<tag>> \in Seq(Tags)
    BY <2>1
  <2> QED BY <2>2
<1>3. metrics \in [Requests -> [errors : Nat, observed : Seq(Tags)]]
  BY DEF TypeOK
<1>4. metrics'[r] = new
  BY <1>1, <1>3
<1>5. /\ \A x \in Requests : x # r => metrics'[x] = metrics[x]
      /\ metrics' \in [Requests -> [errors : Nat, observed : Seq(Tags)]]
  <2> HIDE DEF new
  <2> QED BY <1>1, <1>2, <1>3
<1> QED BY <1>4, <1>5

----------------------------------------------------------------------------
(* Types. *)

\* octo-server's status for a code.
LEMMA StatusForType ==
  ASSUME NEW code
  PROVE  StatusFor(code) \in {400, 401, 403, 503}
BY DEF StatusFor

\* A 200 permits; all else denies.
LEMMA AnswerKinds ==
  ASSUME TypeOK, NEW r \in Requests, answer[r] # None
  PROVE  IF answer[r].status = 200 THEN answer[r] \in Permits ELSE answer[r] \in Denials
<1>1. answer[r] \in Permits \/ answer[r] \in Denials
  BY DEF TypeOK, Answers
<1>2. answer[r] \in Permits => answer[r].status = 200
  BY DEF Permits
<1>3. answer[r] \in Denials => answer[r].status # 200
  BY DEF Denials
<1> QED BY <1>1, <1>2, <1>3

\* Returning a result keeps the state well-formed.
LEMMA ReturnType ==
  ASSUME TypeOK, NEW r \in Requests, metrics[r] = NoMetrics, NEW res \in Results,
         Return(r, res), truths' = truths
  PROVE  TypeOK'
<1>1. metrics' \in [Requests -> [errors : Nat, observed : Seq(Tags)]]
  BY RecordGives DEF Return
<1> QED BY <1>1 DEF TypeOK, Return, Stages, callVars

\* Every step keeps the state well-formed.
LEMMA StepType ==
  ASSUME IInv, [Next]_vars
  PROVE  TypeOK'
<1>1. ASSUME NEW r \in Requests, NEW t \in Routes, NEW h \in Presented, NEW m \in Markers,
               NEW s \in Spaces \cup {BlankSpace}, NEW n \in BOOLEAN,
               RefuseCredential(r, t, h, m, s, n)
      PROVE  TypeOK'
  BY <1>1
  DEF IInv, TypeOK, Stages, RefuseCredential, Receive, Refuse, Failure, Results,
      ErrorKinds
<1>2. ASSUME NEW r \in Requests, NEW t \in Routes, NEW h \in Presented, NEW m \in Markers,
               NEW s \in Spaces \cup {BlankSpace}, NEW n \in BOOLEAN,
               RefuseParameters(r, t, h, m, s, n)
      PROVE  TypeOK'
  BY <1>2
  DEF IInv, TypeOK, Stages, RefuseParameters, Receive, Refuse, Failure, Results,
      ErrorKinds
<1>3. ASSUME NEW r \in Requests, NEW t \in Routes, NEW h \in Presented, NEW m \in Markers,
               NEW s \in Spaces \cup {BlankSpace}, NEW n \in BOOLEAN,
               CallResolve(r, t, h, m, s, n)
      PROVE  TypeOK'
  BY <1>3
  DEF IInv, TypeOK, Stages, CallResolve, Receive
<1>4. ASSUME NEW r \in Requests, ServerDecides(r) PROVE TypeOK'
  <2>1. PICK a \in Answers : Respond(r, a)
    <3>1. Question(r) \in Questions
      BY <1>4, QuestionType DEF ServerDecides, IInv, RequestFits, AskFits, Asking
    <3>2. CASE Truth(r) = "permitted"
      BY <1>4, <3>1, <3>2 DEF ServerDecides, Answers, Permits
    <3>3. CASE Truth(r) # "permitted"
      <4>1. Truth(r) \in Codes
        BY <3>3, DecideType DEF Truth
      <4>2. StatusFor(Truth(r)) \in {400, 401, 403, 500, 503}
        BY StatusForType
      <4>3. [status |-> StatusFor(Truth(r)), code |-> Truth(r), requestId |-> TRUE] \in Denials
        BY <4>1, <4>2 DEF Denials
      <4> QED BY <1>4, <3>3, <4>3 DEF ServerDecides, Answers
    <3> QED BY <3>2, <3>3
  <2> QED BY <2>1 DEF IInv, TypeOK, Respond, Stages, callVars
<1>5. ASSUME NEW r \in Requests, OldServerDecides(r) PROVE TypeOK'
  <2>1. PICK a \in Answers : Respond(r, a)
    BY <1>5 DEF OldServerDecides, Answers, Permits
  <2> QED BY <2>1 DEF IInv, TypeOK, Respond, Stages, callVars
<1>6. ASSUME NEW r \in Requests, GatewayAnswers(r) PROVE TypeOK'
  <2>1. PICK a \in Answers : Respond(r, a)
    BY <1>6 DEF GatewayAnswers, Answers
  <2> QED BY <2>1 DEF IInv, TypeOK, Respond, Stages, callVars
<1>7. ASSUME NEW r \in Requests, RequestFails(r) PROVE TypeOK'
  <2>1. metrics[r] = NoMetrics
    BY <1>7 DEF IInv, RequestFits, OpenFits, Open, Asking, RequestFails
  <2>2. PICK res \in Results : Return(r, res) /\ truths' = truths
    BY <1>7 DEF RequestFails, Failure, Results, ErrorKinds
  <2> QED BY <2>1, <2>2, ReturnType DEF IInv
<1>8. ASSUME NEW r \in Requests, ResolveRefuses(r) PROVE TypeOK'
  <2>1. metrics[r] = NoMetrics
    BY <1>8 DEF IInv, RequestFits, OpenFits, Open, Asking, ResolveRefuses
  <2>2. PICK res \in Results : Return(r, res) /\ truths' = truths
    BY <1>8 DEF ResolveRefuses, Failure, Results, ErrorKinds
  <2> QED BY <2>1, <2>2, ReturnType DEF IInv
<1>9. ASSUME NEW r \in Requests, SendRequest(r) PROVE TypeOK'
  BY <1>9, DecideType
  DEF IInv, TypeOK, Stages, SendRequest, callVars, Truth
<1>10. ASSUME NEW r \in Requests, ResolvePermits(r) PROVE TypeOK'
  <2>1. metrics[r] = NoMetrics
    BY <1>10 DEF IInv, RequestFits, OpenFits, Open, Asking, ResolvePermits
  <2>2. PICK res \in Results : Return(r, res) /\ truths' = truths
    <3>1. answer[r] \in Permits
      BY <1>10, AnswerKinds DEF IInv, RequestFits, AnswerFits, ResolvePermits
    <3> QED BY <1>10, <3>1 DEF ResolvePermits, Permitted, Permits, Results
  <2> QED BY <2>1, <2>2, ReturnType DEF IInv
<1>11. ASSUME NEW r \in Requests, ResolveMismatch(r) PROVE TypeOK'
  <2>1. metrics[r] = NoMetrics
    BY <1>11 DEF IInv, RequestFits, OpenFits, Open, Asking, ResolveMismatch
  <2>2. PICK res \in Results : Return(r, res) /\ truths' = truths
    BY <1>11 DEF ResolveMismatch, Failure, Results, ErrorKinds
  <2> QED BY <2>1, <2>2, ReturnType DEF IInv
<1>12. ASSUME NEW r \in Requests, ResolveDenied(r) PROVE TypeOK'
  <2>1. metrics[r] = NoMetrics
    BY <1>12 DEF IInv, RequestFits, OpenFits, Open, Asking, ResolveDenied
  <2>2. PICK res \in Results : Return(r, res) /\ truths' = truths
    <3>1. answer[r] \in Denials
      BY <1>12, AnswerKinds DEF IInv, RequestFits, AnswerFits, ResolveDenied
    <3> QED BY <1>12, <3>1, WireKindType DEF ResolveDenied, Failure, Results
  <2> QED BY <2>1, <2>2, ReturnType DEF IInv
<1>13. ASSUME NEW r \in Requests, Finish(r) PROVE TypeOK'
  <2>1. NoMetrics \in [errors : Nat, observed : Seq(Tags)]
    BY DEF NoMetrics
  <2> QED BY <1>13, <2>1 DEF IInv, TypeOK, Finish, Stages
<1>14. ASSUME NEW held \in Standings, ServerChanges(held) PROVE TypeOK'
  BY <1>14, DecideType
  DEF IInv, TypeOK, Stages, ServerChanges, callVars
<1>15. CASE UNCHANGED vars
  BY <1>15
  DEF vars, callVars, IInv, TypeOK
<1>16. ASSUME NEW r \in Requests, TimeOut(r) PROVE TypeOK'
  BY <1>16, <1>7 DEF TimeOut
<1> QED
  BY <1>1, <1>2, <1>3, <1>4, <1>5, <1>6, <1>7, <1>8,
     <1>9, <1>10, <1>11, <1>12, <1>13, <1>14, <1>15, <1>16
  DEF Next, Resolves

----------------------------------------------------------------------------
(* Steps keep what requests promise. *)

\* What a request promises rests on its own slots and on octo-server.
LEMMA Untouched ==
  ASSUME NEW x \in Requests, RequestFits(x), standing' = standing,
         stage'[x] = stage[x], route'[x] = route[x], header'[x] = header[x],
         marker'[x] = marker[x], space'[x] = space[x], subject'[x] = subject[x],
         answer'[x] = answer[x], result'[x] = result[x], truths'[x] = truths[x],
         metrics'[x] = metrics[x]
  PROVE  RequestFits(x)'
<1>1. Question(x)' = Question(x) /\ Credential(x)' = Credential(x)
  BY DEF Question, Credential
<1>2. IdleFits(x)' /\ CallFits(x)' /\ OpenFits(x)'
  BY DEF RequestFits, IdleFits, CallFits, OpenFits, Open, Asking
<1>3. AskFits(x)' /\ AnswerFits(x)'
  BY <1>1 DEF RequestFits, AskFits, AnswerFits, Asking, Asks, Truth
<1>4. PermittedFits(x)' /\ DeniedFits(x)' /\ AccountFits(x)'
  BY <1>1 DEF RequestFits, PermittedFits, DeniedFits, AccountFits, TurnedAway, Handled, Wrote
<1> QED BY <1>2, <1>3, <1>4 DEF RequestFits

\* What Resolve may return.
Founded(r, res) ==
  /\ res.kind = "permitted" => res.question = Question(r) /\ "permitted" \in truths[r]
  /\ res.kind = "invalid_credential" =>
       \/ "invalid_credential" \in truths[r]
       \/ Credential(r).prefix = "app_" \/ Credential(r).tail = "bare"
  /\ res.kind = "disabled" => "disabled" \in truths[r]
  /\ res.kind = "forbidden" => truths[r] \cap Forbidding # {}
  /\ res.kind = "invalid_request" =>
       \/ "invalid_request" \in truths[r]
       \/ space[r] = BlankSpace \/ route[r].action = BlankAction

\* Returning it keeps every request's promises.
LEMMA ReturnFits ==
  ASSUME IInv, NEW r \in Requests, Open(r), NEW res \in Results, Founded(r, res),
         Return(r, res), truths' = truths, NEW x \in Requests
  PROVE  RequestFits(x)'
<1>1. metrics[r] = NoMetrics
  BY DEF IInv, RequestFits, OpenFits
<1>2. CASE x # r
  <2>1. metrics'[x] = metrics[x]
    BY <1>1, <1>2, RecordGives DEF IInv, Return
  <2> QED BY <1>2, <2>1, Untouched DEF IInv, TypeOK, Return, callVars
<1>3. CASE x = r
  <2>1. stage'[r] = "settled" /\ result'[r] = res
    BY DEF IInv, TypeOK, Return
  <2>2. Question(r)' = Question(r) /\ Credential(r)' = Credential(r)
    BY DEF Return, callVars, Question, Credential
  <2>3. IdleFits(r)' /\ OpenFits(r)' /\ AskFits(r)' /\ AnswerFits(r)'
    BY <2>1 DEF IdleFits, OpenFits, AskFits, AnswerFits, Open, Asking
  <2>4. CallFits(r)'
    BY <2>1 DEF IInv, RequestFits, CallFits, Open, Asking, Return, callVars
  <2>5. PermittedFits(r)'
    <3>1. MarkerFits(route[r], marker[r]) /\ ~subject[r]
      BY DEF IInv, RequestFits, OpenFits
    <3>2. route' = route /\ marker' = marker /\ subject' = subject
      BY DEF Return, callVars
    <3> QED BY <2>1, <2>2, <3>1, <3>2 DEF PermittedFits, Handled, Founded, MarkerFits
  <2>6. DeniedFits(r)'
    BY <2>1, <2>2 DEF DeniedFits, Wrote, Founded, Return, callVars
  <2>7. AccountFits(r)'
    <3>1. ~TurnedAway(r)
      BY DEF IInv, RequestFits, OpenFits, TurnedAway
    <3>2. ~TurnedAway(r)'
      BY <3>1 DEF TurnedAway, Return, callVars
    <3> QED BY <1>1, <2>1, <3>2, RecordGives DEF AccountFits, Handled, Return, IInv
  <2> QED BY <1>3, <2>3, <2>4, <2>5, <2>6, <2>7 DEF RequestFits
<1> QED BY <1>2, <1>3

\* An answer that comes keeps them, if it is one that AnswerFits allows.
LEMMA RespondFits ==
  ASSUME IInv, NEW r \in Requests, stage[r] = "sent", NEW a \in Answers, Respond(r, a),
         (a.status = 200 /\ a.question = Question(r)) => "permitted" \in truths[r],
         (a.status # 200 /\ WireKind(a) # "infra_failure") => a.code \in truths[r],
         NEW x \in Requests
  PROVE  RequestFits(x)'
<1>1. CASE x # r
  BY <1>1, Untouched DEF IInv, TypeOK, Respond, callVars
<1>2. CASE x = r
  <2>1. stage'[r] = "answering" /\ answer'[r] = a
    BY DEF IInv, TypeOK, Respond
  <2>2. Question(r)' = Question(r) /\ Credential(r)' = Credential(r)
    BY DEF Respond, callVars, Question, Credential
  <2>3. IdleFits(r)' /\ PermittedFits(r)' /\ DeniedFits(r)' /\ AccountFits(r)'
    BY <2>1 DEF IdleFits, PermittedFits, DeniedFits, AccountFits, Handled, Wrote
  <2>4. CallFits(r)' /\ OpenFits(r)'
    BY <2>1 DEF IInv, RequestFits, CallFits, OpenFits, Open, Asking, Respond, callVars
  <2>5. AskFits(r)'
    BY <2>1, <2>2 DEF IInv, RequestFits, AskFits, Asking, Asks, Truth, Respond, callVars
  <2>6. AnswerFits(r)'
    <3>1. a # None
      BY AnswerAssumption
    <3> QED BY <2>1, <2>2, <3>1 DEF AnswerFits, Respond
  <2> QED BY <1>2, <2>3, <2>4, <2>5, <2>6 DEF RequestFits
<1> QED BY <1>1, <1>2

\* Every step keeps every request's promises.
LEMMA StepRequests ==
  ASSUME IInv, [Next]_vars, NEW x \in Requests
  PROVE  RequestFits(x)'
<1>1. ASSUME NEW r \in Requests, NEW t \in Routes, NEW h \in Presented, NEW m \in Markers,
               NEW s \in Spaces \cup {BlankSpace}, NEW n \in BOOLEAN,
               RefuseCredential(r, t, h, m, s, n)
      PROVE  RequestFits(x)'
  <2>1. CASE x # r
    BY <1>1, <2>1, Untouched
    DEF IInv, TypeOK, RefuseCredential, Receive, Refuse, Failure
  <2>2. CASE x = r
    <3>1. /\ stage'[r] = "settled" /\ result'[r] = Failure("invalid_credential")
          /\ route'[r] = t /\ header'[r] = h /\ marker'[r] = m /\ space'[r] = s /\ subject'[r] = n
      BY <1>1 DEF IInv, TypeOK, RefuseCredential, Receive, Refuse
    <3>2. metrics' = metrics /\ truths' = truths /\ metrics[r] = NoMetrics /\ truths[r] = {}
      BY <1>1 DEF IInv, RequestFits, IdleFits, RefuseCredential, Receive
    <3>3. IdleFits(r)' /\ OpenFits(r)' /\ AskFits(r)' /\ AnswerFits(r)' /\ CallFits(r)'
      BY <3>1 DEF IdleFits, OpenFits, AskFits, AnswerFits, CallFits, Open, Asking
    <3>4. PermittedFits(r)'
      BY <3>1 DEF PermittedFits, Handled, Failure
    <3>5. DeniedFits(r)'
      BY <1>1, <3>1 DEF DeniedFits, Wrote, Failure, RefuseCredential
    <3>6. AccountFits(r)'
      BY <1>1, <3>1, <3>2 DEF AccountFits, TurnedAway, RefuseCredential
    <3> QED BY <2>2, <3>3, <3>4, <3>5, <3>6 DEF RequestFits
  <2> QED BY <2>1, <2>2
<1>2. ASSUME NEW r \in Requests, NEW t \in Routes, NEW h \in Presented, NEW m \in Markers,
               NEW s \in Spaces \cup {BlankSpace}, NEW n \in BOOLEAN,
               RefuseParameters(r, t, h, m, s, n)
      PROVE  RequestFits(x)'
  <2>1. CASE x # r
    BY <1>2, <2>1, Untouched
    DEF IInv, TypeOK, RefuseParameters, Receive, Refuse, Failure
  <2>2. CASE x = r
    <3>1. /\ stage'[r] = "settled" /\ result'[r] = Failure("invalid_request")
          /\ route'[r] = t /\ header'[r] = h /\ marker'[r] = m /\ space'[r] = s /\ subject'[r] = n
      BY <1>2 DEF IInv, TypeOK, RefuseParameters, Receive, Refuse
    <3>2. metrics' = metrics /\ truths' = truths /\ metrics[r] = NoMetrics /\ truths[r] = {}
      BY <1>2 DEF IInv, RequestFits, IdleFits, RefuseParameters, Receive
    <3>3. IdleFits(r)' /\ OpenFits(r)' /\ AskFits(r)' /\ AnswerFits(r)' /\ CallFits(r)'
      BY <3>1 DEF IdleFits, OpenFits, AskFits, AnswerFits, CallFits, Open, Asking
    <3>4. PermittedFits(r)'
      BY <3>1 DEF PermittedFits, Handled, Failure
    <3>5. DeniedFits(r)'
      BY <1>2, <3>1 DEF DeniedFits, Wrote, Failure, RefuseParameters
    <3>6. AccountFits(r)'
      BY <1>2, <3>1, <3>2 DEF AccountFits, TurnedAway, RefuseParameters
    <3> QED BY <2>2, <3>3, <3>4, <3>5, <3>6 DEF RequestFits
  <2> QED BY <2>1, <2>2
<1>3. ASSUME NEW r \in Requests, NEW t \in Routes, NEW h \in Presented, NEW m \in Markers,
               NEW s \in Spaces \cup {BlankSpace}, NEW n \in BOOLEAN,
               CallResolve(r, t, h, m, s, n)
      PROVE  RequestFits(x)'
  <2>1. CASE x # r
    BY <1>3, <2>1, Untouched
    DEF IInv, TypeOK, CallResolve, Receive
  <2>2. CASE x = r
    <3>1. /\ stage'[r] = "resolving"
          /\ route'[r] = t /\ header'[r] = h /\ marker'[r] = m /\ space'[r] = s /\ subject'[r] = n
      BY <1>3 DEF IInv, TypeOK, CallResolve, Receive
    <3>2. metrics' = metrics /\ truths' = truths /\ metrics[r] = NoMetrics /\ truths[r] = {}
      BY <1>3 DEF IInv, RequestFits, IdleFits, CallResolve, Receive
    <3>3. IdleFits(r)' /\ AskFits(r)' /\ AnswerFits(r)' /\ CallFits(r)'
      BY <3>1 DEF IdleFits, AskFits, AnswerFits, CallFits, Asking
    <3>4. OpenFits(r)'
      BY <1>3, <3>1, <3>2 DEF OpenFits, CallResolve
    <3>5. PermittedFits(r)' /\ DeniedFits(r)' /\ AccountFits(r)'
      BY <3>1 DEF PermittedFits, DeniedFits, AccountFits, Handled, Wrote
    <3> QED BY <2>2, <3>3, <3>4, <3>5 DEF RequestFits
  <2> QED BY <2>1, <2>2
<1>4. ASSUME NEW r \in Requests, ServerDecides(r) PROVE RequestFits(x)'
  <2>1. Truth(r) \in truths[r] /\ Question(r) \in Questions
    BY <1>4, QuestionType DEF ServerDecides, IInv, RequestFits, AskFits, Asking
  <2>2. CASE Truth(r) = "permitted"
    <3> DEFINE a == [status |-> 200, question |-> Question(r), complete |-> TRUE]
    <3>1. a \in Answers
      BY <2>1 DEF Answers, Permits
    <3> QED BY <1>4, <2>1, <2>2, <3>1, RespondFits DEF ServerDecides
  <2>3. CASE Truth(r) # "permitted"
    <3> DEFINE a == [status |-> StatusFor(Truth(r)), code |-> Truth(r), requestId |-> TRUE]
    <3>1. Truth(r) \in Codes
      BY <2>3, DecideType DEF Truth
    <3>2. StatusFor(Truth(r)) \in {400, 401, 403, 500, 503}
      BY StatusForType
    <3>3. a \in Answers /\ a.status # 200 /\ a.code \in truths[r]
      BY <2>1, <3>1, <3>2 DEF Answers, Denials
    <3>4. Respond(r, a) /\ stage[r] = "sent"
      BY <1>4, <2>3 DEF ServerDecides
    <3> HIDE DEF a
    <3> QED BY <3>3, <3>4, RespondFits
  <2> QED BY <2>2, <2>3
<1>5. ASSUME NEW r \in Requests, OldServerDecides(r) PROVE RequestFits(x)'
  <2>1. PICK q \in Questions, complete \in BOOLEAN :
          /\ Decide(standing[Credential(r)], q) = "permitted"
          /\ Respond(r, [status |-> 200, question |-> q, complete |-> complete])
    BY <1>5 DEF OldServerDecides
  <2> DEFINE a == [status |-> 200, question |-> q, complete |-> complete]
  <2>2. a \in Answers /\ a.status = 200 /\ a.question = q
    BY DEF Answers, Permits
  <2>3. stage[r] = "sent" /\ Truth(r) \in truths[r]
    BY <1>5 DEF OldServerDecides, IInv, RequestFits, AskFits, Asking
  <2>4. q = Question(r) => "permitted" \in truths[r]
    BY <2>1, <2>3 DEF Truth
  <2> HIDE DEF a
  <2> QED BY <2>1, <2>2, <2>3, <2>4, RespondFits DEF a
<1>6. ASSUME NEW r \in Requests, GatewayAnswers(r) PROVE RequestFits(x)'
  <2>1. PICK a \in Denials :
          /\ ~a.requestId \/ a.code = None \/ a.code = "infra_failure" \/ a.status # StatusFor(a.code)
          /\ Respond(r, a)
    BY <1>6 DEF GatewayAnswers
  <2>2. WireKind(a) = "infra_failure" /\ a.status # 200 /\ a \in Answers
    BY <2>1 DEF WireKind, Denials, Answers
  <2>3. stage[r] = "sent"
    BY <2>1 DEF Respond
  <2> QED BY <2>1, <2>2, <2>3, RespondFits
<1>7. ASSUME NEW r \in Requests, RequestFails(r) PROVE RequestFits(x)'
  <2>1. Open(r)
    BY <1>7 DEF RequestFails, Open, Asking
  <2>2. Failure("infra_failure") \in Results /\ Founded(r, Failure("infra_failure"))
    BY DEF Failure, Results, ErrorKinds, Founded
  <2> QED BY <1>7, <2>1, <2>2, ReturnFits DEF RequestFails
<1>8. ASSUME NEW r \in Requests, ResolveRefuses(r) PROVE RequestFits(x)'
  <2>1. Open(r)
    BY <1>8 DEF ResolveRefuses, Open, Asking
  <2>2. PICK res \in Results : Return(r, res) /\ truths' = truths /\ Founded(r, res)
    <3>1. Credential(r).prefix \in {"bf_", "app_"}
      BY <2>1 DEF IInv, RequestFits, OpenFits, ExtractedKind, Classify, Credential, BadCredential
    <3>2. CASE Credential(r).prefix # "bf_" \/ Credential(r).tail = "bare"
      <4>1. Failure("invalid_credential") \in Results /\ Founded(r, Failure("invalid_credential"))
        BY <3>1, <3>2 DEF Failure, Results, ErrorKinds, Founded
      <4> QED BY <1>8, <3>2, <4>1 DEF ResolveRefuses
    <3>3. CASE ~(Credential(r).prefix # "bf_" \/ Credential(r).tail = "bare")
      <4>1. space[r] = BlankSpace \/ route[r].action = BlankAction
        BY <1>8, <3>3 DEF ResolveRefuses
      <4>2. Failure("invalid_request") \in Results /\ Founded(r, Failure("invalid_request"))
        BY <4>1 DEF Failure, Results, ErrorKinds, Founded
      <4> QED BY <1>8, <3>3, <4>2 DEF ResolveRefuses
    <3> QED BY <3>2, <3>3
  <2> QED BY <2>1, <2>2, ReturnFits
<1>9. ASSUME NEW r \in Requests, SendRequest(r) PROVE RequestFits(x)'
  <2>1. CASE x # r
    BY <1>9, <2>1, Untouched
    DEF IInv, TypeOK, SendRequest, callVars
  <2>2. CASE x = r
    <3>1. stage'[r] = "sent" /\ truths'[r] = {Truth(r)}
      BY <1>9 DEF IInv, TypeOK, SendRequest
    <3>2. Truth(r)' = Truth(r) /\ Asks(r)' = Asks(r)
      BY <1>9 DEF SendRequest, callVars, Truth, Question, Credential, Asks
    <3>3. IdleFits(r)' /\ AnswerFits(r)' /\ PermittedFits(r)' /\ DeniedFits(r)' /\ AccountFits(r)'
      BY <3>1 DEF IdleFits, AnswerFits, PermittedFits, DeniedFits, AccountFits, Handled, Wrote
    <3>4. CallFits(r)' /\ OpenFits(r)'
      BY <1>9, <3>1 DEF IInv, RequestFits, CallFits, OpenFits, Open, SendRequest, callVars
    <3>5. AskFits(r)'
      BY <1>9, <3>1, <3>2 DEF AskFits, SendRequest
    <3> QED BY <2>2, <3>3, <3>4, <3>5 DEF RequestFits
  <2> QED BY <2>1, <2>2
<1>10. ASSUME NEW r \in Requests, ResolvePermits(r) PROVE RequestFits(x)'
  <2>1. Open(r)
    BY <1>10 DEF ResolvePermits, Open, Asking
  <2>2. AnswerFits(r) /\ answer[r] # None
    BY <1>10 DEF ResolvePermits, IInv, RequestFits, AnswerFits
  <2>3. answer[r] \in Permits
    BY <1>10, <2>2, AnswerKinds DEF ResolvePermits, IInv
  <2>4. answer[r].question = Question(r)
    BY <1>10, <2>3, MatchesMeans DEF ResolvePermits
  <2>5. Permitted(answer[r].question) \in Results
    BY <2>3 DEF Permitted, Permits, Results
  <2>6. Founded(r, Permitted(answer[r].question))
    BY <1>10, <2>2, <2>4 DEF ResolvePermits, AnswerFits, Permitted, Founded
  <2> QED BY <1>10, <2>1, <2>5, <2>6, ReturnFits DEF ResolvePermits
<1>11. ASSUME NEW r \in Requests, ResolveMismatch(r) PROVE RequestFits(x)'
  <2>1. Open(r)
    BY <1>11 DEF ResolveMismatch, Open, Asking
  <2>2. Failure("infra_failure") \in Results /\ Founded(r, Failure("infra_failure"))
    BY DEF Failure, Results, ErrorKinds, Founded
  <2> QED BY <1>11, <2>1, <2>2, ReturnFits DEF ResolveMismatch
<1>12. ASSUME NEW r \in Requests, ResolveDenied(r) PROVE RequestFits(x)'
  <2>1. Open(r)
    BY <1>12 DEF ResolveDenied, Open, Asking
  <2>2. AnswerFits(r) /\ answer[r] # None
    BY <1>12 DEF ResolveDenied, IInv, RequestFits, AnswerFits
  <2>3. answer[r] \in Denials
    BY <1>12, <2>2, AnswerKinds DEF ResolveDenied, IInv
  <2>4. Failure(WireKind(answer[r])) \in Results
    BY <2>3, WireKindType DEF Failure, Results
  <2>5. Founded(r, Failure(WireKind(answer[r])))
    <3>1. CASE WireKind(answer[r]) = "infra_failure"
      BY <3>1 DEF Failure, Founded
    <3>2. CASE WireKind(answer[r]) # "infra_failure"
      <4>1. answer[r].code \in truths[r]
        BY <1>12, <2>2, <3>2 DEF ResolveDenied, AnswerFits
      <4> QED BY <2>3, <3>2, <4>1, WireKindMeans DEF Failure, Founded
    <3> QED BY <3>1, <3>2
  <2> QED BY <1>12, <2>1, <2>4, <2>5, ReturnFits DEF ResolveDenied
<1>13. ASSUME NEW r \in Requests, Finish(r) PROVE RequestFits(x)'
  <2>1. CASE x # r
    BY <1>13, <2>1, Untouched
    DEF IInv, TypeOK, Finish
  <2>2. CASE x = r
    <3>1. stage'[r] = "idle" /\ truths'[r] = {} /\ answer'[r] = None /\ metrics'[r] = NoMetrics
      BY <1>13 DEF IInv, TypeOK, Finish
    <3> QED
      BY <2>2, <3>1 DEF RequestFits, IdleFits, CallFits, OpenFits, AskFits, AnswerFits,
         PermittedFits, DeniedFits, AccountFits, Open, Asking, Handled, Wrote
  <2> QED BY <2>1, <2>2
<1>14. ASSUME NEW held \in Standings, ServerChanges(held) PROVE RequestFits(x)'
  <2>1. UNCHANGED <<stage, callVars, answer, result, metrics>>
    BY <1>14 DEF ServerChanges
  <2>2. Question(x)' = Question(x) /\ Credential(x)' = Credential(x)
    BY <2>1 DEF callVars, Question, Credential
  <2>3. /\ truths[x] \subseteq truths'[x]
        /\ ~Asking(x) => truths'[x] = truths[x]
        /\ Asking(x) => Truth(x)' \in truths'[x]
    BY <1>14, <2>2 DEF ServerChanges, Asking, Truth
  <2>4. RequestFits(x)
    BY DEF IInv
  <2>5. IdleFits(x)' /\ CallFits(x)' /\ OpenFits(x)'
    BY <2>1, <2>3, <2>4 DEF callVars, RequestFits, IdleFits, CallFits, OpenFits, Open, Asking
  <2>6. AskFits(x)'
    BY <2>1, <2>2, <2>3, <2>4 DEF callVars, RequestFits, AskFits, Asking, Asks
  <2>7. AnswerFits(x)'
    <3>1. stage' = stage /\ answer' = answer
      BY <2>1
    <3>2. \A c : c \in truths[x] => c \in truths'[x]
      BY <2>3
    <3> QED BY <2>2, <2>4, <3>1, <3>2 DEF RequestFits, AnswerFits
  <2>8. PermittedFits(x)'
    BY <2>1, <2>2, <2>3, <2>4 DEF callVars, RequestFits, PermittedFits, Handled
  <2>9. DeniedFits(x)'
    BY <2>1, <2>2, <2>3, <2>4 DEF callVars, RequestFits, DeniedFits, Wrote
  <2>10. AccountFits(x)'
    BY <2>1, <2>4 DEF callVars, RequestFits, AccountFits, TurnedAway, Handled
  <2> QED BY <2>5, <2>6, <2>7, <2>8, <2>9, <2>10 DEF RequestFits
<1>15. CASE UNCHANGED vars
  BY <1>15, Untouched DEF vars, callVars, IInv
<1>16. ASSUME NEW r \in Requests, TimeOut(r) PROVE RequestFits(x)'
  BY <1>16, <1>7 DEF TimeOut
<1> QED
  BY <1>1, <1>2, <1>3, <1>4, <1>5, <1>6, <1>7, <1>8,
     <1>9, <1>10, <1>11, <1>12, <1>13, <1>14, <1>15, <1>16
  DEF Next, Resolves

----------------------------------------------------------------------------
(* Resolve decides at once. *)

\* What a request has asked and heard rests on these.
Slots(x) == <<stage[x], route[x], header[x], space[x], answer[x], result[x]>>

\* A request under way asks a question octo-server decides, and holds an opinion on.
LEMMA AsksAskable ==
  ASSUME IInv, NEW r \in Requests, stage[r] # "idle", ExtractedKind(header[r]) = "bot", Asks(r)
  PROVE  LET k == [bot |-> Credential(r), question |-> Question(r)] IN
           k \in Askable /\ k # None /\ Held[k] = Truth(r)
<1> DEFINE k == [bot |-> Credential(r), question |-> Question(r)]
           raw == ReadCredentialHeader(header[r])
<1>1. CallFits(r) /\ header[r] \in Headers
  BY ClientAssumption DEF IInv, RequestFits, CallFits
<1>2. Question(r) \in Questions
  BY <1>1, QuestionType
<1>3. raw \in Tokens
  BY <1>1 DEF Headers, AuthValues, ReadCredentialHeader, StripBearer
<1>4. raw # Empty
  BY DEF ExtractedKind, Classify, BadCredential
<1>5. Credential(r) \in Bots
  BY <1>3, <1>4 DEF Tokens, Credential, Bots, Asks
<1>6. k \in Askable
  BY <1>2, <1>5 DEF Askable
<1>7. k.bot = Credential(r) /\ k.question = Question(r)
  OBVIOUS
<1>8. Held[k] = Truth(r)
  <2> HIDE DEF k
  <2> QED BY <1>6, <1>7 DEF Held, Truth
<1> QED BY <1>6, <1>8, AskableAssumption

\* A step of one request leaves what the others asked, heard and were told.
LEMMA OthersStay ==
  ASSUME NEW r \in Requests, \A x \in Requests \ {r} : UNCHANGED Slots(x)
  PROVE  /\ Waiting' = [Waiting EXCEPT ![r] = Waiting'[r]]
         /\ Decided' = [Decided EXCEPT ![r] = Decided'[r]]
         /\ Settled' = [Settled EXCEPT ![r] = Settled'[r]]
<1>1. ASSUME NEW x \in Requests \ {r}
      PROVE  Waiting'[x] = Waiting[x] /\ Decided'[x] = Decided[x] /\ Settled'[x] = Settled[x]
  <2>1. /\ stage'[x] = stage[x] /\ route'[x] = route[x] /\ header'[x] = header[x]
        /\ space'[x] = space[x] /\ answer'[x] = answer[x] /\ result'[x] = result[x]
    BY <1>1 DEF Slots
  <2>2. Waiting'[x] = Waiting[x]
    BY <2>1 DEF Waiting, Credential, Question
  <2>3. Decided'[x] = Decided[x]
    BY <2>1 DEF Decided, Carries, Matches
  <2>4. Settled'[x] = Settled[x]
    BY <2>1 DEF Settled
  <2> QED BY <2>2, <2>3, <2>4
<1>2. DOMAIN Waiting = Requests /\ DOMAIN Waiting' = Requests
  BY DEF Waiting
<1>3. DOMAIN Decided = Requests /\ DOMAIN Decided' = Requests
  BY DEF Decided
<1>4. DOMAIN Settled = Requests /\ DOMAIN Settled' = Requests
  BY DEF Settled
<1>5. Waiting' = [x \in Requests |-> Waiting'[x]]
  BY DEF Waiting
<1>6. Decided' = [x \in Requests |-> Decided'[x]]
  BY DEF Decided
<1>7. Settled' = [x \in Requests |-> Settled'[x]]
  BY DEF Settled
<1> QED BY <1>1, <1>2, <1>3, <1>4, <1>5, <1>6, <1>7

\* A request that has not asked waits for nothing.
LEMMA NothingAsked ==
  ASSUME NEW r \in Requests
  PROVE  /\ ~Asking(r) => Waiting[r] = None
         /\ stage[r] # "answering" => Decided[r] = None
         /\ stage[r] # "settled" => Settled[r] = None
         /\ Asking(r) => Waiting[r] = [bot |-> Credential(r), question |-> Question(r)]
         /\ stage[r] = "answering" => Decided[r] = Carries(r, answer[r])
         /\ stage[r] = "settled" => Settled[r] = result[r]
BY DEF Waiting, Decided, Settled, Asking

\* Settling a request tells it its result.
LEMMA SettlesAsTold ==
  ASSUME NEW r \in Requests, \A x \in Requests \ {r} : UNCHANGED Slots(x),
         NEW kind, NEW question, standing' = standing, stage'[r] = "settled",
         result'[r] = [kind |-> kind, question |-> question]
  PROVE  Decisions!Told(r, kind, question)
<1>1. Waiting'[r] = None /\ Decided'[r] = None /\ Settled'[r] = result'[r]
  BY DEF Waiting, Decided, Settled
<1>2. Held' = Held
  BY DEF Held
<1> QED BY <1>1, <1>2, OthersStay DEF Decisions!Told

\* Returning from Resolve does.
LEMMA ReturnsAsTold ==
  ASSUME IInv, NEW r \in Requests, NEW kind, NEW question,
         Return(r, [kind |-> kind, question |-> question])
  PROVE  Decisions!Told(r, kind, question)
<1>1. /\ \A x \in Requests \ {r} : UNCHANGED Slots(x)
      /\ standing' = standing /\ stage'[r] = "settled"
      /\ result'[r] = [kind |-> kind, question |-> question]
  BY DEF IInv, TypeOK, Return, callVars, Slots
<1> QED BY <1>1, SettlesAsTold

\* An answer decides what it carries: nothing, or what octo-server holds.
LEMMA AnswerDecides ==
  ASSUME IInv, NEW r \in Requests, NEW a, stage[r] = "sent", Respond(r, a),
         Carries(r, a) \in {None, Truth(r)}
  PROVE  Decisions!Decides(r) \/ UNCHANGED <<Held, Waiting, Decided, Settled>>
<1>1. /\ \A x \in Requests \ {r} : UNCHANGED Slots(x)
      /\ standing' = standing /\ stage'[r] = "answering" /\ answer'[r] = a
      /\ route' = route /\ header' = header /\ space' = space /\ result' = result
  BY DEF IInv, TypeOK, Respond, callVars, Slots
<1>2. /\ Decided[r] = None /\ Settled[r] = None
      /\ Waiting[r] = [bot |-> Credential(r), question |-> Question(r)]
  BY NothingAsked DEF Asking
<1>3. Decided'[r] = Carries(r, a) /\ Settled'[r] = None /\ Waiting'[r] = Waiting[r]
  BY <1>1, <1>2 DEF Decided, Settled, Waiting, Carries, Matches, Credential, Question
<1>4. Held' = Held
  BY <1>1 DEF Held
<1>5. Waiting' = Waiting /\ Settled' = Settled
  BY <1>1, <1>2, <1>3, OthersStay DEF Waiting, Settled
<1>6. Decided' = [Decided EXCEPT ![r] = Carries(r, a)]
  BY <1>1, <1>3, OthersStay
<1>7. Waiting[r] # None /\ Held[Waiting[r]] = Truth(r)
  BY <1>2, AsksAskable DEF IInv, RequestFits, AskFits, OpenFits, Open, Asking
<1>8. CASE Carries(r, a) = None
  BY <1>2, <1>4, <1>5, <1>6, <1>8 DEF Decided
<1>9. CASE Carries(r, a) = Truth(r)
  BY <1>2, <1>4, <1>5, <1>6, <1>7, <1>9 DEF Decisions!Decides
<1> QED BY <1>8, <1>9

\* Every step is one of the contract's, or none.
LEMMA StepDecides ==
  ASSUME IInv, [Next]_vars
  PROVE  [Decisions!DecisionNext]_(Decisions!decisionVars)
<1> USE DEF Decisions!decisionVars
<1>1. ASSUME NEW r \in Requests, NEW t \in Routes, NEW h \in Presented, NEW m \in Markers,
               NEW s \in Spaces \cup {BlankSpace}, NEW n \in BOOLEAN,
               RefuseCredential(r, t, h, m, s, n)
      PROVE  Decisions!RefuseAtOnce(r)
  <2>1. /\ \A x \in Requests \ {r} : UNCHANGED Slots(x)
        /\ standing' = standing /\ stage[r] = "idle" /\ stage'[r] = "settled"
        /\ result'[r] = Failure("invalid_credential")
    BY <1>1 DEF IInv, TypeOK, RefuseCredential, Receive, Refuse, Slots
  <2>2. Decisions!Told(r, "invalid_credential", None)
    BY <2>1, SettlesAsTold DEF Failure
  <2> QED BY <2>1, <2>2, NothingAsked DEF Asking, Decisions!RefuseAtOnce
<1>2. ASSUME NEW r \in Requests, NEW t \in Routes, NEW h \in Presented, NEW m \in Markers,
               NEW s \in Spaces \cup {BlankSpace}, NEW n \in BOOLEAN,
               RefuseParameters(r, t, h, m, s, n)
      PROVE  Decisions!RefuseAtOnce(r)
  <2>1. /\ \A x \in Requests \ {r} : UNCHANGED Slots(x)
        /\ standing' = standing /\ stage[r] = "idle" /\ stage'[r] = "settled"
        /\ result'[r] = Failure("invalid_request")
    BY <1>2 DEF IInv, TypeOK, RefuseParameters, Receive, Refuse, Slots
  <2>2. Decisions!Told(r, "invalid_request", None)
    BY <2>1, SettlesAsTold DEF Failure
  <2> QED BY <2>1, <2>2, NothingAsked DEF Asking, Decisions!RefuseAtOnce
<1>3. ASSUME NEW r \in Requests, NEW t \in Routes, NEW h \in Presented, NEW m \in Markers,
               NEW s \in Spaces \cup {BlankSpace}, NEW n \in BOOLEAN,
               CallResolve(r, t, h, m, s, n)
      PROVE  UNCHANGED <<Held, Waiting, Decided, Settled>>
  <2>1. /\ \A x \in Requests \ {r} : UNCHANGED Slots(x)
        /\ standing' = standing /\ stage[r] = "idle" /\ stage'[r] = "resolving"
    BY <1>3 DEF IInv, TypeOK, CallResolve, Receive, Slots
  <2>2. /\ Waiting'[r] = Waiting[r] /\ Decided'[r] = Decided[r] /\ Settled'[r] = Settled[r]
        /\ Held' = Held
    BY <2>1 DEF Waiting, Decided, Settled, Held
  <2> QED BY <2>1, <2>2, OthersStay DEF Waiting, Decided, Settled
<1>4. ASSUME NEW r \in Requests, ServerDecides(r)
      PROVE  Decisions!Decides(r) \/ UNCHANGED <<Held, Waiting, Decided, Settled>>
  <2>1. CASE Truth(r) = "permitted"
    <3> DEFINE a == [status |-> 200, question |-> Question(r), complete |-> TRUE]
    <3>1. Carries(r, a) = Truth(r)
      BY <2>1 DEF Carries, Matches, Question
    <3> QED BY <1>4, <2>1, <3>1, AnswerDecides DEF ServerDecides
  <2>2. CASE Truth(r) # "permitted"
    <3> DEFINE a == [status |-> StatusFor(Truth(r)), code |-> Truth(r), requestId |-> TRUE]
    <3>1. stage[r] = "sent" /\ Respond(r, a)
      BY <1>4, <2>2 DEF ServerDecides
    <3>2. a.status # 200 /\ a.code = Truth(r)
      BY StatusForType
    <3>3. Carries(r, a) \in {None, Truth(r)}
      <4> HIDE DEF a
      <4> QED BY <3>2 DEF Carries
    <3> HIDE DEF a
    <3> QED BY <3>1, <3>3, AnswerDecides
  <2> QED BY <2>1, <2>2
<1>5. ASSUME NEW r \in Requests, OldServerDecides(r)
      PROVE  Decisions!Decides(r) \/ UNCHANGED <<Held, Waiting, Decided, Settled>>
  <2>1. PICK q \in Questions, complete \in BOOLEAN :
          /\ Decide(standing[Credential(r)], q) = "permitted"
          /\ Respond(r, [status |-> 200, question |-> q, complete |-> complete])
    BY <1>5 DEF OldServerDecides
  <2> DEFINE a == [status |-> 200, question |-> q, complete |-> complete]
  <2>2. a \in Permits /\ a.status = 200 /\ a.question = q
    BY DEF Permits
  <2>3. stage[r] = "sent" /\ Respond(r, a)
    BY <1>5, <2>1 DEF OldServerDecides
  <2> HIDE DEF a
  <2>4. Matches(r, a) => Truth(r) = "permitted"
    BY <2>1, <2>2, MatchesMeans DEF Truth
  <2>5. Carries(r, a) \in {None, Truth(r)}
    BY <2>2, <2>4 DEF Carries
  <2> QED BY <2>3, <2>5, AnswerDecides
<1>6. ASSUME NEW r \in Requests, GatewayAnswers(r)
      PROVE  Decisions!Decides(r) \/ UNCHANGED <<Held, Waiting, Decided, Settled>>
  <2>1. PICK a \in Denials :
          /\ ~a.requestId \/ a.code = None \/ a.code = "infra_failure" \/ a.status # StatusFor(a.code)
          /\ Respond(r, a)
    BY <1>6 DEF GatewayAnswers
  <2>2. WireKind(a) = "infra_failure" /\ a.status # 200
    BY <2>1 DEF WireKind, Denials
  <2>3. stage[r] = "sent" /\ Carries(r, a) = None
    BY <2>1, <2>2 DEF Respond, Carries
  <2> QED BY <2>1, <2>3, AnswerDecides
<1>7. ASSUME NEW r \in Requests, Asking(r), Return(r, Failure("infra_failure"))
      PROVE  Decisions!Fail(r)
  <2>1. Waiting[r] # None
    BY <1>7, NothingAsked, AsksAskable DEF IInv, RequestFits, AskFits, OpenFits, Open, Asking
  <2> QED BY <1>7, <2>1, ReturnsAsTold DEF Failure, Decisions!Fail
<1>8. ASSUME NEW r \in Requests, RequestFails(r) \/ TimeOut(r) \/ ResolveMismatch(r)
      PROVE  Decisions!Fail(r)
  BY <1>7, <1>8 DEF RequestFails, TimeOut, ResolveMismatch, Asking
<1>9. ASSUME NEW r \in Requests, ResolveRefuses(r)
      PROVE  Decisions!RefuseAtOnce(r)
  <2>1. PICK kind \in {"invalid_credential", "invalid_request"} : Return(r, Failure(kind))
    BY <1>9 DEF ResolveRefuses
  <2>2. Decisions!Told(r, kind, None)
    BY <2>1, ReturnsAsTold DEF Failure
  <2> QED BY <1>9, <2>2, NothingAsked DEF ResolveRefuses, Asking, Decisions!RefuseAtOnce
<1>10. ASSUME NEW r \in Requests, SendRequest(r)
       PROVE  \E k \in Askable : Decisions!Ask(r, k)
  <2> DEFINE k == [bot |-> Credential(r), question |-> Question(r)]
  <2>1. /\ \A x \in Requests \ {r} : UNCHANGED Slots(x)
        /\ standing' = standing /\ stage[r] = "resolving" /\ stage'[r] = "sent"
        /\ route' = route /\ header' = header /\ space' = space
    BY <1>10 DEF IInv, TypeOK, SendRequest, callVars, Slots
  <2>2. /\ Waiting[r] = None /\ Settled[r] = None
        /\ Waiting'[r] = k /\ Decided'[r] = Decided[r] /\ Settled'[r] = Settled[r]
        /\ Held' = Held
    BY <2>1 DEF Waiting, Decided, Settled, Held, Credential, Question
  <2>3. Decided' = Decided /\ Settled' = Settled
    BY <2>1, <2>2, OthersStay DEF Decided, Settled
  <2>4. Waiting' = [Waiting EXCEPT ![r] = k]
    BY <2>1, <2>2, OthersStay
  <2>5. k \in Askable
    BY <1>10, <2>1, AsksAskable DEF SendRequest, IInv, RequestFits, OpenFits, Open
  <2> HIDE DEF k
  <2> QED BY <2>2, <2>3, <2>4, <2>5 DEF Decisions!Ask
<1>11. ASSUME NEW r \in Requests, ResolvePermits(r)
       PROVE  Decisions!Tell(r)
  <2>1. Decided[r] = "permitted" /\ Waiting[r].question = Question(r)
    <3>1. Decided[r] = Carries(r, answer[r])
      BY <1>11, NothingAsked DEF ResolvePermits
    <3>2. Waiting[r] = [bot |-> Credential(r), question |-> Question(r)]
      BY <1>11, NothingAsked DEF ResolvePermits, Asking
    <3> QED BY <1>11, <3>1, <3>2 DEF ResolvePermits, Carries
  <2>2. answer[r] \in Permits
    BY <1>11, AnswerKinds DEF IInv, RequestFits, AnswerFits, ResolvePermits
  <2>3. answer[r].question = Question(r)
    BY <1>11, <2>2, MatchesMeans DEF ResolvePermits
  <2>4. Decisions!Told(r, "permitted", Question(r))
    BY <1>11, <2>3, ReturnsAsTold DEF ResolvePermits, Permitted
  <2>5. "permitted" # None
    BY AskableAssumption
  <2> QED BY <2>1, <2>4, <2>5 DEF Decisions!Tell, Decisions!KindOf
<1>12. ASSUME NEW r \in Requests, ResolveDenied(r)
       PROVE  Decisions!Tell(r) \/ Decisions!Fail(r)
  <2>1. answer[r] \in Denials
    BY <1>12, AnswerKinds DEF IInv, RequestFits, AnswerFits, ResolveDenied
  <2>2. CASE WireKind(answer[r]) = "infra_failure"
    BY <1>7, <1>12, <2>2 DEF ResolveDenied, Asking
  <2>3. CASE WireKind(answer[r]) # "infra_failure"
    <3>1. Decided[r] = answer[r].code
      BY <1>12, <2>3, NothingAsked DEF ResolveDenied, Carries
    <3>2. /\ answer[r].code # None /\ answer[r].code # "permitted"
          /\ WireKind(answer[r]) = Decisions!KindOf(answer[r].code)
      BY <2>1, <2>3, WireKindMeans DEF Denials, Codes, Forbidding, Decisions!KindOf
    <3>3. Decisions!Told(r, WireKind(answer[r]), None)
      BY <1>12, ReturnsAsTold DEF ResolveDenied, Failure
    <3> QED BY <3>1, <3>2, <3>3 DEF Decisions!Tell
  <2> QED BY <2>2, <2>3
<1>13. ASSUME NEW r \in Requests, Finish(r)
       PROVE  Decisions!End(r) \/ UNCHANGED <<Held, Waiting, Decided, Settled>>
  <2>1. /\ \A x \in Requests \ {r} : UNCHANGED Slots(x)
        /\ standing' = standing /\ stage[r] = "settled" /\ stage'[r] = "idle"
    BY <1>13 DEF IInv, TypeOK, Finish, Slots
  <2>2. /\ Waiting'[r] = Waiting[r] /\ Decided'[r] = Decided[r] /\ Settled'[r] = None
        /\ Held' = Held
    BY <2>1 DEF Waiting, Decided, Settled, Held
  <2>3. Waiting' = Waiting /\ Decided' = Decided /\ Settled' = [Settled EXCEPT ![r] = None]
    BY <2>1, <2>2, OthersStay DEF Waiting, Decided
  <2> QED BY <2>2, <2>3 DEF Settled, Decisions!End
<1>14. ASSUME NEW held \in Standings, ServerChanges(held)
       PROVE  Decisions!Change
  <2>1. Held' \in [Askable -> Codes \cup {"permitted"}]
    BY DecideType DEF Held
  <2>2. UNCHANGED <<Waiting, Decided, Settled>>
    BY <1>14 DEF ServerChanges, callVars, Waiting, Decided, Settled, Carries, Matches,
       Credential, Question
  <2> QED BY <2>1, <2>2 DEF Decisions!Change
<1>15. ASSUME UNCHANGED vars
       PROVE  UNCHANGED <<Held, Waiting, Decided, Settled>>
  BY <1>15 DEF vars, Held, Waiting, Decided, Settled, Carries, Matches, Credential, Question
<1> DEFINE Stutters == UNCHANGED <<Held, Waiting, Decided, Settled>>
           Steps(r) == \/ \E k \in Askable : Decisions!Ask(r, k)
                       \/ Decisions!Decides(r) \/ Decisions!Tell(r) \/ Decisions!Fail(r)
                       \/ Decisions!RefuseAtOnce(r) \/ Decisions!End(r)
<1>16. ASSUME NEW r \in Requests, NEW t \in Routes, NEW h \in Presented, NEW m \in Markers,
               NEW s \in Spaces \cup {BlankSpace}, NEW n \in BOOLEAN,
               \/ RefuseCredential(r, t, h, m, s, n)
               \/ RefuseParameters(r, t, h, m, s, n)
               \/ CallResolve(r, t, h, m, s, n)
       PROVE  Steps(r) \/ Stutters
  BY <1>1, <1>2, <1>3, <1>16
<1>17. ASSUME NEW r \in Requests,
              \/ ServerDecides(r) \/ OldServerDecides(r) \/ GatewayAnswers(r)
              \/ RequestFails(r) \/ TimeOut(r) \/ Resolves(r) \/ Finish(r)
       PROVE  Steps(r) \/ Stutters
  BY <1>4, <1>5, <1>6, <1>8, <1>9, <1>10, <1>11, <1>12, <1>13, <1>17 DEF Resolves
<1>18. (\E r \in Requests : Steps(r)) \/ Decisions!Change \/ Stutters
  <2> HIDE DEF Steps, Stutters
  <2>1. CASE UNCHANGED vars
    BY <1>15, <2>1 DEF Stutters
  <2>2. CASE \E r \in Requests, t \in Routes, h \in Presented, m \in Markers,
                s \in Spaces \cup {BlankSpace}, n \in BOOLEAN :
               \/ RefuseCredential(r, t, h, m, s, n)
               \/ RefuseParameters(r, t, h, m, s, n)
               \/ CallResolve(r, t, h, m, s, n)
    BY <1>16, <2>2
  <2>3. CASE \E r \in Requests :
               \/ ServerDecides(r) \/ OldServerDecides(r) \/ GatewayAnswers(r)
               \/ RequestFails(r) \/ TimeOut(r) \/ Resolves(r) \/ Finish(r)
    BY <1>17, <2>3
  <2>4. CASE \E held \in Standings : ServerChanges(held)
    BY <1>14, <2>4
  <2> QED BY <2>1, <2>2, <2>3, <2>4 DEF Next
<1> QED BY <1>18 DEF Decisions!DecisionNext

----------------------------------------------------------------------------
(* The theorems. *)

\* The initial state satisfies the invariant.
LEMMA StartHolds ==
  ASSUME Init
  PROVE  IInv
<1>1. TypeOK
  <2>1. NoMetrics \in [errors : Nat, observed : Seq(Tags)]
    BY DEF NoMetrics
  <2> QED BY <2>1 DEF Init, TypeOK, Stages
<1>2. ASSUME NEW x \in Requests PROVE RequestFits(x)
  <2>1. stage[x] = "idle" /\ truths[x] = {} /\ answer[x] = None /\ metrics[x] = NoMetrics
    BY DEF Init
  <2> QED
    BY <2>1 DEF RequestFits, IdleFits, CallFits, OpenFits, AskFits, AnswerFits,
       PermittedFits, DeniedFits, AccountFits, Open, Asking, Handled, Wrote
<1> QED BY <1>1, <1>2 DEF IInv

\* Every step keeps the invariant.
LEMMA StepHolds ==
  ASSUME IInv, [Next]_vars
  PROVE  IInv'
<1>1. \A x \in Requests : RequestFits(x)'
  BY StepRequests
<1> QED BY <1>1, StepType DEF IInv

\* The invariant holds throughout.
THEOREM InductiveInvariant == Spec => []IInv
BY StartHolds, StepHolds, PTL DEF Spec

\* The state is always well-formed: Resolve returns a permitted question or an error
\* of a known kind, whatever octo-server or a gateway answers.
THEOREM TypeCorrect == Spec => []TypeOK
<1>1. IInv => TypeOK
  BY DEF IInv
<1> QED BY <1>1, InductiveInvariant, PTL

\* A handler runs only for the route's own question, and only if octo-server held it
\* permitted while the request waited.
THEOREM PermittedOnlyAsAsked == Spec => []PermittedAsAsked
<1>1. IInv => PermittedAsAsked
  BY DEF IInv, RequestFits, PermittedFits, PermittedAsAsked
<1> QED BY <1>1, InductiveInvariant, PTL

\* A request is denied only for what octo-server held while it waited, or for what the
\* request itself lacks.
THEOREM DeniedOnlyByServer == Spec => []DeniedByServer
<1>1. IInv => DeniedByServer
  BY DEF IInv, RequestFits, DeniedFits, DeniedByServer
<1> QED BY <1>1, InductiveInvariant, PTL

\* Every Resolve is observed once, under its result, and counts its error.
THEOREM ResolvesAreAccounted == Spec => []ResolveAccounting
<1>1. IInv => ResolveAccounting
  BY DEF IInv, RequestFits, AccountFits, ResolveAccounting
<1> QED BY <1>1, InductiveInvariant, PTL

\* Whatever servers and gateways answer, Resolve is as good as a decision taken on the
\* spot: a route is told what octo-server decided on its own question at one moment of
\* the wait, or that there was no telling.
THEOREM ResolveDecidesAtOnce == Spec => DecidesAtOnce
<1>1. Init => Decisions!DecisionInit
  BY DecideType
  DEF Init, Decisions!DecisionInit, Held, Waiting, Decided, Settled
<1>2. IInv /\ [Next]_vars => [Decisions!DecisionNext]_(Decisions!decisionVars)
  BY StepDecides
<1> QED BY <1>1, <1>2, InductiveInvariant, PTL DEF Spec, DecidesAtOnce, Decisions!DecisionSpec
=============================================================================
