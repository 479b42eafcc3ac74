--------------------------- MODULE ServiceProofs ---------------------------
(***************************************************************************)
(* Proofs about Service: a service's requests take Verifier's steps, so    *)
(* what VerifierProofs proves of every call holds of every request, and    *)
(* the middleware's own invariant (StageFits) carries it to the handler    *)
(* and to the response.                                                    *)
(***************************************************************************)
EXTENDS Service, VerifierProofs

\* Every step of the service is a step of the verify path, or none of it.
LEMMA VerifierStep == [ServiceNext]_serviceVars => [Next]_vars
  <1> SUFFICES ASSUME [ServiceNext]_serviceVars
               PROVE  [Next]_vars
    OBVIOUS
  <1>1. ASSUME NEW r \in Calls, NEW t \in Routes, NEW c \in Creds, NEW s \in SpaceHeaders,
               Arrive(r, t, c, s)
        PROVE  Next
    <2>1. t.verifier \in Instances
      BY ServiceAssumption
    <2> QED
      BY <1>1, <2>1 DEF Arrive, Next
  <1>2. ASSUME NEW r \in Calls, Verifies(r)
        PROVE  Next
    BY <1>2 DEF Verifies, Looks, HearsOfServer, Next
  <1>3. ASSUME NEW r \in Calls, Settle(r)
        PROVE  UNCHANGED vars
    BY <1>3 DEF Settle, RespondError, Forbid, BindSpace, PassOn, Answer, Serve
  <1>4. ASSUME NEW r \in Calls, Finish(r)
        PROVE  Next
    BY <1>4 DEF Finish, Next
  <1>5. CASE Environment
    BY <1>5 DEF Environment, Next
  <1>6. CASE UNCHANGED serviceVars
    BY <1>6 DEF serviceVars
  <1> QED
    BY <1>1, <1>2, <1>3, <1>4, <1>5, <1>6 DEF ServiceNext

\* The service runs the verify path: all that holds of Verifier holds of it.
THEOREM RunsVerifier == ServiceSpec => Spec
  <1>1. ServiceInit => Init
    BY DEF ServiceInit
  <1> QED
    BY <1>1, VerifierStep, PTL DEF ServiceSpec, Spec

\* A step inside Verify is taken before the call is over and moves one call.
LEMMA OneCallMoves ==
  ASSUME TypeOK, NEW r \in Calls, Verifies(r)
  PROVE  /\ pc[r] \notin {"idle", "done"} /\ pc'[r] # "idle"
         /\ UNCHANGED <<inst, cred, requestVars>>
         /\ \A q \in Calls \ {r} : pc'[q] = pc[q] /\ verdict'[q] = verdict[q]
  <1>0. /\ pc \in [Calls -> Places] /\ verdict \in [Calls -> Outcomes \cup {NoVerdict}]
        /\ UNCHANGED requestVars
    BY DEF TypeOK, Verifies
  <1>1. CASE Looks(r)
    BY <1>0, <1>1 DEF Looks, HitPos, MissPos, HitNeg, MissNeg, Decide
  <1>2. CASE HearsOfServer(r)
    BY <1>0, <1>2 DEF HearsOfServer, AnswerAccepts, AnswerLacksUid, AnswerRejects, Answered, ReadBody
  <1>3. CASE RequestFails(r) \/ TimeOut(r)
    BY <1>0, <1>3 DEF RequestFails, TimeOut
  <1>4. CASE Finalize(r)
    BY <1>0, <1>4 DEF Finalize, FinalizeAccepted, FinalizeRejected, FinalizeFailed, Decide
  <1> QED
    BY <1>1, <1>2, <1>3, <1>4 DEF Verifies

LEMMA ServiceTypeStep == ServiceTypeOK /\ [ServiceNext]_serviceVars => ServiceTypeOK'
  <1> SUFFICES ASSUME ServiceTypeOK, [ServiceNext]_serviceVars
               PROVE  ServiceTypeOK'
    OBVIOUS
  <1> DEFINE ServiceVarsFit ==
        /\ stage \in [Calls -> Stages]
        /\ route \in [Calls -> Routes \cup {None}]
        /\ sid \in [Calls -> Spaces \cup {None}]
        /\ space \in [Calls -> Spaces \cup {None}]
        /\ wrote \in [Calls -> Responses \cup {None}]
        /\ pc \in [Calls -> Places]
        /\ inst \in [Calls -> Instances \cup {None}]
  <1> DEFINE Agree(q) ==
        /\ (stage[q] = "idle") = (pc[q] = "idle")
        /\ stage[q] \in {"serving", "answered"} => pc[q] = "done"
        /\ (stage[q] = "answered") = (wrote[q] # None)
        /\ stage[q] # "idle" => route[q] \in Routes /\ inst[q] = route[q].verifier
  <1>0. TypeOK' /\ TypeOK
    BY VerifierStep, TypeStep DEF ServiceTypeOK
  <1>1. ServiceVarsFit /\ \A q \in Calls : Agree(q)
    BY <1>0 DEF ServiceTypeOK, TypeOK
  <1>2. SUFFICES ServiceVarsFit' /\ \A q \in Calls : Agree(q)'
    BY <1>0 DEF ServiceTypeOK
  <1>3. ASSUME NEW r \in Calls, NEW t \in Routes, NEW c \in Creds, NEW s \in SpaceHeaders,
               Arrive(r, t, c, s)
        PROVE  ServiceVarsFit' /\ \A q \in Calls : Agree(q)'
    <2>1. /\ pc' = [pc EXCEPT ![r] = pc'[r]] /\ pc'[r] \in {"pos", "done"}
          /\ inst' = [inst EXCEPT ![r] = t.verifier]
      BY <1>1, <1>3 DEF Arrive, Begin, Refuse, Decide
    <2>2. ServiceVarsFit'
      BY <1>0, <1>1, <1>3, ServiceAssumption DEF Arrive, Stages, TypeOK
    <2>3. ASSUME NEW q \in Calls
          PROVE  Agree(q)'
      BY <1>1, <1>3, <2>1 DEF Arrive
    <2> QED
      BY <2>2, <2>3
  <1>4. ASSUME NEW r \in Calls, Verifies(r)
        PROVE  ServiceVarsFit' /\ \A q \in Calls : Agree(q)'
    <2>1. ServiceVarsFit'
      BY <1>0, <1>1, <1>4 DEF Verifies, requestVars, TypeOK
    <2>2. ASSUME NEW q \in Calls
          PROVE  Agree(q)'
      BY <1>0, <1>1, <1>4, OneCallMoves DEF requestVars
    <2> QED
      BY <2>1, <2>2
  <1>5. ASSUME NEW r \in Calls, Settle(r)
        PROVE  ServiceVarsFit' /\ \A q \in Calls : Agree(q)'
    <2>1. CASE RespondError(r) \/ Forbid(r)
      <3>1. PICK status \in Responses : Returned(r, Outcomes) /\ Answer(r, status)
        BY <2>1 DEF RespondError, Forbid, StatusFor, Responses, Outcomes, Returned
      <3>2. status # None
        BY ServiceAssumption DEF Responses
      <3>3. ServiceVarsFit'
        BY <1>1, <3>1 DEF Answer, vars, Stages
      <3>4. ASSUME NEW q \in Calls
            PROVE  Agree(q)'
        BY <1>1, <3>1, <3>2 DEF Answer, Returned, vars
      <3> QED
        BY <3>3, <3>4
    <2>2. CASE BindSpace(r) \/ PassOn(r)
      <3>1. PICK s \in Spaces \cup {None} : Returned(r, Principals) /\ Serve(r, s)
        <4>1. CASE BindSpace(r)
          BY <1>1, <4>1 DEF BindSpace
        <4>2. CASE PassOn(r)
          <5>1. verdict[r] \in Principals /\ verdict[r].grant \in Grants
            BY <4>2 DEF PassOn, Returned, Principals
          <5>2. OwnSpace(verdict[r]) \in Spaces \cup {None}
            BY <5>1, ServiceAssumption DEF OwnSpace
          <5> QED
            BY <4>2, <5>2 DEF PassOn
        <4> QED
          BY <2>2, <4>1, <4>2
      <3>2. ServiceVarsFit'
        BY <1>1, <3>1 DEF Serve, vars, Stages
      <3>3. ASSUME NEW q \in Calls
            PROVE  Agree(q)'
        BY <1>1, <3>1 DEF Serve, Returned, vars
      <3> QED
        BY <3>2, <3>3
    <2> QED
      BY <1>5, <2>1, <2>2 DEF Settle
  <1>6. ASSUME NEW r \in Calls, Finish(r)
        PROVE  ServiceVarsFit' /\ \A q \in Calls : Agree(q)'
    <2>1. ServiceVarsFit'
      BY <1>0, <1>1, <1>6 DEF Finish, Stages, TypeOK
    <2>2. ASSUME NEW q \in Calls
          PROVE  Agree(q)'
      BY <1>1, <1>6 DEF Finish, Return
    <2> QED
      BY <2>1, <2>2
  <1>7. CASE Environment
    BY <1>1, <1>7 DEF Environment, requestVars, SetAccount, Evict, Tick, callVars
  <1>8. CASE UNCHANGED serviceVars
    BY <1>1, <1>8 DEF serviceVars, requestVars, vars
  <1> QED
    BY <1>3, <1>4, <1>5, <1>6, <1>7, <1>8 DEF ServiceNext

\* Type correctness of the service.
THEOREM ServiceTypeCorrect == ServiceSpec => []ServiceTypeOK
  <1>1. ServiceInit => ServiceTypeOK
    BY TypeInit DEF ServiceInit, ServiceTypeOK, Stages, Init
  <1> QED
    BY <1>1, ServiceTypeStep, PTL DEF ServiceSpec

----------------------------------------------------------------------------
(* What a handler or a response has to do with Verify's outcome. *)

\* The handler's space, if it was bound, may be bound; if not, need not be.
ServedFits(r) ==
  /\ verdict[r] \in Principals
  /\ \/ Enrichable(r) /\ MayBind(r) /\ space[r] = sid[r]
     \/ /\ ~Enrichable(r) \/ verdict[r].context = "not_requested"
        /\ space[r] = OwnSpace(verdict[r])

AnsweredFits(r) ==
  \/ verdict[r] \in Errors /\ wrote[r] = StatusFor(verdict[r].kind)
  \/ /\ verdict[r] \in Principals /\ wrote[r] = "403 forbidden"
     /\ Enrichable(r) /\ verdict[r].context # "not_requested" /\ ~MayBind(r)

StageFits ==
  \A r \in Calls :
    /\ stage[r] = "serving" => ServedFits(r)
    /\ stage[r] = "answered" => AnsweredFits(r)

\* A request and its verdict that do not move keep what they are.
LEMMA FitsStays ==
  ASSUME NEW r \in Calls, StageFits,
         stage'[r] = stage[r], route'[r] = route[r], sid'[r] = sid[r],
         space'[r] = space[r], wrote'[r] = wrote[r], verdict'[r] = verdict[r]
  PROVE  /\ (stage[r] = "serving" => ServedFits(r))'
         /\ (stage[r] = "answered" => AnsweredFits(r))'
  BY DEF StageFits, ServedFits, AnsweredFits, Enrichable, MayBind, OwnSpace

LEMMA StageFitsStep ==
  ServiceTypeOK /\ StageFits /\ [ServiceNext]_serviceVars => StageFits'
  <1> SUFFICES ASSUME ServiceTypeOK, StageFits, [ServiceNext]_serviceVars, NEW q \in Calls
               PROVE  /\ (stage[q] = "serving" => ServedFits(q))'
                      /\ (stage[q] = "answered" => AnsweredFits(q))'
    BY DEF StageFits
  <1> DEFINE Still ==
        /\ stage'[q] = stage[q] /\ route'[q] = route[q] /\ sid'[q] = sid[q]
        /\ space'[q] = space[q] /\ wrote'[q] = wrote[q] /\ verdict'[q] = verdict[q]
  <1> DEFINE Unsettled == stage'[q] \notin {"serving", "answered"}
  <1>0. TypeOK /\ verdict \in [Calls -> Outcomes \cup {NoVerdict}]
    BY DEF ServiceTypeOK, TypeOK
  <1>1. ASSUME NEW r \in Calls, NEW t \in Routes, NEW c \in Creds, NEW s \in SpaceHeaders,
               Arrive(r, t, c, s)
        PROVE  Still \/ Unsettled
    BY <1>0, <1>1 DEF Arrive, Begin, Refuse, Decide, ServiceTypeOK
  <1>2. ASSUME NEW r \in Calls, Verifies(r)
        PROVE  Still \/ Unsettled
    <2>1. CASE q = r
      BY <1>0, <1>2, <2>1, OneCallMoves DEF ServiceTypeOK, requestVars
    <2>2. CASE q # r
      BY <1>0, <1>2, <2>2, OneCallMoves DEF requestVars
    <2> QED
      BY <2>1, <2>2
  <1>3. ASSUME NEW r \in Calls, Settle(r)
        PROVE  Still \/ RespondError(q) \/ Forbid(q) \/ BindSpace(q) \/ PassOn(q)
    <2>1. CASE q = r
      BY <1>3, <2>1 DEF Settle
    <2>2. CASE q # r
      BY <1>3, <2>2 DEF Settle, RespondError, Forbid, BindSpace, PassOn, Answer, Serve, vars, ServiceTypeOK
    <2> QED
      BY <2>1, <2>2
  <1>4. CASE RespondError(q)
    <2>1. stage'[q] = "answered" /\ wrote'[q] = StatusFor(verdict[q].kind)
      BY <1>4 DEF RespondError, Answer, ServiceTypeOK
    <2>2. verdict' = verdict /\ verdict[q] \in Errors
      BY <1>4 DEF RespondError, Answer, Returned, vars
    <2> QED
      BY <2>1, <2>2 DEF AnsweredFits
  <1>5. CASE Forbid(q)
    <2>1. stage'[q] = "answered" /\ wrote'[q] = "403 forbidden"
      BY <1>5 DEF Forbid, Answer, ServiceTypeOK
    <2>2. UNCHANGED <<verdict, route, sid>> /\ verdict[q] \in Principals
      BY <1>5 DEF Forbid, Answer, Returned, vars
    <2> QED
      BY <1>5, <2>1, <2>2 DEF Forbid, AnsweredFits, Enrichable, MayBind
  <1>6. CASE BindSpace(q)
    <2>1. stage'[q] = "serving" /\ space'[q] = sid[q]
      BY <1>6 DEF BindSpace, Serve, ServiceTypeOK
    <2>2. UNCHANGED <<verdict, route, sid>> /\ verdict[q] \in Principals
      BY <1>6 DEF BindSpace, Serve, Returned, vars
    <2> QED
      BY <1>6, <2>1, <2>2 DEF BindSpace, ServedFits, Enrichable, MayBind
  <1>7. CASE PassOn(q)
    <2>1. stage'[q] = "serving" /\ space'[q] = OwnSpace(verdict[q])
      BY <1>7 DEF PassOn, Serve, ServiceTypeOK
    <2>2. UNCHANGED <<verdict, route, sid>> /\ verdict[q] \in Principals
      BY <1>7 DEF PassOn, Serve, Returned, vars
    <2> QED
      BY <1>7, <2>1, <2>2 DEF PassOn, ServedFits, Enrichable, OwnSpace
  <1>8. ASSUME NEW r \in Calls, Finish(r)
        PROVE  Still \/ Unsettled
    BY <1>0, <1>8 DEF Finish, Return, ServiceTypeOK
  <1>9. ASSUME Environment
        PROVE  Still
    BY <1>9 DEF Environment, requestVars, SetAccount, Evict, Tick, callVars
  <1>10. ASSUME UNCHANGED serviceVars
         PROVE  Still
    BY <1>10 DEF serviceVars, requestVars, vars
  <1>11. \/ Still \/ Unsettled
         \/ RespondError(q) \/ Forbid(q) \/ BindSpace(q) \/ PassOn(q)
    <2> HIDE DEF Still, Unsettled
    <2> QED
      BY <1>1, <1>2, <1>3, <1>8, <1>9, <1>10 DEF ServiceNext
  <1> QED
    BY <1>4, <1>5, <1>6, <1>7, <1>11, FitsStays

LEMMA StageFitsHolds == ServiceSpec => [](ServiceTypeOK /\ StageFits)
  <1>1. ServiceInit => StageFits
    BY DEF ServiceInit, StageFits
  <1> QED
    BY <1>1, StageFitsStep, ServiceTypeCorrect, PTL DEF ServiceSpec

----------------------------------------------------------------------------
(* What an error's why tells of its kind and of its credential. *)

WhyFits(e) ==
  \/ e.kind = "infra_failure" /\ e.why = "no_answer"
  \/ e.kind = "disabled" /\ e.why = "status"
  \/ e.kind = "invalid_credential" /\ e.why \in {"status", "missing_uid"}

\* A waiting error came from the server or from its silence; one that is handed
\* out may also be the refusal of a credential nobody would send.
ErrorFits(v) ==
  verdict[v] \in Errors =>
    /\ pc[v] \in {"answered", "received"} => WhyFits(verdict[v])
    /\ pc[v] = "done" =>
         \/ WhyFits(verdict[v])
         \/ /\ verdict[v].kind = "invalid_credential"
            /\ AccountOf(v) \in Unsendable

RejectionsFit ==
  \A k \in Keys : (live[k] # NoEntry /\ live[k].value \in Errors) => WhyFits(live[k].value)

WhyInv == RejectionsFit /\ \A v \in Calls : ErrorFits(v)

LEMMA RejectionsFitStep ==
  ASSUME TypeOK, WhyInv, [Next]_vars
  PROVE  RejectionsFit'
  <1> USE DEF TypeOK, Store!ContractTypeOK
  <1>1. ASSUME NEW v \in Calls, FinalizeAccepted(v) \/ FinalizeRejected(v),
               NEW k \in Keys, live'[k] # live[k], live'[k].value \in Errors
        PROVE  WhyFits(live'[k].value)
    <2>1. live'[k].value = verdict[v] /\ pc[v] = "received"
      BY <1>1 DEF FinalizeAccepted, FinalizeRejected, Store!Set
    <2> QED
      BY <1>1, <2>1 DEF WhyInv, ErrorFits
  <1>2. ASSUME NEW v \in Calls, FinalizeAccepted(v) \/ FinalizeRejected(v)
        PROVE  RejectionsFit'
    BY <1>1, <1>2 DEF WhyInv, RejectionsFit
  <1>3. Forgets => RejectionsFit'
    BY DEF Forgets, WhyInv, RejectionsFit
  <1> QED
    BY <1>2, <1>3, OtherStepsForget

LEMMA ErrorFitsStep ==
  ASSUME TypeOK, WhyInv, [Next]_vars, NEW v \in Calls
  PROVE  ErrorFits(v)'
  <1> USE DEF TypeOK
  <1>1. ErrorFits(v)
    BY DEF WhyInv
  <1>2. CASE Rests(v)
    <2>1. /\ pc'[v] = pc[v] /\ inst'[v] = inst[v] /\ cred'[v] = cred[v]
          /\ verdict'[v] = verdict[v]
      BY <1>2 DEF Rests
    <2> QED
      BY <1>1, <2>1 DEF ErrorFits, AccountOf
  <1>3. CASE Moves(v)
    <2>1. ASSUME NEW i \in Instances, NEW c \in Creds, Begin(v, i, c)
          PROVE  pc'[v] = "pos"
      BY <2>1 DEF Begin
    <2>2. ASSUME NEW i \in Instances, NEW c \in Creds, Refuse(v, i, c)
          PROVE  pc'[v] = "done" /\ verdict'[v].kind = "invalid_credential"
                 /\ AccountOf(v)' \in Unsendable
      BY <2>2 DEF Refuse, Decide, AccountOf
    <2>3. CASE HitPos(v)
      BY <2>3, Disjoint DEF HitPos, Decide, Found, ErrorFits
    <2>4. CASE HitNeg(v)
      <3>1. PICK k \in Keys : live[k] # NoEntry /\ verdict'[v] = live[k].value
        BY <2>4, KeyType DEF HitNeg, Decide, Store!GetHit, Store!Readable,
                             Store!ContractTypeOK
      <3>2. pc'[v] = "done"
        BY <2>4 DEF HitNeg, Decide
      <3> QED
        BY <3>1, <3>2 DEF ErrorFits, WhyInv, RejectionsFit
    <2>5. CASE MissPos(v) \/ MissNeg(v) \/ Return(v)
      <3>1. pc'[v] \in {"neg", "sent", "idle"}
        BY <2>5 DEF MissPos, MissNeg, Return
      <3> QED
        BY <3>1 DEF ErrorFits
    <2>6. CASE AnswerAccepts(v)
      <3>1. verdict'[v].type = "principal" /\ pc'[v] = "answered"
        BY <2>6 DEF AnswerAccepts, Answered
      <3> QED
        BY <3>1 DEF ErrorFits, Errors
    <2>7. CASE AnswerLacksUid(v) \/ AnswerRejects(v) \/ RequestFails(v)
      <3>1. WhyFits(verdict'[v]) /\ pc'[v] \in {"answered", "received"}
        BY <2>7 DEF AnswerLacksUid, AnswerRejects, RequestFails, Answered, Error, WhyFits
      <3> QED
        BY <3>1 DEF ErrorFits
    <2>8. CASE ReadBody(v) \/ Finalize(v)
      <3>1. /\ verdict'[v] = verdict[v] /\ pc[v] \in {"answered", "received"}
            /\ pc'[v] \in {"received", "done"}
        BY <2>8 DEF ReadBody, Finalize, FinalizeAccepted, FinalizeRejected, FinalizeFailed,
                    Decide
      <3> QED
        BY <1>1, <3>1 DEF ErrorFits
    <2>9. ErrorFits(v)' \/ \E i \in Instances, c \in Creds : Begin(v, i, c) \/ Refuse(v, i, c)
      BY <1>3, <2>3, <2>4, <2>5, <2>6, <2>7, <2>8 DEF Moves
    <2> QED
      BY <2>1, <2>2, <2>9 DEF ErrorFits
  <1> QED
    BY <1>2, <1>3, OneMoves

LEMMA WhyHolds == Spec => [](TypeOK /\ WhyInv)
  <1>1. Init => WhyInv
    BY DEF Init, WhyInv, RejectionsFit, ErrorFits, Store!ContractInit
  <1>2. TypeOK /\ WhyInv /\ [Next]_vars => WhyInv'
    BY RejectionsFitStep, ErrorFitsStep DEF WhyInv
  <1> QED
    BY <1>1, <1>2, TypeCorrect, PTL DEF Spec

----------------------------------------------------------------------------
(* From Verify's outcome to the client. *)

\* A space header means the same on every request of a route, whatever the cache
\* holds for other verifiers.
THEOREM HeadersAreHonoured == ServiceSpec => []HeaderHonoured
  <1>1. ServiceTypeOK /\ StageFits /\ Isolation => HeaderHonoured
    <2> SUFFICES ASSUME ServiceTypeOK, StageFits, Isolation, NEW r \in Calls
                 PROVE  /\ (stage[r] = "serving" /\ Realm[route[r].verifier] = "session") =>
                             space[r] = IF route[r].space /\ AsksContext(r) THEN sid[r] ELSE None
                        /\ wrote[r] = "403 forbidden" =>
                             route[r].space /\ sid[r] # None /\ AsksContext(r)
      BY DEF HeaderHonoured
    <2>1. ASSUME stage[r] \in {"serving", "answered"}, verdict[r] \in Principals
          PROVE  /\ verdict[r].realm = Realm[route[r].verifier]
                 /\ verdict[r].realm = "session" =>
                      (verdict[r].context = "not_requested" <=> ~AsksContext(r))
      <3>1. pc[r] = "done" /\ inst[r] = route[r].verifier
        BY <2>1 DEF ServiceTypeOK
      <3>2. RightContext(inst[r], verdict[r]) /\ verdict[r].realm = Realm[inst[r]]
        BY <2>1, <3>1 DEF Isolation
      <3>3. "not_requested" \notin ServerContexts
        BY ContextAssumption
      <3> QED
        BY <3>1, <3>2, <3>3 DEF RightContext, ContextsFor, AsksContext
    <2>2. CASE stage[r] = "serving"
      <3>1. ServedFits(r)
        BY <2>2 DEF StageFits
      <3>2. wrote[r] = None
        BY <2>2 DEF ServiceTypeOK
      <3> QED
        BY <2>1, <2>2, <3>1, <3>2, ServiceAssumption
        DEF ServedFits, Enrichable, MayBind, OwnSpace
    <2>3. CASE wrote[r] = "403 forbidden"
      <3>1. stage[r] = "answered" /\ AnsweredFits(r)
        BY <2>3, ServiceAssumption DEF StageFits, ServiceTypeOK
      <3>2. verdict[r] \in Principals /\ Enrichable(r) /\ verdict[r].context # "not_requested"
        BY <2>3, <3>1 DEF AnsweredFits, StatusFor
      <3> QED
        BY <2>1, <3>1, <3>2 DEF Enrichable
    <2> QED
      BY <2>2, <2>3
  <1> QED
    BY <1>1, StageFitsHolds, RunsVerifier, IsolationHolds, PTL

\* A verdict that speaks for octo-server was true a window before, at most.
LEMMA VerdictInWindow ==
  ASSUME TypeOK, KeyedInv, Staleness, NEW r \in Calls, pc[r] = "done", Judged(verdict[r])
  PROVE  TrueInWindow(r, StatusOf(verdict[r]))
  <1>1. verdict[r] \in Outcomes
    BY DEF TypeOK
  <1> QED
    BY <1>1, TellsInTime DEF TrueInWindow

\* A handler's space and a "forbidden" rest on a grant of the window.
LEMMA GrantFounded ==
  ASSUME ServiceTypeOK, StageFits, KeyedInv, Staleness, NEW r \in Calls,
         stage[r] \in {"serving", "answered"}, verdict[r] \in Principals
  PROVE  /\ verdict[r].grant \in Grants /\ TrueInWindow(r, verdict[r].grant)
         /\ stage[r] = "serving" => space[r] \in Holds[verdict[r].grant] \cup {None}
         /\ wrote[r] = "403 forbidden" =>
              \/ sid[r] \notin Holds[verdict[r].grant]
              \/ verdict[r].context \in {"not_included", "unknown_server"}
  <1>1. pc[r] = "done" /\ TypeOK
    BY DEF ServiceTypeOK
  <1>2. verdict[r].grant \in Grants /\ verdict[r].context \in Contexts
    BY DEF Principals
  <1>3. TrueInWindow(r, verdict[r].grant)
    BY <1>1, VerdictInWindow DEF Judged, StatusOf
  <1>4. ASSUME stage[r] = "serving"
        PROVE  space[r] \in Holds[verdict[r].grant] \cup {None}
    <2>1. ServedFits(r)
      BY <1>4 DEF StageFits
    <2>2. Holds[verdict[r].grant] # {}
      BY <1>2, ServiceAssumption
    <2>3. OwnSpace(verdict[r]) \in Holds[verdict[r].grant] \cup {None}
      BY <2>2 DEF OwnSpace
    <2> QED
      BY <2>1, <2>3 DEF ServedFits, MayBind
  <1>5. ASSUME wrote[r] = "403 forbidden"
        PROVE  \/ sid[r] \notin Holds[verdict[r].grant]
               \/ verdict[r].context \in {"not_included", "unknown_server"}
    <2>1. stage[r] = "answered"
      BY <1>5, ServiceAssumption DEF ServiceTypeOK
    <2>2. verdict[r] \notin Errors
      BY Disjoint
    <2>3. verdict[r].context # "not_requested" /\ ~MayBind(r)
      BY <2>1, <2>2 DEF StageFits, AnsweredFits
    <2> QED
      BY <1>2, <2>3 DEF MayBind, Contexts
  <1> QED
    BY <1>2, <1>3, <1>4, <1>5

\* A 401, a "disabled" and a 503 rest on what this call was told, or was not.
LEMMA ErrorFounded ==
  ASSUME ServiceTypeOK, StageFits, KeyedInv, Staleness, WhyInv, InfraNotCached,
         NEW r \in Calls, stage[r] = "answered", verdict[r] \in Errors
  PROVE  /\ wrote[r] = "401" =>
              \/ TrueInWindow(r, "revoked")
              \/ <<Realm[inst[r]], cred[r]>> \in Unsendable
              \/ verdict[r].why = "missing_uid"
         /\ wrote[r] = "403 disabled" => TrueInWindow(r, "disabled")
         /\ wrote[r] = "503" => count[r].miss = 1 /\ count[r].hit = 0
         /\ wrote[r] # "403 forbidden"
  <1>1. pc[r] = "done" /\ TypeOK
    BY DEF ServiceTypeOK
  <1>2. verdict[r] \notin Principals
    BY Disjoint
  <1>3. wrote[r] = StatusFor(verdict[r].kind)
    BY <1>2 DEF StageFits, AnsweredFits
  <1>4. \/ WhyFits(verdict[r])
        \/ verdict[r].kind = "invalid_credential" /\ AccountOf(r) \in Unsendable
    BY <1>1 DEF WhyInv, ErrorFits
  <1>5. verdict[r].kind \in {"invalid_credential", "disabled", "infra_failure"}
    BY DEF Errors
  <1>6. ASSUME verdict[r].why = "status"
        PROVE  TrueInWindow(r, IF verdict[r].kind = "disabled" THEN "disabled" ELSE "revoked")
    BY <1>1, <1>2, <1>6, VerdictInWindow DEF Judged, StatusOf
  <1>7. CASE verdict[r].kind = "invalid_credential"
    BY <1>3, <1>4, <1>6, <1>7 DEF StatusFor, WhyFits, AccountOf
  <1>8. CASE verdict[r].kind = "disabled"
    BY <1>3, <1>4, <1>6, <1>8 DEF StatusFor, WhyFits
  <1>9. CASE verdict[r].kind = "infra_failure"
    <2>1. count[r].miss = 1 /\ count[r].hit = 0
      BY <1>1, <1>9 DEF InfraNotCached
    <2> QED
      BY <1>3, <1>9, <2>1 DEF StatusFor
  <1> QED
    BY <1>5, <1>7, <1>8, <1>9

\* Whatever a client is given has its cause at octo-server, a window ago at most.
THEOREM OutcomesAreFounded ==
  ASSUME TimerCoversBody
  PROVE  ServiceSpec => []OutcomesFounded
  <1>1. ServiceTypeOK /\ StageFits /\ KeyedInv /\ Staleness /\ WhyInv /\ InfraNotCached
        => OutcomesFounded
    <2> SUFFICES ASSUME ServiceTypeOK, StageFits, KeyedInv, Staleness, WhyInv, InfraNotCached,
                        NEW r \in Calls
                 PROVE  /\ stage[r] = "serving" =>
                             \E g \in Grants : /\ TrueInWindow(r, g)
                                               /\ space[r] \in Holds[g] \cup {None}
                        /\ wrote[r] = "403 forbidden" =>
                             \E g \in Grants :
                               /\ TrueInWindow(r, g)
                               /\ \/ sid[r] \notin Holds[g]
                                  \/ verdict[r].context \in {"not_included", "unknown_server"}
                        /\ wrote[r] = "401" =>
                             \/ TrueInWindow(r, "revoked")
                             \/ <<Realm[inst[r]], cred[r]>> \in Unsendable
                             \/ verdict[r].why = "missing_uid"
                        /\ wrote[r] = "403 disabled" => TrueInWindow(r, "disabled")
                        /\ wrote[r] = "503" => count[r].miss = 1 /\ count[r].hit = 0
      BY DEF OutcomesFounded
    <2>1. wrote[r] # None <=> stage[r] = "answered"
      BY DEF ServiceTypeOK
    <2>2. CASE stage[r] = "serving"
      <3>1. verdict[r] \in Principals
        BY <2>2 DEF StageFits, ServedFits
      <3> QED
        BY <2>1, <2>2, <3>1, GrantFounded, ServiceAssumption
    <2>3. CASE stage[r] = "answered" /\ verdict[r] \in Principals
      <3>1. wrote[r] = "403 forbidden"
        BY <2>3, Disjoint DEF StageFits, AnsweredFits
      <3> QED
        BY <2>3, <3>1, GrantFounded
    <2>4. CASE stage[r] = "answered" /\ verdict[r] \in Errors
      BY <2>4, ErrorFounded
    <2>5. CASE stage[r] \notin {"serving", "answered"}
      BY <2>1, <2>5, ServiceAssumption
    <2>6. stage[r] = "answered" => verdict[r] \in Principals \cup Errors
      BY DEF StageFits, AnsweredFits
    <2> QED
      BY <2>2, <2>3, <2>4, <2>5, <2>6
  <1> QED
    BY <1>1, StageFitsHolds, RunsVerifier, StalenessHolds, WhyHolds, InfraNotCachedHolds, PTL
=============================================================================
