--------------------------- MODULE RequestsProofs ---------------------------
(***************************************************************************)
(* Proofs about Requests, for any set of requests, routes and accounts:    *)
(* its type invariant, that what verifiers keep is never written to, that  *)
(* a handler is given its own request's space and one the account was a    *)
(* member of, that error responses tell what happened, and that Requests   *)
(* implements OwnPrincipals.                                               *)
(***************************************************************************)
EXTENDS Requests, TLAPS

\* What a verifier keeps is as it was built.
Pristine(k) == object[k] = Built(k) /\ list[k] = BuiltList(k)

\* An account stopped being something in the past.
EndedPast == \A a \in Accounts, s \in ContractStatuses : ended[a][s] <= now

\* A slot nobody uses asks nothing, only a request that has asked waits for Verify,
\* and a response is written only to end a request.
IdleFits(r) ==
  /\ stage[r] = "idle" => asked[r] = None /\ outcome[r] = NoVerdict
  /\ outcome[r] = NoVerdict => asked[r] = None \/ stage[r] = "verifying"
  /\ stage[r] # "answered" => wrote[r] = None

\* A request past the middleware's own checks has asked about its own account.
AskFits(r) ==
  stage[r] \in {"verifying", "cloned", "serving"} =>
    /\ asked[r] \in Accounts /\ asked[r] = AccountIn(header[r])
    /\ KindPermitted(route[r], header[r])

\* Of an account that was asked about.
Held(r, s) == asked[r] \in Accounts /\ HeldInWindow(r, s)

\* A verdict was true within its window when Verify returned it.
VerdictFits(r) ==
  /\ outcome[r] # NoVerdict => asked[r] \in Accounts
  /\ outcome[r] \in ContractStatuses => Held(r, outcome[r])

\* A request works on a copy of its own, which starts as what the verifier built.
CopyFits(r) ==
  /\ stage[r] \in {"cloned", "serving"} =>
       outcome[r] \in Grants /\ ref[r] = r /\ object[r].list = r
  /\ stage[r] = "cloned" =>
       object[r] = [Built(Source(r)) EXCEPT !.list = r] /\ list[r] = BuiltList(Source(r))

\* The properties, one request at a time.
SpaceFits(r) ==
  (stage[r] = "serving" /\ given[r].space # None) =>
    \E g \in Grants : given[r].space \in Holds[g] /\ Held(r, g)

OwnFits(r) ==
  stage[r] = "serving" =>
    /\ given[r].kind = "session" => given[r].space \in {None, sid[r]}
    /\ route[r].require \in {None, given[r].kind}
    /\ given[r].kind = asked[r][1]

AnswerFits(r) ==
  /\ wrote[r] = "401" =>
       \/ ExtractedKind(header[r]) = BadCredential
       \/ outcome[r] = "unfounded" \/ Held(r, "revoked")
  /\ wrote[r] = "403 disabled" => Held(r, "disabled")
  /\ wrote[r] = "503" => outcome[r] = "infra_failure"
  /\ wrote[r] = "403 forbidden" =>
       \/ ~KindPermitted(route[r], header[r])
       \/ \E g \in Grants :
            /\ Held(r, g)
            /\ sid[r] \notin Holds[g] \/ ContextOf[g] \in {"not_included", "unknown_server"}

RequestFits(r) ==
  /\ IdleFits(r) /\ AskFits(r) /\ VerdictFits(r) /\ CopyFits(r)
  /\ SpaceFits(r) /\ OwnFits(r) /\ AnswerFits(r)

\* The inductive invariant.
IInv ==
  /\ TypeOK /\ EndedPast
  /\ \A k \in Kept : Pristine(k)
  /\ \A r \in Requests : RequestFits(r)

----------------------------------------------------------------------------
(* What the operators give. *)

\* A credential that is not bad belongs to a realm.
LEMMA KindType ==
  ASSUME NEW h, ExtractedKind(h) # BadCredential
  PROVE  ExtractedKind(h) \in Kinds
BY DEF ExtractedKind, Classify, BadCredential, Kinds

\* The account the headers name is one of octo-server's.
LEMMA AccountInType ==
  ASSUME NEW h \in Presented, ExtractedKind(h) # BadCredential
  PROVE  AccountIn(h) \in Accounts /\ AccountIn(h)[1] = ExtractedKind(h)
BY KindType, RouteAssumption DEF AccountIn

\* What a verifier builds is a Principal of the account's realm.
LEMMA BuiltType ==
  ASSUME NEW k \in Kept
  PROVE  Built(k) \in Objects /\ BuiltList(k) \in SUBSET Spaces
<1>1. k[1][1] \in Kinds /\ k[2] \in Grants /\ k \in Places
  BY AccountAssumption DEF Kept, Places
<1>2. Holds[k[2]] \in SUBSET Spaces /\ \E s \in Holds[k[2]] : TRUE
  BY <1>1, GrantAssumption
<1>3. (CHOOSE s \in Holds[k[2]] : TRUE) \in Spaces
  BY <1>2
<1>4. ContextOf[k[2]] \in Contexts
  BY <1>1, GrantAssumption
<1>5. Built(k) \in Objects
  BY <1>1, <1>3, <1>4 DEF Built, Objects, Contexts
<1>6. BuiltList(k) \in SUBSET Spaces
  BY <1>2 DEF BuiltList
<1> QED BY <1>5, <1>6

\* What was true within the window stays so while accounts change and time passes.
LEMMA WindowStable ==
  ASSUME TypeOK, EndedPast, NEW r \in Requests, asked[r] \in Accounts,
         NEW s \in ContractStatuses, HeldInWindow(r, s),
         UNCHANGED <<told, asked>>,
         \/ \E a \in Accounts, status \in ContractStatuses : Change(a, status)
         \/ Pass
  PROVE  HeldInWindow(r, s)'
<1>1. told[r] \in Int /\ Window[asked[r]][s] \in Int
  BY ContractAssumption DEF TypeOK, Requests
<1>2. LastTrue(asked[r], s) \in Int /\ LastTrue(asked[r], s)' \in Int
      /\ LastTrue(asked[r], s) <= LastTrue(asked[r], s)'
  <2>1. now \in Int /\ ended[asked[r]][s] \in Int /\ ended[asked[r]][s] <= now
    BY DEF TypeOK, ContractTypeOK, EndedPast
  <2>2. CASE Pass
    BY <2>1, <2>2 DEF Pass, LastTrue, TypeOK, ContractTypeOK
  <2>3. ASSUME NEW a \in Accounts, NEW status \in ContractStatuses, Change(a, status)
        PROVE  LastTrue(asked[r], s)' \in Int /\ LastTrue(asked[r], s) <= LastTrue(asked[r], s)'
               /\ LastTrue(asked[r], s) \in Int
    BY <2>1, <2>3 DEF Change, LastTrue, TypeOK, ContractTypeOK
  <2> QED BY <2>2, <2>3
<1> QED BY <1>1, <1>2 DEF HeldInWindow

----------------------------------------------------------------------------
(* Types. *)

\* Every step keeps the state well-formed.
LEMMA StepType ==
  ASSUME IInv, [Next]_vars
  PROVE  TypeOK'
<1>1. ASSUME NEW r \in Requests, NEW t \in Routes, NEW h \in Presented, NEW s \in SpaceHeaders, RejectCredential(r, t, h, s)
      PROVE  TypeOK'
  BY <1>1, RouteAssumption, StatusAssumption
  DEF IInv, TypeOK, ContractTypeOK, RejectCredential, Receive, Answer,
      contractUnchanged, Statuses, Stages
<1>2. ASSUME NEW r \in Requests, NEW t \in Routes, NEW h \in Presented, NEW s \in SpaceHeaders, RejectKind(r, t, h, s)
      PROVE  TypeOK'
  BY <1>2, RouteAssumption, StatusAssumption
  DEF IInv, TypeOK, ContractTypeOK, RejectKind, Receive, Answer, contractUnchanged,
      Statuses, Stages
<1>3. ASSUME NEW r \in Requests, NEW t \in Routes, NEW h \in Presented, NEW s \in SpaceHeaders, CallVerify(r, t, h, s)
      PROVE  TypeOK'
  <2>1. AccountIn(h) \in Accounts
    BY <1>3, AccountInType DEF CallVerify
  <2>2. ContractTypeOK'
    BY <1>3, <2>1 DEF IInv, TypeOK, ContractTypeOK, CallVerify, Ask, RefuseAtOnce, Verdicts, Unfounded, Requests
  <2> QED BY <1>3, <2>2, RouteAssumption DEF IInv, TypeOK, CallVerify, Receive, Stages
<1>4. ASSUME NEW r \in Requests, VerifyReturns(r) PROVE TypeOK'
  <2>1. ContractTypeOK'
    BY <1>4 DEF IInv, TypeOK, ContractTypeOK, VerifyReturns, Tell, Fail, Verdicts
  <2>2. now \in Int
    BY DEF IInv, TypeOK, ContractTypeOK
  <2> QED BY <1>4, <2>1, <2>2 DEF IInv, TypeOK, VerifyReturns
<1>5. ASSUME NEW r \in Requests, RespondError(r) PROVE TypeOK'
  <2>1. Mapped(outcome[r]) \in Statuses
    BY DEF Mapped, Statuses
  <2> QED BY <1>5, <2>1, StatusAssumption
      DEF IInv, TypeOK, ContractTypeOK, RespondError, Answer, contractUnchanged, Stages
<1>6. ASSUME NEW r \in Requests, Clone(r) PROVE TypeOK'
  <2>1. asked[r] \in Accounts /\ outcome[r] \in Grants
    BY <1>6 DEF IInv, RequestFits, AskFits, Clone
  <2>2. Source(r) \in Kept /\ Source(r) \in Places /\ r \in Places
    BY <2>1 DEF Source, Kept, Places
  <2>3. object[Source(r)] \in Objects /\ object[Source(r)].list \in Places
    BY <2>2 DEF IInv, TypeOK, Objects
  <2>4. [object[Source(r)] EXCEPT !.list = r] \in Objects
    BY <2>2, <2>3 DEF Objects
  <2>5. object' \in [Places -> Objects]
    BY <1>6, <2>2, <2>4 DEF IInv, TypeOK, Clone
  <2>6. list' \in [Places -> SUBSET Spaces]
    BY <1>6, <2>2, <2>3 DEF IInv, TypeOK, Clone
  <2> QED BY <1>6, <2>2, <2>5, <2>6 DEF IInv, TypeOK, ContractTypeOK, Clone, contractUnchanged, Stages
<1>7. ASSUME NEW r \in Requests, Forbid(r) PROVE TypeOK'
  BY <1>7, StatusAssumption
  DEF IInv, TypeOK, ContractTypeOK, Forbid, Answer, contractUnchanged, Statuses, Stages
<1>8. ASSUME NEW r \in Requests, BindSpace(r) PROVE TypeOK'
  <2>1. ref[r] = r /\ r \in Places
    BY <1>8 DEF IInv, RequestFits, CopyFits, BindSpace, Places
  <2>2. object[r] \in Objects /\ object[r].kind \in Kinds /\ object[r].space \in Spaces \cup {None}
    BY <2>1 DEF IInv, TypeOK, Objects
  <2>3. sid[r] \in Spaces
    BY <1>8 DEF IInv, TypeOK, BindSpace, Enrichable
  <2>4. object' \in [Places -> Objects]
    <3>1. [object[r] EXCEPT !.space = sid[r]] \in Objects
      BY <2>2, <2>3 DEF Objects
    <3> QED BY <1>8, <2>1, <3>1 DEF IInv, TypeOK, BindSpace
  <2> QED BY <1>8, <2>1, <2>2, <2>3, <2>4
      DEF IInv, TypeOK, ContractTypeOK, BindSpace, Serve, contractUnchanged, Stages
<1>9. ASSUME NEW r \in Requests, PassOn(r) PROVE TypeOK'
  <2>1. ref[r] = r /\ r \in Places
    BY <1>9 DEF IInv, RequestFits, CopyFits, PassOn, Places
  <2>2. object[r] \in Objects /\ object[r].kind \in Kinds /\ object[r].space \in Spaces \cup {None}
    BY <2>1 DEF IInv, TypeOK, Objects
  <2> QED BY <1>9, <2>1, <2>2
      DEF IInv, TypeOK, ContractTypeOK, PassOn, Serve, contractUnchanged, Stages
<1>10. ASSUME NEW r \in Requests, Finish(r) PROVE TypeOK'
  <2>1. NoObject(r) \in Objects
    BY DEF NoObject, Objects, Contexts, Kinds, Places
  <2>2. ContractTypeOK'
    BY <1>10 DEF IInv, TypeOK, ContractTypeOK, Finish, Forget, contractUnchanged
  <2>3. object' \in [Places -> Objects] /\ list' \in [Places -> SUBSET Spaces]
    BY <1>10, <2>1 DEF IInv, TypeOK, Finish
  <2> QED BY <1>10, <2>2, <2>3, ContractAssumption DEF IInv, TypeOK, Finish, NotGiven, Stages
<1>11. ASSUME NEW r \in Requests, NEW s \in Spaces, HandlerWrites(r, s) PROVE TypeOK'
  <2>1. ref[r] = r /\ object[r].list = r /\ r \in Places
    BY <1>11 DEF IInv, RequestFits, CopyFits, HandlerWrites, Places
  <2>2. [object[r] EXCEPT !.space = s] \in Objects
    BY <2>1 DEF IInv, TypeOK, Objects
  <2>3. object' \in [Places -> Objects] /\ list' \in [Places -> SUBSET Spaces]
    BY <1>11, <2>1, <2>2 DEF IInv, TypeOK, HandlerWrites
  <2> QED BY <1>11, <2>3 DEF IInv, TypeOK, ContractTypeOK, HandlerWrites, contractUnchanged
<1>12. ASSUME NEW a \in Accounts, NEW status \in ContractStatuses, AccountChanges(a, status)
      PROVE  TypeOK'
  BY <1>12
  DEF IInv, TypeOK, ContractTypeOK, AccountChanges, Change, requestVars
<1>13. ASSUME TimePasses PROVE TypeOK'
  BY <1>13
  DEF IInv, TypeOK, ContractTypeOK, TimePasses, Pass, requestVars
<1>14. CASE UNCHANGED vars
  BY <1>14
  DEF vars, IInv, TypeOK, ContractTypeOK
<1> QED
  BY <1>1, <1>2, <1>3, <1>4, <1>5, <1>6, <1>7,
     <1>8, <1>9, <1>10, <1>11, <1>12, <1>13, <1>14
  DEF Next, Arrives, Settles

----------------------------------------------------------------------------
(* Steps keep the past in the past, and what verifiers keep untouched. *)

\* No account stopped being anything in the future.
LEMMA StepEnded ==
  ASSUME IInv, [Next]_vars
  PROVE  EndedPast'
<1>1. ASSUME NEW r \in Requests, NEW t \in Routes, NEW h \in Presented, NEW s \in SpaceHeaders, RejectCredential(r, t, h, s)
      PROVE  EndedPast'
  BY <1>1
  DEF IInv, EndedPast, RejectCredential, contractUnchanged
<1>2. ASSUME NEW r \in Requests, NEW t \in Routes, NEW h \in Presented, NEW s \in SpaceHeaders, RejectKind(r, t, h, s)
      PROVE  EndedPast'
  BY <1>2
  DEF IInv, EndedPast, RejectKind, contractUnchanged
<1>3. ASSUME NEW r \in Requests, NEW t \in Routes, NEW h \in Presented, NEW s \in SpaceHeaders, CallVerify(r, t, h, s)
      PROVE  EndedPast'
  BY <1>3
  DEF IInv, EndedPast, CallVerify, Ask, RefuseAtOnce
<1>4. ASSUME NEW r \in Requests, VerifyReturns(r) PROVE EndedPast'
  BY <1>4
  DEF IInv, EndedPast, VerifyReturns, Tell, Fail
<1>5. ASSUME NEW r \in Requests, RespondError(r) PROVE EndedPast'
  BY <1>5
  DEF IInv, EndedPast, RespondError, contractUnchanged
<1>6. ASSUME NEW r \in Requests, Clone(r) PROVE EndedPast'
  BY <1>6
  DEF IInv, EndedPast, Clone, contractUnchanged
<1>7. ASSUME NEW r \in Requests, Forbid(r) PROVE EndedPast'
  BY <1>7
  DEF IInv, EndedPast, Forbid, contractUnchanged
<1>8. ASSUME NEW r \in Requests, BindSpace(r) PROVE EndedPast'
  BY <1>8
  DEF IInv, EndedPast, BindSpace, Serve, contractUnchanged
<1>9. ASSUME NEW r \in Requests, PassOn(r) PROVE EndedPast'
  BY <1>9
  DEF IInv, EndedPast, PassOn, Serve, contractUnchanged
<1>10. ASSUME NEW r \in Requests, Finish(r) PROVE EndedPast'
  BY <1>10
  DEF IInv, EndedPast, Finish, Forget, contractUnchanged
<1>11. ASSUME NEW r \in Requests, NEW s \in Spaces, HandlerWrites(r, s) PROVE EndedPast'
  BY <1>11
  DEF IInv, EndedPast, HandlerWrites, contractUnchanged
<1>12. ASSUME NEW a \in Accounts, NEW status \in ContractStatuses, AccountChanges(a, status)
      PROVE  EndedPast'
  BY <1>12 DEF IInv, TypeOK, ContractTypeOK, EndedPast, AccountChanges, Change
<1>13. ASSUME TimePasses PROVE EndedPast'
  BY <1>13 DEF IInv, TypeOK, ContractTypeOK, EndedPast, TimePasses, Pass
<1>14. CASE UNCHANGED vars
  BY <1>14
  DEF vars, IInv, EndedPast
<1> QED
  BY <1>1, <1>2, <1>3, <1>4, <1>5, <1>6, <1>7,
     <1>8, <1>9, <1>10, <1>11, <1>12, <1>13, <1>14
  DEF Next, Arrives, Settles

\* Requests write to their own copies only.
LEMMA StepPristine ==
  ASSUME IInv, [Next]_vars, NEW k \in Kept
  PROVE  Pristine(k)'
<1>k. k \notin Requests /\ k \in Places
  BY PlaceAssumption DEF Places
<1>1. ASSUME NEW r \in Requests, NEW t \in Routes, NEW h \in Presented, NEW s \in SpaceHeaders, RejectCredential(r, t, h, s)
      PROVE  Pristine(k)'
  BY <1>1 DEF IInv, Pristine, RejectCredential, Receive
<1>2. ASSUME NEW r \in Requests, NEW t \in Routes, NEW h \in Presented, NEW s \in SpaceHeaders, RejectKind(r, t, h, s)
      PROVE  Pristine(k)'
  BY <1>2 DEF IInv, Pristine, RejectKind, Receive
<1>3. ASSUME NEW r \in Requests, NEW t \in Routes, NEW h \in Presented, NEW s \in SpaceHeaders, CallVerify(r, t, h, s)
      PROVE  Pristine(k)'
  BY <1>3 DEF IInv, Pristine, CallVerify, Receive
<1>4. ASSUME NEW r \in Requests, VerifyReturns(r) PROVE Pristine(k)'
  BY <1>4 DEF IInv, Pristine, VerifyReturns
<1>5. ASSUME NEW r \in Requests, RespondError(r) PROVE Pristine(k)'
  BY <1>5 DEF IInv, Pristine, RespondError
<1>6. ASSUME NEW r \in Requests, Clone(r) PROVE Pristine(k)'
  BY <1>6, <1>k DEF IInv, TypeOK, Pristine, Clone, Places
<1>7. ASSUME NEW r \in Requests, Forbid(r) PROVE Pristine(k)'
  BY <1>7 DEF IInv, Pristine, Forbid
<1>8. ASSUME NEW r \in Requests, BindSpace(r) PROVE Pristine(k)'
  <2>1. ref[r] = r
    BY <1>8 DEF IInv, RequestFits, CopyFits, BindSpace
  <2> QED BY <1>8, <2>1, <1>k DEF IInv, TypeOK, Pristine, BindSpace, Serve, Places
<1>9. ASSUME NEW r \in Requests, PassOn(r) PROVE Pristine(k)'
  BY <1>9 DEF IInv, Pristine, PassOn, Serve
<1>10. ASSUME NEW r \in Requests, Finish(r) PROVE Pristine(k)'
  BY <1>10, <1>k DEF IInv, TypeOK, Pristine, Finish, Places
<1>11. ASSUME NEW r \in Requests, NEW s \in Spaces, HandlerWrites(r, s) PROVE Pristine(k)'
  <2>1. ref[r] = r /\ object[r].list = r
    BY <1>11 DEF IInv, RequestFits, CopyFits, HandlerWrites
  <2> QED BY <1>11, <2>1, <1>k DEF IInv, TypeOK, Pristine, HandlerWrites, Places
<1>12. ASSUME NEW a \in Accounts, NEW status \in ContractStatuses, AccountChanges(a, status)
      PROVE  Pristine(k)'
  BY <1>12 DEF IInv, Pristine, AccountChanges, requestVars
<1>13. ASSUME TimePasses PROVE Pristine(k)'
  BY <1>13 DEF IInv, Pristine, TimePasses, requestVars
<1>14. CASE UNCHANGED vars
  BY <1>14
  DEF vars, IInv, Pristine
<1> QED
  BY <1>1, <1>2, <1>3, <1>4, <1>5, <1>6, <1>7,
     <1>8, <1>9, <1>10, <1>11, <1>12, <1>13, <1>14
  DEF Next, Arrives, Settles

----------------------------------------------------------------------------
(* Steps keep what requests promise. *)

\* What a request promises rests on its own slots and on octo-server.
LEMMA Untouched ==
  ASSUME NEW x \in Requests, RequestFits(x), UNCHANGED <<now, account, ended>>,
         asked'[x] = asked[x], outcome'[x] = outcome[x], object'[x] = object[x],
         list'[x] = list[x], stage'[x] = stage[x], route'[x] = route[x],
         header'[x] = header[x], sid'[x] = sid[x], told'[x] = told[x], ref'[x] = ref[x],
         given'[x] = given[x], wrote'[x] = wrote[x]
  PROVE  RequestFits(x)'
<1>1. \A s : Held(x, s)' = Held(x, s)
  BY DEF Held, HeldInWindow, LastTrue
<1>2. Source(x)' = Source(x)
  BY DEF Source
<1>3. IdleFits(x)' /\ AskFits(x)' /\ VerdictFits(x)' /\ CopyFits(x)'
  BY <1>1, <1>2 DEF RequestFits, IdleFits, AskFits, VerdictFits, CopyFits
<1>4. SpaceFits(x)' /\ OwnFits(x)' /\ AnswerFits(x)'
  BY <1>1 DEF RequestFits, SpaceFits, OwnFits, AnswerFits
<1> QED BY <1>3, <1>4 DEF RequestFits

\* octo-server and time take nothing back.
LEMMA Endures ==
  ASSUME IInv, NEW x \in Requests, UNCHANGED <<asked, outcome, requestVars>>,
         \/ \E a \in Accounts, status \in ContractStatuses : Change(a, status)
         \/ Pass
  PROVE  RequestFits(x)'
<1>1. ASSUME NEW s \in ContractStatuses, Held(x, s)
      PROVE  Held(x, s)'
  BY <1>1, WindowStable DEF IInv, Held, requestVars
<1>2. UNCHANGED <<object, list, stage, route, header, sid, told, ref, given, wrote>>
  BY DEF requestVars
<1>3. IdleFits(x)' /\ AskFits(x)' /\ OwnFits(x)'
  BY <1>2 DEF IInv, RequestFits, IdleFits, AskFits, OwnFits
<1>4. CopyFits(x)'
  BY <1>2 DEF IInv, RequestFits, CopyFits, Source
<1>5. VerdictFits(x)'
  BY <1>1, <1>2 DEF IInv, RequestFits, VerdictFits
<1>6. SpaceFits(x)'
  BY <1>1, <1>2 DEF IInv, RequestFits, SpaceFits, ContractStatuses
<1>7. AnswerFits(x)'
  BY <1>1, <1>2 DEF IInv, RequestFits, AnswerFits, ContractStatuses, ContractRefusals
<1> QED BY <1>3, <1>4, <1>5, <1>6, <1>7 DEF RequestFits

\* Every step keeps every request's promises.
LEMMA StepRequests ==
  ASSUME IInv, [Next]_vars, NEW x \in Requests
  PROVE  RequestFits(x)'
<1>1. ASSUME NEW r \in Requests, NEW t \in Routes, NEW h \in Presented, NEW s \in SpaceHeaders, RejectCredential(r, t, h, s)
      PROVE  RequestFits(x)'
  <2>1. CASE x # r
    BY <1>1, <2>1, Untouched
    DEF IInv, TypeOK, Places, RejectCredential, Receive, Answer, contractUnchanged
  <2>2. CASE x = r
    <3>1. /\ stage'[r] = "answered" /\ route'[r] = t /\ header'[r] = h
          /\ wrote'[r] = "401"
          /\ asked'[r] = None /\ outcome'[r] = NoVerdict
      BY <1>1 DEF IInv, TypeOK, RequestFits, IdleFits, RejectCredential, Receive, Answer, contractUnchanged
    <3>2. NoVerdict \notin ContractStatuses
      BY ContractAssumption DEF Verdicts
    <3> QED
      BY <1>1, <2>2, <3>1, <3>2
      DEF RejectCredential, RequestFits, IdleFits, AskFits, VerdictFits, CopyFits, SpaceFits, OwnFits, AnswerFits
  <2> QED BY <2>1, <2>2
<1>2. ASSUME NEW r \in Requests, NEW t \in Routes, NEW h \in Presented, NEW s \in SpaceHeaders, RejectKind(r, t, h, s)
      PROVE  RequestFits(x)'
  <2>1. CASE x # r
    BY <1>2, <2>1, Untouched
    DEF IInv, TypeOK, Places, RejectKind, Receive, Answer, contractUnchanged
  <2>2. CASE x = r
    <3>1. /\ stage'[r] = "answered" /\ route'[r] = t /\ header'[r] = h
          /\ wrote'[r] = "403 forbidden"
          /\ asked'[r] = None /\ outcome'[r] = NoVerdict
      BY <1>2 DEF IInv, TypeOK, RequestFits, IdleFits, RejectKind, Receive, Answer, contractUnchanged
    <3>2. NoVerdict \notin ContractStatuses
      BY ContractAssumption DEF Verdicts
    <3> QED
      BY <1>2, <2>2, <3>1, <3>2
      DEF RejectKind, RequestFits, IdleFits, AskFits, VerdictFits, CopyFits, SpaceFits, OwnFits, AnswerFits
  <2> QED BY <2>1, <2>2
<1>3. ASSUME NEW r \in Requests, NEW t \in Routes, NEW h \in Presented, NEW s \in SpaceHeaders, CallVerify(r, t, h, s)
      PROVE  RequestFits(x)'
  <2>1. CASE x # r
    BY <1>3, <2>1, Untouched
    DEF IInv, TypeOK, ContractTypeOK, Requests, Places, CallVerify, Receive, Ask,
        RefuseAtOnce
  <2>2. CASE x = r
    <3>1. /\ stage'[r] = "verifying" /\ route'[r] = t /\ header'[r] = h /\ wrote'[r] = None
      BY <1>3 DEF IInv, TypeOK, RequestFits, IdleFits, CallVerify, Receive
    <3>2. AccountIn(h) \in Accounts
      BY <1>3, AccountInType DEF CallVerify
    <3>3. asked'[r] = AccountIn(h) /\ outcome'[r] \in {NoVerdict, "unfounded"}
      BY <1>3 DEF IInv, TypeOK, ContractTypeOK, RequestFits, IdleFits, CallVerify, Receive, Ask,
                RefuseAtOnce, Requests
    <3>4. NoVerdict \notin ContractStatuses /\ "unfounded" \notin ContractStatuses
      BY ContractAssumption DEF Verdicts, ContractStatuses, ContractRefusals, Unfounded
    <3>5. IdleFits(r)' /\ AskFits(r)' /\ VerdictFits(r)' /\ CopyFits(r)'
      BY <1>3, <3>1, <3>2, <3>3, <3>4 DEF CallVerify, IdleFits, AskFits, VerdictFits, CopyFits
    <3>6. SpaceFits(r)' /\ OwnFits(r)' /\ AnswerFits(r)'
      BY <3>1, StatusAssumption DEF SpaceFits, OwnFits, AnswerFits, Statuses
    <3> QED BY <2>2, <3>5, <3>6 DEF RequestFits
  <2> QED BY <2>1, <2>2
<1>4. ASSUME NEW r \in Requests, VerifyReturns(r) PROVE RequestFits(x)'
  <2>1. CASE x # r
    BY <1>4, <2>1, Untouched
    DEF IInv, TypeOK, ContractTypeOK, Requests, Places, VerifyReturns, Tell, Fail
  <2>2. CASE x = r
    <3>1. told'[r] = now /\ UNCHANGED <<now, account, ended, asked>>
      BY <1>4 DEF IInv, TypeOK, VerifyReturns, Tell, Fail
    <3>2. asked[r] # None /\ outcome[r] = NoVerdict
      BY <1>4 DEF VerifyReturns, Tell, Fail
    <3>3. asked[r] \in Accounts
      BY <3>2 DEF IInv, TypeOK, ContractTypeOK, Requests
    <3>4. \/ outcome'[r] \in Unfounded
          \/ outcome'[r] \in ContractStatuses /\ now <= LastTrue(asked[r], outcome'[r]) + Window[asked[r]][outcome'[r]]
      BY <1>4 DEF IInv, TypeOK, ContractTypeOK, VerifyReturns, Tell, Fail, Requests
    <3>5. \A e \in Unfounded : e \notin ContractStatuses
      BY ContractAssumption DEF ContractStatuses, ContractRefusals, Unfounded
    <3>6. VerdictFits(r)'
      BY <3>1, <3>3, <3>4, <3>5 DEF VerdictFits, Held, HeldInWindow, LastTrue
    <3>7. stage[r] = "verifying" /\ wrote[r] = None
      BY <3>2 DEF IInv, RequestFits, IdleFits
    <3>8. stage' = stage /\ wrote' = wrote /\ header' = header /\ route' = route
      BY <1>4 DEF VerifyReturns
    <3>9. IdleFits(r)' /\ AskFits(r)' /\ CopyFits(r)'
      BY <3>1, <3>7, <3>8 DEF IInv, RequestFits, IdleFits, AskFits, CopyFits
    <3>10. SpaceFits(r)' /\ OwnFits(r)' /\ AnswerFits(r)'
      BY <3>7, <3>8, StatusAssumption DEF SpaceFits, OwnFits, AnswerFits, Statuses
    <3> QED BY <2>2, <3>6, <3>9, <3>10 DEF RequestFits
  <2> QED BY <2>1, <2>2
<1>5. ASSUME NEW r \in Requests, RespondError(r) PROVE RequestFits(x)'
  <2>1. CASE x # r
    BY <1>5, <2>1, Untouched
    DEF IInv, TypeOK, Places, RespondError, Answer, contractUnchanged
  <2>2. CASE x = r
    <3>1. stage'[r] = "answered" /\ wrote'[r] = Mapped(outcome[r])
      BY <1>5 DEF IInv, TypeOK, RespondError, Answer
    <3>2. UNCHANGED <<now, account, ended, asked, outcome, told, header, route, sid>>
      BY <1>5 DEF RespondError, contractUnchanged
    <3>3. asked[r] \in Accounts /\ VerdictFits(r) /\ outcome[r] # NoVerdict
      BY <1>5, ContractAssumption
      DEF IInv, RequestFits, AskFits, RespondError, Verdicts, ContractStatuses
    <3>4. VerdictFits(r)' /\ IdleFits(r)' /\ AskFits(r)' /\ CopyFits(r)'
      BY <3>1, <3>2, <3>3 DEF VerdictFits, IdleFits, AskFits, CopyFits, Held, HeldInWindow, LastTrue
    <3>5. SpaceFits(r)' /\ OwnFits(r)'
      BY <3>1 DEF SpaceFits, OwnFits
    <3>6. AnswerFits(r)'
      <4>1. outcome[r] \in ContractStatuses => Held(r, outcome[r])'
        BY <3>2, <3>4 DEF VerdictFits
      <4>2. outcome[r] \in {"revoked", "disabled", "unfounded", "infra_failure"}
        BY <1>5 DEF RespondError, ContractRefusals, Unfounded
      <4> QED BY <3>1, <3>2, <4>1, <4>2 DEF AnswerFits, Mapped, ContractStatuses, ContractRefusals
    <3> QED BY <2>2, <3>4, <3>5, <3>6 DEF RequestFits
  <2> QED BY <2>1, <2>2
<1>6. ASSUME NEW r \in Requests, Clone(r) PROVE RequestFits(x)'
  <2>1. CASE x # r
    BY <1>6, <2>1, Untouched
    DEF IInv, TypeOK, Places, Clone, contractUnchanged
  <2>2. CASE x = r
    <3>1. asked[r] \in Accounts /\ outcome[r] \in Grants /\ wrote[r] = None
      BY <1>6 DEF IInv, RequestFits, AskFits, IdleFits, Clone
    <3>2. Source(r) \in Kept /\ Source(r) \in Places /\ r \in Places
      BY <3>1 DEF Source, Kept, Places
    <3>3. object[Source(r)] = Built(Source(r)) /\ list[Source(r)] = BuiltList(Source(r))
      BY <3>2 DEF IInv, Pristine
    <3>4. object[Source(r)].list = Source(r)
      BY <3>3 DEF Built
    <3>5. stage'[r] = "cloned" /\ ref'[r] = r
      BY <1>6 DEF IInv, TypeOK, Clone
    <3>6. object'[r] = [Built(Source(r)) EXCEPT !.list = r] /\ list'[r] = BuiltList(Source(r))
      BY <1>6, <3>2, <3>3, <3>4 DEF IInv, TypeOK, Clone
    <3>7. UNCHANGED <<now, account, ended, asked, outcome, told, header, route, sid, wrote>>
      BY <1>6 DEF Clone, contractUnchanged
    <3>8. Source(r)' = Source(r)
      BY <3>7 DEF Source
    <3>9. object'[r].list = r
      BY <3>6 DEF Built
    <3>10. CopyFits(r)'
      BY <3>1, <3>5, <3>6, <3>7, <3>8, <3>9 DEF CopyFits
    <3>11. IdleFits(r)' /\ AskFits(r)' /\ VerdictFits(r)'
      BY <1>6, <3>1, <3>5, <3>7, ContractAssumption
      DEF IInv, RequestFits, IdleFits, AskFits, VerdictFits, Held, HeldInWindow, LastTrue, Clone,
          Verdicts, ContractStatuses
    <3>12. SpaceFits(r)' /\ OwnFits(r)' /\ AnswerFits(r)'
      BY <3>1, <3>5, <3>7, StatusAssumption DEF SpaceFits, OwnFits, AnswerFits, Statuses
    <3> QED BY <2>2, <3>10, <3>11, <3>12 DEF RequestFits
  <2> QED BY <2>1, <2>2
<1>7. ASSUME NEW r \in Requests, Forbid(r) PROVE RequestFits(x)'
  <2>1. CASE x # r
    BY <1>7, <2>1, Untouched
    DEF IInv, TypeOK, Places, Forbid, Answer, contractUnchanged
  <2>2. CASE x = r
    <3>1. stage'[r] = "answered" /\ wrote'[r] = "403 forbidden"
      BY <1>7 DEF IInv, TypeOK, Forbid, Answer
    <3>2. UNCHANGED <<now, account, ended, asked, outcome, told, header, route, sid>>
      BY <1>7 DEF Forbid, contractUnchanged
    <3>3. /\ outcome[r] \in Grants /\ Held(r, outcome[r]) /\ outcome[r] # NoVerdict
          /\ asked[r] \in Accounts
      BY <1>7, ContractAssumption
      DEF IInv, RequestFits, CopyFits, AskFits, VerdictFits, Forbid, Verdicts, ContractStatuses
    <3>4. VerdictFits(r)' /\ IdleFits(r)' /\ AskFits(r)' /\ CopyFits(r)'
      BY <3>1, <3>2, <3>3 DEF VerdictFits, IdleFits, AskFits, CopyFits, Held, HeldInWindow, LastTrue
    <3>5. SpaceFits(r)' /\ OwnFits(r)'
      BY <3>1 DEF SpaceFits, OwnFits
    <3>6. sid[r] \notin Holds[outcome[r]] \/ ContextOf[outcome[r]] \in {"not_included", "unknown_server"}
      <4>1. object[r] = [Built(Source(r)) EXCEPT !.list = r] /\ list[r] = BuiltList(Source(r)) /\ ref[r] = r
        BY <1>7 DEF Forbid, IInv, RequestFits, CopyFits
      <4>2. Built(Source(r)).kind = asked[r][1] /\ Source(r)[1] = asked[r] /\ Source(r)[2] = outcome[r]
        BY DEF Built, Source
      <4>3. object[r].kind = asked[r][1] /\ object[r].list = r
            /\ object[r].context = Built(Source(r)).context
        BY <4>1, <4>2 DEF Built
      <4>4. asked[r][1] = "session"
        BY <1>7, <4>1, <4>3 DEF Forbid, Enrichable
      <4>5. ContextIs(r) = ContextOf[outcome[r]]
        BY <4>1, <4>2, <4>3, <4>4 DEF ContextIs, Built
      <4>6. ContextIs(r) # "included" \/ sid[r] \notin BuiltList(Source(r))
        BY <1>7, <4>1, <4>3 DEF Forbid, MayBind
      <4>7. ContextOf[outcome[r]] = "included" => BuiltList(Source(r)) = Holds[outcome[r]]
        BY <4>2, <4>4 DEF BuiltList
      <4>8. ContextIs(r) # "not_requested"
        BY <1>7 DEF Forbid
      <4> QED BY <3>3, <4>5, <4>6, <4>7, <4>8, GrantAssumption DEF Contexts
    <3>7. AnswerFits(r)'
      <4>1. Held(r, outcome[r])'
        BY <3>2, <3>3, <3>4 DEF VerdictFits, ContractStatuses
      <4> QED BY <3>1, <3>2, <3>3, <3>6, <4>1 DEF AnswerFits
    <3> QED BY <2>2, <3>4, <3>5, <3>7 DEF RequestFits
  <2> QED BY <2>1, <2>2
<1>8. ASSUME NEW r \in Requests, BindSpace(r) PROVE RequestFits(x)'
  <2>0. ref[r] = r
    BY <1>8 DEF IInv, RequestFits, CopyFits, BindSpace
  <2>1. CASE x # r
    BY <1>8, <2>0, <2>1, Untouched
    DEF IInv, TypeOK, Places, BindSpace, Serve, contractUnchanged
  <2>2. CASE x = r
    <3>1. /\ object[r] = [Built(Source(r)) EXCEPT !.list = r] /\ list[r] = BuiltList(Source(r))
          /\ ref[r] = r /\ object[r].list = r /\ outcome[r] \in Grants
      BY <1>8 DEF BindSpace, IInv, RequestFits, CopyFits
    <3>2. /\ asked[r] \in Accounts /\ asked[r] = AccountIn(header[r]) /\ KindPermitted(route[r], header[r])
          /\ Held(r, outcome[r]) /\ wrote[r] = None /\ outcome[r] # NoVerdict
      BY <1>8, <3>1, ContractAssumption
      DEF BindSpace, IInv, RequestFits, AskFits, VerdictFits, IdleFits, ContractStatuses, Verdicts
    <3>3. UNCHANGED <<now, account, ended, asked, outcome, told, header, route, sid, wrote, ref, list>>
      BY <1>8 DEF BindSpace, Serve, contractUnchanged
    <3>4. Source(r)[1] = asked[r] /\ Source(r)[2] = outcome[r]
      BY DEF Source
    <3>5. object[r].kind = asked[r][1] /\ object[r].context = Built(Source(r)).context
          /\ object[r].space = Built(Source(r)).space
      BY <3>1, <3>4 DEF Built
    <3>6. stage'[r] = "serving" /\ given'[r] = [kind |-> asked[r][1], space |-> sid[r]]
      BY <1>8, <3>1, <3>5 DEF IInv, TypeOK, BindSpace, Serve
    <3>7. object'[r].list = r
      <4>1. object' = [object EXCEPT ![r] = [object[r] EXCEPT !.space = sid[r]]]
        BY <1>8, <3>1 DEF BindSpace
      <4>2. r \in DOMAIN object /\ object[r] \in Objects
        BY DEF IInv, TypeOK, Places
      <4>3. object'[r] = [object[r] EXCEPT !.space = sid[r]]
        BY <4>1, <4>2
      <4> QED BY <3>1, <4>2, <4>3 DEF Objects
    <3>8. IdleFits(r)' /\ AskFits(r)' /\ VerdictFits(r)' /\ CopyFits(r)' /\ AnswerFits(r)'
      <4>1. Held(r, outcome[r])'
        BY <3>2, <3>3 DEF Held, HeldInWindow, LastTrue
      <4> QED BY <3>1, <3>2, <3>3, <3>6, <3>7, <4>1, StatusAssumption
          DEF IdleFits, AskFits, VerdictFits, CopyFits, AnswerFits, Statuses
    <3>9. sid[r] \in Holds[outcome[r]]
      <4>1. object[r].kind = "session" /\ ContextIs(r) = "included" /\ sid[r] \in BuiltList(Source(r))
        BY <1>8, <3>1 DEF BindSpace, Enrichable, MayBind
      <4>2. asked[r][1] = "session" /\ ContextOf[outcome[r]] = "included"
        BY <3>1, <3>4, <3>5, <4>1 DEF ContextIs, Built
      <4> QED BY <3>4, <4>1, <4>2 DEF BuiltList
    <3>10. SpaceFits(r)'
      BY <3>1, <3>2, <3>3, <3>6, <3>9 DEF SpaceFits, Held, HeldInWindow, LastTrue
    <3>11. OwnFits(r)'
      BY <3>2, <3>3, <3>6 DEF OwnFits, KindPermitted, AccountIn
    <3> QED BY <2>2, <3>8, <3>10, <3>11 DEF RequestFits
  <2> QED BY <2>1, <2>2
<1>9. ASSUME NEW r \in Requests, PassOn(r) PROVE RequestFits(x)'
  <2>1. CASE x # r
    BY <1>9, <2>1, Untouched
    DEF IInv, TypeOK, Places, PassOn, Serve, contractUnchanged
  <2>2. CASE x = r
    <3>1. /\ object[r] = [Built(Source(r)) EXCEPT !.list = r] /\ list[r] = BuiltList(Source(r))
          /\ ref[r] = r /\ object[r].list = r /\ outcome[r] \in Grants
      BY <1>9 DEF PassOn, IInv, RequestFits, CopyFits
    <3>2. /\ asked[r] \in Accounts /\ asked[r] = AccountIn(header[r]) /\ KindPermitted(route[r], header[r])
          /\ Held(r, outcome[r]) /\ wrote[r] = None /\ outcome[r] # NoVerdict
      BY <1>9, <3>1, ContractAssumption
      DEF PassOn, IInv, RequestFits, AskFits, VerdictFits, IdleFits, ContractStatuses, Verdicts
    <3>3. UNCHANGED <<now, account, ended, asked, outcome, told, header, route, sid, wrote, ref, list>>
      BY <1>9 DEF PassOn, Serve, contractUnchanged
    <3>4. Source(r)[1] = asked[r] /\ Source(r)[2] = outcome[r]
      BY DEF Source
    <3>5. object[r].kind = asked[r][1] /\ object[r].context = Built(Source(r)).context
          /\ object[r].space = Built(Source(r)).space
      BY <3>1, <3>4 DEF Built
    <3>6. stage'[r] = "serving" /\ given'[r] = [kind |-> asked[r][1], space |-> object[r].space]
      BY <1>9, <3>1, <3>5 DEF IInv, TypeOK, PassOn, Serve
    <3>7. object'[r].list = r
      BY <1>9, <3>1 DEF IInv, TypeOK, PassOn, Places
    <3>8. IdleFits(r)' /\ AskFits(r)' /\ VerdictFits(r)' /\ CopyFits(r)' /\ AnswerFits(r)'
      <4>1. Held(r, outcome[r])'
        BY <3>2, <3>3 DEF Held, HeldInWindow, LastTrue
      <4> QED BY <3>1, <3>2, <3>3, <3>6, <3>7, <4>1, StatusAssumption
          DEF IdleFits, AskFits, VerdictFits, CopyFits, AnswerFits, Statuses
    <3>9. /\ asked[r][1] = "session" => object[r].space = None
          /\ asked[r][1] # "session" => object[r].space \in Holds[outcome[r]]
      <4>1. \E s \in Holds[outcome[r]] : TRUE
        BY <3>1, GrantAssumption
      <4>2. (CHOOSE s \in Holds[outcome[r]] : TRUE) \in Holds[outcome[r]]
        BY <4>1
      <4> QED BY <3>4, <3>5, <4>2 DEF Built
    <3>10. SpaceFits(r)'
      BY <3>1, <3>2, <3>3, <3>6, <3>9 DEF SpaceFits, Held, HeldInWindow, LastTrue
    <3>11. OwnFits(r)'
      BY <3>2, <3>3, <3>6, <3>9 DEF OwnFits, KindPermitted, AccountIn
    <3> QED BY <2>2, <3>8, <3>10, <3>11 DEF RequestFits
  <2> QED BY <2>1, <2>2
<1>10. ASSUME NEW r \in Requests, Finish(r) PROVE RequestFits(x)'
  <2>1. CASE x # r
    BY <1>10, <2>1, Untouched
    DEF IInv, TypeOK, ContractTypeOK, Requests, Places, Finish, Forget,
        contractUnchanged
  <2>2. CASE x = r
    <3>1. stage'[r] = "idle" /\ wrote'[r] = None
      BY <1>10 DEF IInv, TypeOK, Finish
    <3>2. asked'[r] = None /\ outcome'[r] = NoVerdict
      BY <1>10 DEF IInv, TypeOK, ContractTypeOK, RequestFits, IdleFits, Finish, Forget, contractUnchanged, Requests
    <3>3. NoVerdict \notin ContractStatuses
      BY ContractAssumption DEF Verdicts
    <3>4. IdleFits(r)' /\ AskFits(r)' /\ VerdictFits(r)' /\ CopyFits(r)'
      BY <3>1, <3>2, <3>3 DEF IdleFits, AskFits, VerdictFits, CopyFits
    <3>5. SpaceFits(r)' /\ OwnFits(r)' /\ AnswerFits(r)'
      BY <3>1, StatusAssumption DEF SpaceFits, OwnFits, AnswerFits, Statuses
    <3> QED BY <2>2, <3>4, <3>5 DEF RequestFits
  <2> QED BY <2>1, <2>2
<1>11. ASSUME NEW r \in Requests, NEW s \in Spaces, HandlerWrites(r, s) PROVE RequestFits(x)'
  <2>0. ref[r] = r /\ object[r].list = r
    BY <1>11 DEF IInv, RequestFits, CopyFits, HandlerWrites
  <2>1. CASE x # r
    BY <1>11, <2>0, <2>1, Untouched
    DEF IInv, TypeOK, Places, HandlerWrites, contractUnchanged
  <2>2. CASE x = r
    <3>1. UNCHANGED <<now, account, ended, asked, outcome, stage, told, header, route, sid, wrote, ref, given>>
      BY <1>11 DEF HandlerWrites, contractUnchanged
    <3>2. object'[r].list = r /\ stage[r] = "serving"
      BY <1>11, <2>0 DEF IInv, TypeOK, HandlerWrites, Places
    <3>3. RequestFits(r)
      BY DEF IInv
    <3>4. CopyFits(r)'
      BY <3>1, <3>2, <3>3 DEF RequestFits, CopyFits
    <3>5. IdleFits(r)' /\ AskFits(r)' /\ VerdictFits(r)'
      BY <3>1, <3>3 DEF RequestFits, IdleFits, AskFits, VerdictFits, Held, HeldInWindow, LastTrue
    <3>6. SpaceFits(r)' /\ OwnFits(r)' /\ AnswerFits(r)'
      BY <3>1, <3>3 DEF RequestFits, SpaceFits, OwnFits, AnswerFits, Held, HeldInWindow, LastTrue
    <3> QED BY <2>2, <3>4, <3>5, <3>6 DEF RequestFits
  <2> QED BY <2>1, <2>2
<1>12. ASSUME NEW a \in Accounts, NEW status \in ContractStatuses, AccountChanges(a, status)
      PROVE  RequestFits(x)'
  BY <1>12, Endures DEF AccountChanges, Change
<1>13. ASSUME TimePasses PROVE RequestFits(x)'
  BY <1>13, Endures DEF TimePasses, Pass
<1>14. CASE UNCHANGED vars
  BY <1>14, Untouched
  DEF vars, IInv
<1> QED
  BY <1>1, <1>2, <1>3, <1>4, <1>5, <1>6, <1>7,
     <1>8, <1>9, <1>10, <1>11, <1>12, <1>13, <1>14
  DEF Next, Arrives, Settles

----------------------------------------------------------------------------
(* The theorems. *)

\* The initial state satisfies the invariant.
LEMMA StartHolds ==
  ASSUME Init
  PROVE  IInv
<1>1. \A k \in Kept : Pristine(k)
  BY DEF Init, Pristine, Places
<1>2. TypeOK
  <2>1. ContractTypeOK
    BY ContractAssumption DEF Init, ContractInit, ContractTypeOK
  <2>2. \A r \in Requests : NoObject(r) \in Objects
    BY DEF NoObject, Objects, Contexts, Kinds, Places
  <2>3. object \in [Places -> Objects]
    BY <2>2, BuiltType DEF Init, Places
  <2>4. list \in [Places -> SUBSET Spaces]
    BY BuiltType DEF Init, Places
  <2>5. told \in [Requests -> Int]
    BY ContractAssumption DEF Init
  <2> QED BY <2>1, <2>3, <2>4, <2>5 DEF Init, TypeOK, Stages, NotGiven
<1>3. EndedPast
  BY ContractAssumption DEF Init, ContractInit, EndedPast
<1>4. ASSUME NEW r \in Requests PROVE RequestFits(r)
  <2>1. /\ stage[r] = "idle" /\ wrote[r] = None
        /\ asked[r] = None /\ outcome[r] = NoVerdict /\ NoVerdict \notin ContractStatuses
    BY ContractAssumption DEF Init, ContractInit, Requests, Verdicts
  <2> QED
    BY <2>1, StatusAssumption
    DEF RequestFits, IdleFits, AskFits, VerdictFits, CopyFits, SpaceFits, OwnFits, AnswerFits,
        Statuses
<1> QED BY <1>1, <1>2, <1>3, <1>4 DEF IInv

\* Every step keeps the invariant.
LEMMA StepHolds ==
  ASSUME IInv, [Next]_vars
  PROVE  IInv'
<1>1. \A k \in Kept : Pristine(k)'
  BY StepPristine
<1>2. \A r \in Requests : RequestFits(r)'
  BY StepRequests
<1> QED BY <1>1, <1>2, StepType, StepEnded DEF IInv

\* The invariant holds throughout.
THEOREM InductiveInvariant == Spec => []IInv
BY StartHolds, StepHolds, PTL DEF Spec

\* The state is always well-formed, and no request ends without a response.
THEOREM TypeCorrect == Spec => []TypeOK
<1>1. IInv => TypeOK
  BY DEF IInv
<1> QED BY <1>1, InductiveInvariant, PTL

\* What a verifier keeps is never written to, whatever middlewares and handlers do.
THEOREM KeptStaysPristine == Spec => []KeptPristine
<1>1. IInv => KeptPristine
  BY DEF IInv, Pristine, KeptPristine
<1> QED BY <1>1, InductiveInvariant, PTL

\* No handler is given a space the account was not a member of within the window.
THEOREM SpacesAreHeld == Spec => []SpaceHeld
<1>1. IInv => SpaceHeld
  BY DEF IInv, RequestFits, SpaceFits, Held, SpaceHeld
<1> QED BY <1>1, InductiveInvariant, PTL

\* A session's handler is given its own request's space or none, and the kind its
\* route requires.
THEOREM SpacesAreOwn == Spec => []OwnSpace
<1>1. IInv => OwnSpace
  BY DEF IInv, RequestFits, OwnFits, OwnSpace
<1> QED BY <1>1, InductiveInvariant, PTL

\* An error response tells what happened.
THEOREM AnswersAreTrue == Spec => []AnswersTrue
<1>1. IInv => AnswersTrue
  BY DEF IInv, RequestFits, AnswerFits, Held, AnswersTrue
<1> QED BY <1>1, InductiveInvariant, PTL

----------------------------------------------------------------------------
(* The heap behaves as values. *)

\* What a request's values rest on.
Slots(x) ==
  <<stage[x], ref[x], object[x], list[x], asked[x], outcome[x]>>

\* Past Clone, a request's Principal is the object at its own place.
LEMMA MineFacts ==
  ASSUME IInv, NEW r \in Requests, stage[r] \in {"cloned", "serving"}
  PROVE  /\ Mine[r] = [kind |-> object[r].kind, context |-> object[r].context,
                       space |-> object[r].space, spaces |-> list[r]]
         /\ Mine[r] # None
         /\ object[r] \in Objects /\ list[r] \in SUBSET Spaces
<1>1. ref[r] = r /\ object[r].list = r
  BY DEF IInv, RequestFits, CopyFits
<1>2. object[r] \in Objects /\ list[r] \in SUBSET Spaces
  BY DEF IInv, TypeOK, Places
<1>3. Mine[r] = [kind |-> object[r].kind, context |-> object[r].context,
                 space |-> object[r].space, spaces |-> list[r]]
  BY <1>1 DEF Mine, Contents
<1>4. Mine[r] \in [kind : Kinds, context : Contexts, space : Spaces \cup {None},
                   spaces : SUBSET Spaces]
  BY <1>2, <1>3 DEF Objects
<1> QED BY <1>2, <1>3, <1>4, ValueAssumption

\* A step of one request, which leaves the slots of all others alone, changes the
\* values of that request only.
LEMMA OthersKeepTheirs ==
  ASSUME IInv, NEW r \in Requests,
         \A x \in Requests \ {r} : UNCHANGED Slots(x)
  PROVE  /\ Entitled' = [Entitled EXCEPT ![r] = IF outcome'[r] \in Grants
                                               THEN <<asked'[r], outcome'[r]>> ELSE None]
         /\ Mine' = [Mine EXCEPT ![r] = IF stage'[r] \in {"cloned", "serving"}
                                       THEN Contents(ref[r])' ELSE None]
         /\ Serving' = IF stage'[r] = "serving" THEN Serving \cup {r} ELSE Serving \ {r}
<1>1. ASSUME NEW x \in Requests, x # r
      PROVE  Entitled'[x] = Entitled[x] /\ Mine'[x] = Mine[x] /\ stage'[x] = stage[x]
  <2>1. /\ stage'[x] = stage[x] /\ ref'[x] = ref[x] /\ object'[x] = object[x]
        /\ list'[x] = list[x] /\ asked'[x] = asked[x] /\ outcome'[x] = outcome[x]
    BY <1>1 DEF Slots
  <2>2. stage[x] \in {"cloned", "serving"} => ref[x] = x /\ object[x].list = x
    BY DEF IInv, RequestFits, CopyFits
  <2>3. Mine'[x] = Mine[x]
    BY <2>1, <2>2 DEF Mine, Contents
  <2>4. Entitled'[x] = Entitled[x]
    BY <2>1 DEF Entitled, Source
  <2> QED BY <2>1, <2>3, <2>4
<1>2. Entitled'[r] = IF outcome'[r] \in Grants THEN <<asked'[r], outcome'[r]>> ELSE None
  BY DEF Entitled, Source
<1>3. Mine'[r] = IF stage'[r] \in {"cloned", "serving"} THEN Contents(ref[r])' ELSE None
  BY DEF Mine
<1>4. Entitled' = [Entitled EXCEPT ![r] = Entitled'[r]]
  BY <1>1 DEF Entitled
<1>5. Mine' = [Mine EXCEPT ![r] = Mine'[r]]
  BY <1>1 DEF Mine
<1>6. Serving' = IF stage'[r] = "serving" THEN Serving \cup {r} ELSE Serving \ {r}
  BY <1>1 DEF Serving
<1> QED BY <1>2, <1>3, <1>4, <1>5, <1>6

\* A step that changes none of a request's values is a stutter.
LEMMA ValuesStutter ==
  ASSUME IInv, NEW r \in Requests,
         \A x \in Requests \ {r} : UNCHANGED Slots(x),
         outcome[r] \notin Grants /\ outcome'[r] \notin Grants,
         stage[r] \notin {"cloned", "serving"} /\ stage'[r] \notin {"cloned", "serving"}
  PROVE  UNCHANGED <<Entitled, Mine, Serving>>
<1>1. Entitled[r] = None /\ Mine[r] = None /\ r \notin Serving
  BY DEF Entitled, Mine, Serving
<1>2. /\ Entitled' = [Entitled EXCEPT ![r] = None]
      /\ Mine' = [Mine EXCEPT ![r] = None]
      /\ Serving' = Serving \ {r}
  BY OthersKeepTheirs
<1> QED BY <1>1, <1>2 DEF Entitled, Mine, Serving

\* Every step of the middleware is a step of OwnPrincipals or changes no value.
LEMMA StepActsOnValues ==
  ASSUME IInv, [Next]_vars
  PROVE  [Values!ValueNext]_(Values!valueVars)
<1> USE DEF Values!valueVars
<1>g. \A o \in Unfounded \cup ContractRefusals \cup {NoVerdict} : o \notin Grants
  BY ContractAssumption DEF Verdicts, ContractStatuses, Unfounded, ContractRefusals
<1>1. ASSUME NEW r \in Requests, NEW t \in Routes, NEW h \in Presented, NEW s \in SpaceHeaders, Arrives(r, t, h, s)
      PROVE  UNCHANGED <<Entitled, Mine, Serving>>
  <2>1. stage[r] = "idle" /\ outcome[r] = NoVerdict
    BY <1>1 DEF IInv, RequestFits, IdleFits, Arrives, RejectCredential, RejectKind, CallVerify, Receive
  <2>2. CASE RejectCredential(r, t, h, s) \/ RejectKind(r, t, h, s)
    <3>1. /\ \A x \in Requests \ {r} : UNCHANGED Slots(x)
          /\ stage'[r] = "answered" /\ outcome' = outcome
      BY <2>2 DEF IInv, TypeOK, Slots, RejectCredential, RejectKind, Receive, Answer, contractUnchanged
    <3> QED BY <1>g, <2>1, <3>1, ValuesStutter
  <2>3. CASE CallVerify(r, t, h, s)
    <3>1. /\ \A x \in Requests \ {r} : UNCHANGED Slots(x)
          /\ stage'[r] = "verifying" /\ outcome'[r] \in {NoVerdict, "unfounded"}
      BY <2>1, <2>3 DEF IInv, TypeOK, ContractTypeOK, Requests, Slots, CallVerify, Receive, Ask, RefuseAtOnce
    <3> QED BY <1>g, <2>1, <3>1, ValuesStutter DEF Unfounded
  <2> QED BY <1>1, <2>2, <2>3 DEF Arrives
<1>2. ASSUME NEW r \in Requests, VerifyReturns(r)
      PROVE  Values!ValueNext \/ UNCHANGED <<Entitled, Mine, Serving>>
  <2>1. /\ asked[r] \in Accounts /\ outcome[r] = NoVerdict /\ stage[r] = "verifying"
        /\ \A x \in Requests \ {r} : UNCHANGED Slots(x)
        /\ stage' = stage /\ ref' = ref /\ asked' = asked
        /\ outcome'[r] \in Grants \/ outcome'[r] \in Unfounded \cup ContractRefusals
    <3>1. asked[r] # None /\ outcome[r] = NoVerdict
      BY <1>2 DEF VerifyReturns, Tell, Fail
    <3>2. asked[r] \in Accounts /\ stage[r] = "verifying"
      BY <3>1 DEF IInv, TypeOK, ContractTypeOK, Requests, RequestFits, IdleFits
    <3>3. /\ \A x \in Requests \ {r} : UNCHANGED Slots(x)
          /\ stage' = stage /\ ref' = ref /\ asked' = asked
          /\ outcome'[r] \in Grants \/ outcome'[r] \in Unfounded \cup ContractRefusals
      BY <1>2 DEF IInv, TypeOK, ContractTypeOK, Requests, Slots, VerifyReturns, Tell, Fail,
                 ContractStatuses
    <3> QED BY <3>1, <3>2, <3>3
  <2>2. CASE outcome'[r] \notin Grants
    BY <1>g, <2>1, <2>2, ValuesStutter
  <2>3. CASE outcome'[r] \in Grants
    <3>1. <<asked[r], outcome'[r]>> \in Kept
      BY <2>1, <2>3 DEF Kept
    <3>2. Entitled[r] = None /\ Mine[r] = None /\ r \notin Serving
      BY <1>g, <2>1 DEF Entitled, Mine, Serving
    <3>3. /\ Entitled' = [Entitled EXCEPT ![r] = <<asked[r], outcome'[r]>>]
          /\ Mine' = [Mine EXCEPT ![r] = None]
          /\ Serving' = Serving \ {r}
      BY <2>1, <2>3, OthersKeepTheirs
    <3>4. Mine' = Mine /\ Serving' = Serving
      BY <3>2, <3>3 DEF Mine, Serving
    <3>5. Values!Entitle(r, <<asked[r], outcome'[r]>>)
      BY <3>2, <3>3, <3>4 DEF Values!Entitle
    <3> QED BY <3>1, <3>5 DEF Values!ValueNext
  <2> QED BY <2>2, <2>3
<1>3. ASSUME NEW r \in Requests, RespondError(r)
      PROVE  UNCHANGED <<Entitled, Mine, Serving>>
  <2>1. /\ \A x \in Requests \ {r} : UNCHANGED Slots(x)
        /\ stage[r] = "verifying" /\ stage'[r] = "answered" /\ outcome' = outcome
        /\ outcome[r] \in ContractRefusals \cup Unfounded
    BY <1>3 DEF IInv, TypeOK, Slots, RespondError, Answer, contractUnchanged
  <2> QED BY <1>g, <2>1, ValuesStutter
<1>4. ASSUME NEW r \in Requests, Clone(r)
      PROVE  Values!Take(r)
  <2>1. asked[r] \in Accounts /\ outcome[r] \in Grants
    BY <1>4 DEF IInv, RequestFits, AskFits, Clone
  <2>2. Source(r) \in Kept /\ Source(r) \in Places /\ Source(r) # None
    BY <2>1, PlaceAssumption DEF Source, Kept, Places
  <2>3. /\ \A x \in Requests \ {r} : UNCHANGED Slots(x)
        /\ UNCHANGED <<asked, outcome>>
        /\ stage[r] = "verifying" /\ stage'[r] = "cloned" /\ ref'[r] = r
    BY <1>4 DEF IInv, TypeOK, Places, Slots, Clone, contractUnchanged
  <2>4. /\ object'[r] = [Built(Source(r)) EXCEPT !.list = r]
        /\ list'[r] = BuiltList(Source(r))
    <3>1. object[Source(r)] = Built(Source(r)) /\ list[Source(r)] = BuiltList(Source(r))
      BY <2>2 DEF IInv, Pristine
    <3>2. object[Source(r)].list = Source(r)
      BY <3>1 DEF Built
    <3> QED BY <1>4, <2>2, <3>1, <3>2 DEF IInv, TypeOK, Places, Clone
  <2>5. Contents(ref[r])' = BuiltValue(Source(r))
    BY <2>3, <2>4 DEF Contents, BuiltValue, Built
  <2>6. /\ Entitled[r] = Source(r) /\ Mine[r] = None /\ r \notin Serving
    BY <2>1, <2>3 DEF Entitled, Mine, Serving
  <2>7. /\ Entitled' = [Entitled EXCEPT ![r] = Source(r)]
        /\ Mine' = [Mine EXCEPT ![r] = BuiltValue(Source(r))]
        /\ Serving' = Serving \ {r}
    BY <2>1, <2>3, <2>5, OthersKeepTheirs DEF Source
  <2>8. Entitled' = Entitled /\ Serving' = Serving
    BY <2>6, <2>7 DEF Entitled, Serving
  <2> QED BY <2>2, <2>6, <2>7, <2>8 DEF Values!Take
<1>5. ASSUME NEW r \in Requests, Forbid(r)
      PROVE  Values!Withhold(r)
  <2>1. /\ \A x \in Requests \ {r} : UNCHANGED Slots(x)
        /\ UNCHANGED <<asked, outcome>>
        /\ stage[r] = "cloned" /\ stage'[r] = "answered"
    BY <1>5 DEF IInv, TypeOK, Slots, Forbid, Answer, contractUnchanged
  <2>2. Mine[r] # None /\ r \notin Serving
    BY <2>1, MineFacts DEF Serving
  <2>3. /\ Entitled' = [Entitled EXCEPT ![r] = Entitled[r]]
        /\ Mine' = [Mine EXCEPT ![r] = None]
        /\ Serving' = Serving \ {r}
    BY <2>1, OthersKeepTheirs DEF Entitled, Source
  <2>4. Entitled' = Entitled /\ Serving' = Serving
    BY <2>2, <2>3 DEF Entitled, Serving
  <2> QED BY <2>2, <2>3, <2>4 DEF Values!Withhold
<1>6. ASSUME NEW r \in Requests, BindSpace(r) \/ PassOn(r)
      PROVE  Values!HandOver(r)
  <2>0. stage[r] = "cloned" /\ ref[r] = r /\ object[r].list = r
    BY <1>6 DEF IInv, RequestFits, CopyFits, BindSpace, PassOn
  <2>1. /\ \A x \in Requests \ {r} : UNCHANGED Slots(x)
        /\ UNCHANGED <<asked, outcome, list, ref>>
        /\ stage'[r] = "serving"
    BY <1>6, <2>0 DEF IInv, TypeOK, Places, Slots, BindSpace, PassOn, Serve, contractUnchanged
  <2>2. /\ Mine[r] # None /\ r \notin Serving
        /\ Mine[r] = [kind |-> object[r].kind, context |-> object[r].context,
                      space |-> object[r].space, spaces |-> list[r]]
        /\ object[r] \in Objects /\ r \in DOMAIN object
    BY <2>0, MineFacts DEF Serving, IInv, TypeOK, Places
  <2>3. /\ Entitled' = [Entitled EXCEPT ![r] = Entitled[r]]
        /\ Mine' = [Mine EXCEPT ![r] = Contents(ref[r])']
        /\ Serving' = Serving \cup {r}
    BY <2>1, OthersKeepTheirs DEF Entitled, Source
  <2>4. Entitled' = Entitled
    BY <2>3 DEF Entitled
  <2>5. CASE PassOn(r)
    <3>1. Contents(ref[r])' = Mine[r]
      BY <2>0, <2>1, <2>2, <2>5 DEF PassOn, Contents
    <3>2. Mine' = Mine
      BY <2>3, <3>1 DEF Mine
    <3> QED BY <2>2, <2>3, <2>4, <3>2 DEF Values!HandOver
  <2>6. CASE BindSpace(r)
    <3>1. object'[r] = [object[r] EXCEPT !.space = sid[r]]
      BY <2>0, <2>2, <2>6 DEF BindSpace
    <3>2. Contents(ref[r])' = [Mine[r] EXCEPT !.space = sid[r]]
      <4>1. /\ object'[r].kind = object[r].kind /\ object'[r].context = object[r].context
            /\ object'[r].space = sid[r] /\ object'[r].list = r
        BY <2>0, <2>2, <3>1 DEF Objects
      <4> QED BY <2>0, <2>1, <2>2, <4>1 DEF Contents
    <3>3. sid[r] \in Spaces /\ Values!Bindable(Mine[r], sid[r])
      BY <2>0, <2>2, <2>6 DEF IInv, TypeOK, BindSpace, Enrichable, MayBind, ContextIs, Values!Bindable
    <3>4. Mine' = [Mine EXCEPT ![r] = [Mine[r] EXCEPT !.space = sid[r]]]
      BY <2>3, <3>2
    <3> QED BY <2>2, <2>3, <2>4, <3>3, <3>4 DEF Values!HandOver
  <2> QED BY <1>6, <2>5, <2>6
<1>7. ASSUME NEW r \in Requests, NEW s \in Spaces, HandlerWrites(r, s)
      PROVE  Values!Write(r, s)
  <2>0. stage[r] = "serving" /\ ref[r] = r /\ object[r].list = r
    BY <1>7 DEF IInv, RequestFits, CopyFits, HandlerWrites
  <2>1. /\ \A x \in Requests \ {r} : UNCHANGED Slots(x)
        /\ UNCHANGED <<asked, outcome, stage, ref>>
    BY <1>7, <2>0 DEF IInv, TypeOK, Places, Slots, HandlerWrites, contractUnchanged
  <2>2. /\ r \in Serving
        /\ Mine[r] = [kind |-> object[r].kind, context |-> object[r].context,
                      space |-> object[r].space, spaces |-> list[r]]
        /\ object[r] \in Objects /\ r \in DOMAIN object /\ r \in DOMAIN list
    BY <2>0, MineFacts DEF Serving, IInv, TypeOK, Places
  <2>3. /\ Entitled' = [Entitled EXCEPT ![r] = Entitled[r]]
        /\ Mine' = [Mine EXCEPT ![r] = Contents(ref[r])']
        /\ Serving' = Serving \cup {r}
    BY <2>0, <2>1, OthersKeepTheirs DEF Entitled, Source
  <2>4. Entitled' = Entitled /\ Serving' = Serving
    BY <2>2, <2>3 DEF Entitled
  <2>5. object'[r] = [object[r] EXCEPT !.space = s] /\ list'[r] = Spaces
    BY <1>7, <2>0, <2>2 DEF HandlerWrites
  <2>6. Contents(ref[r])' = Values!Overwritten(Mine[r], s)
    <3>1. /\ object'[r].kind = object[r].kind /\ object'[r].context = object[r].context
          /\ object'[r].space = s /\ object'[r].list = r
      BY <2>0, <2>2, <2>5 DEF Objects
    <3>2. Contents(ref[r])' = [kind |-> object[r].kind, context |-> object[r].context,
                               space |-> s, spaces |-> Spaces]
      BY <2>0, <2>1, <2>5, <3>1 DEF Contents
    <3>3. Values!Overwritten(Mine[r], s) = [kind |-> object[r].kind, context |-> object[r].context,
                                            space |-> s, spaces |-> Spaces]
      BY <2>2 DEF Values!Overwritten
    <3> QED BY <3>2, <3>3
  <2> QED BY <2>2, <2>3, <2>4, <2>6 DEF Values!Write
<1>8. ASSUME NEW r \in Requests, Finish(r)
      PROVE  Values!End(r)
  <2>1. /\ \A x \in Requests \ {r} : UNCHANGED Slots(x)
        /\ stage'[r] = "idle" /\ outcome'[r] = NoVerdict
    BY <1>8 DEF IInv, TypeOK, ContractTypeOK, Requests, Places, Slots, Finish, Forget, contractUnchanged
  <2>2. NoVerdict \notin Grants
    BY <1>g
  <2> QED BY <2>1, <2>2, OthersKeepTheirs DEF Values!End
<1>9. CASE \/ \E a \in Accounts, status \in ContractStatuses : AccountChanges(a, status)
           \/ TimePasses \/ UNCHANGED vars
  <2>1. UNCHANGED <<stage, ref, object, list, asked, outcome>>
    BY <1>9 DEF AccountChanges, Change, TimePasses, Pass, requestVars, vars
  <2> QED BY <2>1 DEF Entitled, Mine, Serving, Source, Contents
<1> QED
  BY <1>1, <1>2, <1>3, <1>4, <1>5, <1>6, <1>7, <1>8, <1>9
  DEF Next, Settles, Values!ValueNext

\* Shared objects behave as values of one's own: the Principal a handler works on
\* starts as what the verifier built for this request's verdict, changes by this
\* request's steps only, and is given no space but one it lists (Clone in
\* principal_clone.go, SpaceFromHeader in enrich.go).
THEOREM PrincipalsAreOwn == Spec => ActsOnValues
<1>1. Init => Values!ValueInit
  BY ContractAssumption
  DEF Init, ContractInit, Requests, Values!ValueInit, Entitled, Mine, Serving, Verdicts, ContractStatuses
<1>2. IInv /\ [Next]_vars => [Values!ValueNext]_(Values!valueVars)
  BY StepActsOnValues
<1> QED BY <1>1, <1>2, InductiveInvariant, PTL DEF Spec, ActsOnValues, Values!ValueSpec

\* Routing agrees with the checks beside it: a credential goes to the api-key realm
\* exactly when ValidateAPIKey accepts it, to the bot realm if ValidateBotToken
\* does, and only a reserved app_ token is refused by the verifier it is routed to
\* (classifyCredential in verifier.go, the validators in extract.go).
THEOREM RoutingAgrees ==
  ASSUME NEW raw \in Raws
  PROVE  /\ Classify(raw) = "apikey" <=> ValidAPIKey(raw)
         /\ ValidBotToken(raw) => Classify(raw) = "bot"
         /\ RefusedByChild(Classify(raw), raw) => raw.prefix = "app_"
<1>1. raw # Empty /\ raw.prefix \in {"uk_", "bf_", "app_", "none"}
  BY EmptyAssumption DEF Raws
<1>2. CASE raw.prefix = "uk_"
  BY <1>1, <1>2 DEF Classify, ValidAPIKey, ValidBotToken, RefusedByChild, BadCredential
<1>3. CASE raw.prefix \in {"bf_", "app_"}
  BY <1>1, <1>3 DEF Classify, ValidAPIKey, ValidBotToken, RefusedByChild
<1>4. CASE raw.prefix = "none"
  BY <1>1, <1>4 DEF Classify, ValidAPIKey, ValidBotToken, RefusedByChild
<1> QED BY <1>1, <1>2, <1>3, <1>4
=============================================================================
