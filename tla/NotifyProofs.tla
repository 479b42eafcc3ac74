---------------------------- MODULE NotifyProofs ----------------------------
(***************************************************************************)
(* Proofs about Notify, for any set of sends, secrets and clients: its     *)
(* type invariant, that the token stays with the configured host, that a   *)
(* call runs the consumer's handler at most once and succeeds only if it   *)
(* did, that no call is turned away without a cause, and that Notify       *)
(* implements Delivery.                                                    *)
(***************************************************************************)
EXTENDS Notify, TLAPS

\* How far a call has come fits what it has: an open call belongs to the running
\* client, only a settled one has an outcome, one that drains has a response.
StageFits(s) ==
  /\ stage[s] # "idle" => client # None /\ by[s] = client
  /\ stage[s] = "idle" => response[s] = None
  /\ stage[s] # "settled" <=> outcome[s] = None
  /\ stage[s] = "draining" => response[s] # None

Staged == \A s \in Sends : StageFits(s)

\* What is on the wire for a guarded call is its first request, to the configured
\* host, not yet handled and not yet answered.
WireFits(s) ==
  request[s] # None =>
    /\ response[s] = None
    /\ Guarded(s) => request[s].to = "configured" /\ handled[s] = 0

\* A request the consumer would turn away belongs to a call that saw the secrets
\* differ.
Disagree(s) ==
  (request[s] # None /\ tokenBytes # None /\ request[s].token # tokenBytes /\ Guarded(s))
    => parted[s]

\* A 200 for a guarded call comes from the handler.
OKWasHandled(s) ==
  (response[s] # None /\ response[s].status = 200 /\ Guarded(s)) => handled[s] > 0

\* The properties, one call at a time.
Stays(s) == Guarded(s) => "elsewhere" \notin reached[s]
Once(s) == Guarded(s) => handled[s] <= 1
Succeeded(s) == outcome[s] = "nil" /\ Guarded(s) => handled[s] > 0
Rejected(s) ==
  response[s] # None /\ response[s].status = 401 /\ Guarded(s) => parted[s]

CallFits(s) ==
  /\ WireFits(s) /\ Disagree(s) /\ OKWasHandled(s)
  /\ Stays(s) /\ Once(s) /\ Succeeded(s) /\ Rejected(s)

\* The inductive invariant.
IInv == TypeOK /\ Staged /\ \A s \in Sends : CallFits(s)

\* Every step keeps the state well-formed.
LEMMA StepType ==
  ASSUME TypeOK, Staged, [Next]_vars
  PROVE  TypeOK'
<1>1. ASSUME NEW p \in Processes, NEW v \in Secrets \cup {None}, SetEnv(p, v) PROVE TypeOK'
  BY <1>1
  DEF TypeOK, SetEnv, sendVars, Processes
<1>2. ASSUME NEW c \in Clients, StartProducer(c) PROVE TypeOK'
  BY <1>2, NoneAssumption, ClientAssumption
  DEF TypeOK, StartProducer, sendVars, Processes
<1>3. ASSUME StopProducer PROVE TypeOK'
  BY <1>3
  DEF TypeOK, StopProducer
<1>4. ASSUME StartConsumer PROVE TypeOK'
  BY <1>4
  DEF TypeOK, StartConsumer, Processes
<1>5. ASSUME StopConsumer PROVE TypeOK'
  BY <1>5
  DEF TypeOK, StopConsumer, sendVars
<1>6. ASSUME NEW s \in Sends, CallSend(s) PROVE TypeOK'
  BY <1>6, BoundAssumption
  DEF TypeOK, CallSend, processVars, Wired, Hosts
<1>7. ASSUME NEW s \in Sends, SendFails(s) PROVE TypeOK'
  BY <1>7
  DEF TypeOK, SendFails, Settle, processVars
<1>8. ASSUME NEW s \in Sends, FollowRedirect(s) PROVE TypeOK'
  BY <1>8, BoundAssumption, NoneAssumption
  DEF TypeOK, FollowRedirect, processVars, Staged, StageFits, Wired, Answered
<1>9. ASSUME NEW s \in Sends, DoReturns(s) PROVE TypeOK'
  BY <1>9
  DEF TypeOK, DoReturns, processVars
<1>10. ASSUME NEW s \in Sends, Drained(s) PROVE TypeOK'
  BY <1>10
  DEF TypeOK, Drained, Settle, processVars
<1>11. ASSUME NEW s \in Sends, Finish(s) PROVE TypeOK'
  BY <1>11
  DEF TypeOK, Finish, processVars
<1>12. ASSUME NEW s \in Sends, NEW status \in Codes, NEW host \in Hosts, Handle(s, status, host) PROVE TypeOK'
  BY <1>12
  DEF TypeOK, Handle, Reply, processVars, Wired, Answered, Codes, Hosts
<1>13. ASSUME NEW s \in Sends, Reject(s) PROVE TypeOK'
  BY <1>13
  DEF TypeOK, Reject, Reply, processVars, Wired, Answered, Codes, Hosts
<1>14. ASSUME NEW s \in Sends, NEW status \in Codes, NEW host \in Hosts, OthersAnswer(s, status, host) PROVE TypeOK'
  BY <1>14
  DEF TypeOK, OthersAnswer, Reply, processVars, Wired, Answered, Codes, Hosts
<1>15. ASSUME NEW s \in Sends, LoseRequest(s) PROVE TypeOK'
  BY <1>15
  DEF TypeOK, LoseRequest, processVars
<1>16. ASSUME NEW s \in Sends, LoseResponse(s) PROVE TypeOK'
  BY <1>16
  DEF TypeOK, LoseResponse, processVars
<1>17. CASE UNCHANGED vars
  BY <1>17 DEF TypeOK, vars, Guarded
<1>18. ASSUME NEW s \in Sends, TimeOut(s) PROVE TypeOK'
  BY <1>18, <1>7, <1>10 DEF TimeOut
<1> QED
  BY <1>1, <1>2, <1>3, <1>4, <1>5, <1>6, <1>7, <1>8, <1>9,
     <1>10, <1>11, <1>12, <1>13, <1>14, <1>15, <1>16, <1>17, <1>18
  DEF Next

\* Every step keeps calls and what they have together.
LEMMA StepStage ==
  ASSUME TypeOK, Staged, [Next]_vars
  PROVE  Staged'
<1>1. ASSUME NEW p \in Processes, NEW v \in Secrets \cup {None}, SetEnv(p, v) PROVE Staged'
  BY <1>1
  DEF TypeOK, Staged, StageFits, SetEnv, sendVars
<1>2. ASSUME NEW c \in Clients, StartProducer(c) PROVE Staged'
  BY <1>2, NoneAssumption, ClientAssumption
  DEF TypeOK, Staged, StageFits, StartProducer, sendVars
<1>3. ASSUME StopProducer PROVE Staged'
  BY <1>3
  DEF TypeOK, Staged, StageFits, StopProducer
<1>4. ASSUME StartConsumer PROVE Staged'
  BY <1>4
  DEF TypeOK, Staged, StageFits, StartConsumer
<1>5. ASSUME StopConsumer PROVE Staged'
  BY <1>5
  DEF TypeOK, Staged, StageFits, StopConsumer, sendVars
<1>6. ASSUME NEW s \in Sends, CallSend(s) PROVE Staged'
  BY <1>6
  DEF TypeOK, Staged, StageFits, CallSend, processVars
<1>7. ASSUME NEW s \in Sends, SendFails(s) PROVE Staged'
  BY <1>7, NoneAssumption
  DEF TypeOK, Staged, StageFits, SendFails, Settle, processVars
<1>8. ASSUME NEW s \in Sends, FollowRedirect(s) PROVE Staged'
  BY <1>8
  DEF TypeOK, Staged, StageFits, FollowRedirect, processVars
<1>9. ASSUME NEW s \in Sends, DoReturns(s) PROVE Staged'
  BY <1>9
  DEF TypeOK, Staged, StageFits, DoReturns, processVars
<1>10. ASSUME NEW s \in Sends, Drained(s) PROVE Staged'
  BY <1>10, NoneAssumption
  DEF TypeOK, Staged, StageFits, Drained, Settle, processVars
<1>11. ASSUME NEW s \in Sends, Finish(s) PROVE Staged'
  BY <1>11
  DEF TypeOK, Staged, StageFits, Finish, processVars
<1>12. ASSUME NEW s \in Sends, NEW status \in Codes, NEW host \in Hosts, Handle(s, status, host) PROVE Staged'
  BY <1>12, NoneAssumption
  DEF TypeOK, Staged, StageFits, Handle, Reply, processVars
<1>13. ASSUME NEW s \in Sends, Reject(s) PROVE Staged'
  BY <1>13, NoneAssumption
  DEF TypeOK, Staged, StageFits, Reject, Reply, processVars
<1>14. ASSUME NEW s \in Sends, NEW status \in Codes, NEW host \in Hosts, OthersAnswer(s, status, host) PROVE Staged'
  BY <1>14, NoneAssumption
  DEF TypeOK, Staged, StageFits, OthersAnswer, Reply, processVars
<1>15. ASSUME NEW s \in Sends, LoseRequest(s) PROVE Staged'
  BY <1>15
  DEF TypeOK, Staged, StageFits, LoseRequest, processVars
<1>16. ASSUME NEW s \in Sends, LoseResponse(s) PROVE Staged'
  BY <1>16
  DEF TypeOK, Staged, StageFits, LoseResponse, processVars
<1>17. CASE UNCHANGED vars
  BY <1>17 DEF Staged, StageFits, vars, Guarded
<1>18. ASSUME NEW s \in Sends, TimeOut(s) PROVE Staged'
  BY <1>18, <1>7, <1>10 DEF TimeOut
<1> QED
  BY <1>1, <1>2, <1>3, <1>4, <1>5, <1>6, <1>7, <1>8, <1>9,
     <1>10, <1>11, <1>12, <1>13, <1>14, <1>15, <1>16, <1>17, <1>18
  DEF Next

\* Every step keeps every call's promises: an action changes what it changes for
\* one call, or the processes under all of them.
LEMMA StepCalls ==
  ASSUME IInv, [Next]_vars, NEW x \in Sends
  PROVE  CallFits(x)'
<1>1. ASSUME NEW p \in Processes, NEW v \in Secrets \cup {None}, SetEnv(p, v) PROVE CallFits(x)'
  BY <1>1, NoneAssumption
  DEF IInv, CallFits, TypeOK, Guarded, SetEnv, sendVars, WireFits, Disagree,
      OKWasHandled, Stays, Once, Succeeded, Rejected
<1>2. ASSUME NEW c \in Clients, StartProducer(c) PROVE CallFits(x)'
  BY <1>2, NoneAssumption
  DEF IInv, CallFits, TypeOK, Guarded, StartProducer, sendVars, WireFits, Disagree,
      OKWasHandled, Stays, Once, Succeeded, Rejected
<1>3. ASSUME StopProducer PROVE CallFits(x)'
  <2>1. Succeeded(x)'
    BY <1>3, NoneAssumption
    DEF IInv, CallFits, TypeOK, StopProducer, Guarded, Succeeded
  <2>2. WireFits(x)' /\ Disagree(x)' /\ OKWasHandled(x)' /\ Stays(x)' /\
       Once(x)' /\ Rejected(x)'
    BY <1>3, NoneAssumption
    DEF IInv, CallFits, TypeOK, StopProducer, Guarded, WireFits, Disagree, OKWasHandled,
        Stays, Once, Rejected
  <2> QED BY <2>1, <2>2 DEF CallFits
<1>4. ASSUME StartConsumer PROVE CallFits(x)'
  <2>1. Disagree(x)'
    BY <1>4, NoneAssumption
    DEF IInv, CallFits, TypeOK, StartConsumer, Guarded, Disagree
  <2>2. WireFits(x)' /\ OKWasHandled(x)' /\ Stays(x)' /\ Once(x)' /\
       Succeeded(x)' /\ Rejected(x)'
    BY <1>4, NoneAssumption
    DEF IInv, CallFits, TypeOK, StartConsumer, Guarded, WireFits, OKWasHandled, Stays,
        Once, Succeeded, Rejected
  <2> QED BY <2>1, <2>2 DEF CallFits
<1>5. ASSUME StopConsumer PROVE CallFits(x)'
  <2>1. Disagree(x)'
    BY <1>5, NoneAssumption
    DEF IInv, CallFits, TypeOK, StopConsumer, sendVars, Guarded, Disagree
  <2>2. WireFits(x)' /\ OKWasHandled(x)' /\ Stays(x)' /\ Once(x)' /\
       Succeeded(x)' /\ Rejected(x)'
    BY <1>5, NoneAssumption
    DEF IInv, CallFits, TypeOK, StopConsumer, sendVars, Guarded, WireFits, OKWasHandled,
        Stays, Once, Succeeded, Rejected
  <2> QED BY <2>1, <2>2 DEF CallFits
<1>6. ASSUME NEW s \in Sends, CallSend(s) PROVE CallFits(x)'
  <2>1. WireFits(x)'
    BY <1>6, NoneAssumption
    DEF IInv, CallFits, TypeOK, CallSend, processVars, Guarded, WireFits, Staged,
        StageFits
  <2>2. Disagree(x)'
    <3>1. CASE x = s
      <4>1. request'[x] # None => request'[x].token = token
        BY <1>6, <3>1, NoneAssumption DEF CallSend, IInv, TypeOK, Wired
      <4>2. parted'[x] = (tokenBytes # None /\ tokenBytes # token)
        BY <1>6, <3>1 DEF CallSend, IInv, TypeOK
      <4>3. tokenBytes' = tokenBytes
        BY <1>6 DEF CallSend, processVars
      <4> QED BY <4>1, <4>2, <4>3, Zenon DEF Disagree
    <3>2. CASE x # s
      <4>1. request'[x] = request[x] /\ parted'[x] = parted[x] /\ by'[x] = by[x]
        BY <1>6, <3>2 DEF CallSend, IInv, TypeOK
      <4>2. tokenBytes' = tokenBytes /\ Disagree(x)
        BY <1>6 DEF CallSend, processVars, IInv, CallFits
      <4> QED BY <4>1, <4>2 DEF Disagree, Guarded
    <3> QED BY <3>1, <3>2
  <2>3. OKWasHandled(x)' /\ Stays(x)' /\ Once(x)' /\ Succeeded(x)' /\
       Rejected(x)'
    BY <1>6, NoneAssumption
    DEF IInv, CallFits, TypeOK, CallSend, processVars, Guarded, Staged, StageFits,
        OKWasHandled, Stays, Once, Succeeded, Rejected
  <2> QED BY <2>1, <2>2, <2>3 DEF CallFits
<1>7. ASSUME NEW s \in Sends, SendFails(s) PROVE CallFits(x)'
  <2>1. Succeeded(x)'
    BY <1>7, NoneAssumption
    DEF IInv, CallFits, TypeOK, SendFails, Settle, processVars, Guarded, Succeeded
  <2>2. WireFits(x)' /\ Disagree(x)' /\ OKWasHandled(x)' /\ Stays(x)' /\
       Once(x)' /\ Rejected(x)'
    BY <1>7, NoneAssumption
    DEF IInv, CallFits, TypeOK, SendFails, Settle, processVars, Guarded, WireFits,
        Disagree, OKWasHandled, Stays, Once, Rejected
  <2> QED BY <2>1, <2>2 DEF CallFits
<1>8. ASSUME NEW s \in Sends, FollowRedirect(s) PROVE CallFits(x)'
  <2>1. WireFits(x)'
    BY <1>8, NoneAssumption
    DEF IInv, CallFits, TypeOK, FollowRedirect, processVars, Guarded, WireFits, Staged,
        StageFits, Follows
  <2>2. Disagree(x)'
    BY <1>8, NoneAssumption
    DEF IInv, CallFits, TypeOK, FollowRedirect, processVars, Guarded, Disagree, Staged,
        StageFits, Follows
  <2>3. OKWasHandled(x)' /\ Stays(x)' /\ Once(x)' /\ Succeeded(x)' /\
       Rejected(x)'
    BY <1>8, NoneAssumption
    DEF IInv, CallFits, TypeOK, FollowRedirect, processVars, Guarded, OKWasHandled,
        Stays, Once, Succeeded, Rejected
  <2> QED BY <2>1, <2>2, <2>3 DEF CallFits
<1>9. ASSUME NEW s \in Sends, DoReturns(s) PROVE CallFits(x)'
  BY <1>9, NoneAssumption
  DEF IInv, CallFits, TypeOK, Guarded, DoReturns, processVars, WireFits, Disagree,
      OKWasHandled, Stays, Once, Succeeded, Rejected
<1>10. ASSUME NEW s \in Sends, Drained(s) PROVE CallFits(x)'
  <2>1. Succeeded(x)'
    BY <1>10, NoneAssumption
    DEF IInv, CallFits, TypeOK, Drained, Settle, processVars, Guarded, Succeeded,
        OKWasHandled, Succeeds, Staged, StageFits, Answered, Codes
  <2>2. WireFits(x)' /\ Disagree(x)' /\ OKWasHandled(x)' /\ Stays(x)' /\
       Once(x)' /\ Rejected(x)'
    BY <1>10, NoneAssumption
    DEF IInv, CallFits, TypeOK, Drained, Settle, processVars, Guarded, WireFits,
        Disagree, OKWasHandled, Stays, Once, Rejected
  <2> QED BY <2>1, <2>2 DEF CallFits
<1>11. ASSUME NEW s \in Sends, Finish(s) PROVE CallFits(x)'
  <2>1. Succeeded(x)'
    BY <1>11, NoneAssumption
    DEF IInv, CallFits, TypeOK, Finish, processVars, Guarded, Succeeded
  <2>2. WireFits(x)' /\ Disagree(x)' /\ OKWasHandled(x)' /\ Stays(x)' /\
       Once(x)' /\ Rejected(x)'
    BY <1>11, NoneAssumption
    DEF IInv, CallFits, TypeOK, Finish, processVars, Guarded, WireFits, Disagree,
        OKWasHandled, Stays, Once, Rejected
  <2> QED BY <2>1, <2>2 DEF CallFits
<1>12. ASSUME NEW s \in Sends, NEW status \in Codes, NEW host \in Hosts, Handle(s, status, host) PROVE CallFits(x)'
  <2>1. OKWasHandled(x)'
    BY <1>12, NoneAssumption
    DEF IInv, CallFits, TypeOK, Handle, Reply, processVars, Guarded, OKWasHandled
  <2>2. Stays(x)'
    BY <1>12, NoneAssumption
    DEF IInv, CallFits, TypeOK, Handle, Reply, processVars, Guarded, Stays, WireFits
  <2>3. Once(x)'
    BY <1>12, NoneAssumption
    DEF IInv, CallFits, TypeOK, Handle, Reply, processVars, Guarded, Once, WireFits
  <2>4. Rejected(x)'
    BY <1>12, NoneAssumption
    DEF IInv, CallFits, TypeOK, Handle, Reply, processVars, Guarded, Rejected
  <2>5. WireFits(x)' /\ Disagree(x)' /\ Succeeded(x)'
    BY <1>12, NoneAssumption
    DEF IInv, CallFits, TypeOK, Handle, Reply, processVars, Guarded, WireFits, Disagree,
        Succeeded
  <2> QED BY <2>1, <2>2, <2>3, <2>4, <2>5 DEF CallFits
<1>13. ASSUME NEW s \in Sends, Reject(s) PROVE CallFits(x)'
  <2>1. OKWasHandled(x)'
    BY <1>13, NoneAssumption
    DEF IInv, CallFits, TypeOK, Reject, Reply, processVars, Guarded, OKWasHandled
  <2>2. Stays(x)'
    BY <1>13, NoneAssumption
    DEF IInv, CallFits, TypeOK, Reject, Reply, processVars, Guarded, Stays, WireFits
  <2>3. Rejected(x)'
    BY <1>13, NoneAssumption
    DEF IInv, CallFits, TypeOK, Reject, Reply, processVars, Guarded, Rejected, Disagree,
        Authentic
  <2>4. WireFits(x)' /\ Disagree(x)' /\ Once(x)' /\ Succeeded(x)'
    BY <1>13, NoneAssumption
    DEF IInv, CallFits, TypeOK, Reject, Reply, processVars, Guarded, WireFits, Disagree,
        Once, Succeeded
  <2> QED BY <2>1, <2>2, <2>3, <2>4 DEF CallFits
<1>14. ASSUME NEW s \in Sends, NEW status \in Codes, NEW host \in Hosts, OthersAnswer(s, status, host) PROVE CallFits(x)'
  <2>1. OKWasHandled(x)'
    BY <1>14, NoneAssumption
    DEF IInv, CallFits, TypeOK, OthersAnswer, Reply, processVars, Guarded, OKWasHandled,
        WireFits
  <2>2. Stays(x)'
    BY <1>14, NoneAssumption
    DEF IInv, CallFits, TypeOK, OthersAnswer, Reply, processVars, Guarded, Stays,
        WireFits
  <2>3. Rejected(x)'
    BY <1>14, NoneAssumption
    DEF IInv, CallFits, TypeOK, OthersAnswer, Reply, processVars, Guarded, Rejected,
        WireFits
  <2>4. WireFits(x)' /\ Disagree(x)' /\ Once(x)' /\ Succeeded(x)'
    BY <1>14, NoneAssumption
    DEF IInv, CallFits, TypeOK, OthersAnswer, Reply, processVars, Guarded, WireFits,
        Disagree, Once, Succeeded
  <2> QED BY <2>1, <2>2, <2>3, <2>4 DEF CallFits
<1>15. ASSUME NEW s \in Sends, LoseRequest(s) PROVE CallFits(x)'
  BY <1>15, NoneAssumption
  DEF IInv, CallFits, TypeOK, Guarded, LoseRequest, processVars, WireFits, Disagree,
      OKWasHandled, Stays, Once, Succeeded, Rejected
<1>16. ASSUME NEW s \in Sends, LoseResponse(s) PROVE CallFits(x)'
  BY <1>16, NoneAssumption
  DEF IInv, CallFits, TypeOK, Guarded, LoseResponse, processVars, WireFits, Disagree,
      OKWasHandled, Stays, Once, Succeeded, Rejected
<1>17. CASE UNCHANGED vars
  BY <1>17 DEF IInv, CallFits, WireFits, Disagree, OKWasHandled, Stays, Once, Succeeded, Rejected, vars, Guarded
<1>18. ASSUME NEW s \in Sends, TimeOut(s) PROVE CallFits(x)'
  BY <1>18, <1>7, <1>10 DEF TimeOut
<1> QED
  BY <1>1, <1>2, <1>3, <1>4, <1>5, <1>6, <1>7, <1>8, <1>9,
     <1>10, <1>11, <1>12, <1>13, <1>14, <1>15, <1>16, <1>17, <1>18
  DEF Next

----------------------------------------------------------------------------
(* Send delivers once. *)

\* What a call promises rests on these.
Slots(x) == <<stage[x], request[x], outcome[x], handled[x], by[x]>>

\* A step of one call leaves what the others promise.
LEMMA OthersStay ==
  ASSUME NEW s \in Sends, \A x \in Sends \ {s} : UNCHANGED Slots(x)
  PROVE  /\ Call' = [Call EXCEPT ![s] = Call'[s]]
         /\ Travelling' = IF s \in Travelling' THEN Travelling \cup {s} ELSE Travelling \ {s}
         /\ Ran' = IF s \in Ran' THEN Ran \cup {s} ELSE Ran \ {s}
<1>1. ASSUME NEW x \in Sends \ {s}
      PROVE  /\ Call'[x] = Call[x] /\ (x \in Travelling' <=> x \in Travelling)
             /\ (x \in Ran' <=> x \in Ran)
  <2>1. /\ stage'[x] = stage[x] /\ request'[x] = request[x] /\ outcome'[x] = outcome[x]
        /\ handled'[x] = handled[x] /\ by'[x] = by[x]
    BY <1>1 DEF Slots
  <2>2. Guarded(x)' = Guarded(x)
    BY <2>1 DEF Guarded
  <2> QED BY <2>1, <2>2 DEF Call, Travelling, Ran
<1>2. DOMAIN Call = Sends /\ Call' = [x \in Sends |-> Call'[x]]
  BY DEF Call
<1>3. /\ Travelling \subseteq Sends /\ Travelling' \subseteq Sends
      /\ Ran \subseteq Sends /\ Ran' \subseteq Sends
  BY DEF Travelling, Ran
<1>4. Call' = [Call EXCEPT ![s] = Call'[s]]
  BY <1>1, <1>2
<1>5. Travelling' = IF s \in Travelling' THEN Travelling \cup {s} ELSE Travelling \ {s}
  BY <1>1, <1>3
<1>6. Ran' = IF s \in Ran' THEN Ran \cup {s} ELSE Ran \ {s}
  BY <1>1, <1>3
<1> QED BY <1>4, <1>5, <1>6

\* A step that leaves s's own part alone leaves the whole.
LEMMA SameForAll ==
  ASSUME NEW s \in Sends, \A x \in Sends \ {s} : UNCHANGED Slots(x)
  PROVE  /\ Call'[s] = Call[s] => Call' = Call
         /\ (s \in Travelling' <=> s \in Travelling) => Travelling' = Travelling
         /\ (s \in Ran' <=> s \in Ran) => Ran' = Ran
<1>1. ASSUME Call'[s] = Call[s] PROVE Call' = Call
  <2>1. Call' = [Call EXCEPT ![s] = Call[s]]
    BY <1>1, OthersStay
  <2>2. Call = [x \in DOMAIN Call |-> Call[x]]
    BY DEF Call
  <2> QED BY <2>1, <2>2
<1>2. (s \in Travelling' <=> s \in Travelling) => Travelling' = Travelling
  BY OthersStay
<1>3. (s \in Ran' <=> s \in Ran) => Ran' = Ran
  BY OthersStay
<1> QED BY <1>1, <1>2, <1>3

\* The answer to a notification ends its journey, and the handler ran or did not.
LEMMA ReplyDelivers ==
  ASSUME IInv, NEW s \in Sends, NEW status \in Codes, NEW host \in Hosts,
         request[s] # None, Reply(s, status, host),
         \/ handled' = handled
         \/ handled' = [handled EXCEPT ![s] = @ + 1]
  PROVE  \/ Deliveries!Run(s) \/ Deliveries!Drop(s)
         \/ UNCHANGED <<Call, Travelling, Ran>>
<1>1. /\ \A x \in Sends \ {s} : UNCHANGED Slots(x)
      /\ request'[s] = None /\ stage' = stage /\ outcome' = outcome /\ by' = by
      /\ handled'[s] \in {handled[s], handled[s] + 1} /\ handled[s] \in Nat
  BY DEF IInv, TypeOK, Reply, Slots
<1>2. Call'[s] = Call[s] /\ Guarded(s)' = Guarded(s)
  BY <1>1 DEF Call, Guarded
<1>3. Call' = Call
  BY <1>1, <1>2, SameForAll
<1>4. CASE ~Guarded(s)
  <2>1. s \notin Travelling /\ s \notin Travelling' /\ s \notin Ran /\ s \notin Ran'
    BY <1>2, <1>4 DEF Travelling, Ran
  <2> QED BY <1>1, <1>3, <2>1, SameForAll
<1>5. CASE Guarded(s)
  <2>1. s \in Travelling /\ s \notin Travelling' /\ s \notin Ran
    BY <1>1, <1>2, <1>5 DEF Travelling, Ran, IInv, CallFits, WireFits
  <2>2. Travelling' = Travelling \ {s}
    BY <1>1, <2>1, OthersStay
  <2>3. CASE s \in Ran'
    <3>1. Ran' = Ran \cup {s}
      BY <1>1, <2>3, OthersStay
    <3> QED BY <1>3, <2>1, <2>2, <3>1 DEF Deliveries!Run
  <2>4. CASE s \notin Ran'
    <3>1. Ran' = Ran
      BY <1>1, <2>1, <2>4, SameForAll
    <3> QED BY <1>3, <2>1, <2>2, <3>1 DEF Deliveries!Drop
  <2> QED BY <2>3, <2>4
<1> QED BY <1>4, <1>5

\* Settling a guarded call returns its result; nil needs the handler to have run.
LEMMA SettleReturns ==
  ASSUME IInv, NEW s \in Sends, NEW res \in {"nil", "error"}, stage[s] \in {"sending", "draining"},
         Settle(s, res), UNCHANGED <<request, handled, by>>,
         res = "nil" /\ Guarded(s) => handled[s] > 0
  PROVE  Deliveries!Return(s, res) \/ UNCHANGED <<Call, Travelling, Ran>>
<1>1. /\ \A x \in Sends \ {s} : UNCHANGED Slots(x)
      /\ stage'[s] = "settled" /\ outcome'[s] = res
  BY DEF IInv, TypeOK, Settle, Slots
<1>2. Guarded(s)' = Guarded(s)
  BY DEF Guarded
<1>3. (s \in Travelling' <=> s \in Travelling) /\ (s \in Ran' <=> s \in Ran)
  BY <1>2 DEF Travelling, Ran
<1>4. Travelling' = Travelling /\ Ran' = Ran
  BY <1>1, <1>3, SameForAll
<1>5. CASE ~Guarded(s)
  <2>1. Call'[s] = Call[s]
    BY <1>2, <1>5 DEF Call
  <2> QED BY <1>1, <1>4, <2>1, SameForAll
<1>6. CASE Guarded(s)
  <2>1. Call[s] = "open" /\ Call'[s] = res
    BY <1>1, <1>2, <1>6 DEF Call
  <2>2. Call' = [Call EXCEPT ![s] = res]
    BY <1>1, <2>1, OthersStay
  <2>3. res = "nil" => s \in Ran
    BY <1>6 DEF Ran
  <2> QED BY <1>4, <2>1, <2>2, <2>3 DEF Deliveries!Return
<1> QED BY <1>5, <1>6

\* Every step is one of the contract's, or none.
LEMMA StepDelivers ==
  ASSUME IInv, [Next]_vars
  PROVE  [Deliveries!DeliveryNext]_(Deliveries!deliveryVars)
<1> DEFINE Stutters == UNCHANGED <<Call, Travelling, Ran>>
           Steps(s) == \/ Deliveries!Send(s) \/ Deliveries!Run(s) \/ Deliveries!Drop(s)
                       \/ Deliveries!Finished(s) \/ Deliveries!Reuse(s)
                       \/ \E res \in {"nil", "error"} : Deliveries!Return(s, res)
<1>1. ASSUME UNCHANGED <<stage, request, outcome, handled, by>>
      PROVE  Stutters
  BY <1>1 DEF Call, Travelling, Ran, Guarded
<1>2. ASSUME \/ \E p \in Processes, v \in Secrets \cup {None} : SetEnv(p, v)
             \/ \E c \in Clients : StartProducer(c)
             \/ StartConsumer \/ StopConsumer \/ UNCHANGED vars
      PROVE  Stutters
  <2>1. UNCHANGED <<stage, request, outcome, handled, by>>
    BY <1>2 DEF SetEnv, StartProducer, StartConsumer, StopConsumer, vars, sendVars
  <2> QED BY <1>1, <2>1
<1>3. ASSUME StopProducer
      PROVE  Deliveries!Stop
  BY <1>3 DEF StopProducer, Deliveries!Stop, Call, Travelling, Ran, Guarded
<1>4. ASSUME NEW s \in Sends, CallSend(s)
      PROVE  Steps(s)
  <2>1. /\ \A x \in Sends \ {s} : UNCHANGED Slots(x)
        /\ stage[s] = "idle" /\ request[s] = None /\ stage'[s] = "sending"
        /\ request'[s] = [to |-> "configured", token |-> token] /\ handled'[s] = 0
    BY <1>4 DEF IInv, TypeOK, CallSend, Slots
  <2>2. request'[s] # None
    BY <1>4, <2>1, WireAssumption DEF IInv, TypeOK, CallSend, Wired, Hosts
  <2>3. Call[s] = "none" /\ s \notin Travelling /\ s \notin Ran'
    BY <2>1 DEF Call, Travelling, Ran
  <2>4. Ran' = Ran \ {s}
    BY <2>1, <2>3, OthersStay
  <2>5. CASE Guarded(s)'
    <3>1. Call'[s] = "open" /\ s \in Travelling'
      BY <2>1, <2>2, <2>5 DEF Call, Travelling
    <3>2. Call' = [Call EXCEPT ![s] = "open"] /\ Travelling' = Travelling \cup {s}
      BY <2>1, <3>1, OthersStay
    <3> QED BY <2>3, <2>4, <3>2 DEF Deliveries!Send
  <2>6. CASE ~Guarded(s)'
    <3>1. Call'[s] = "none" /\ s \notin Travelling'
      BY <2>6 DEF Call, Travelling
    <3>2. Call' = Call /\ Travelling' = Travelling
      BY <2>1, <2>3, <3>1, SameForAll
    <3> QED BY <2>3, <2>4, <3>2 DEF Deliveries!Reuse
  <2> QED BY <2>5, <2>6
<1>5. ASSUME NEW s \in Sends, SendFails(s)
      PROVE  Steps(s) \/ Stutters
  BY <1>5, SettleReturns DEF SendFails
<1>6. ASSUME NEW s \in Sends, Drained(s)
      PROVE  Steps(s) \/ Stutters
  <2>1. Succeeds(response[s].status) /\ Guarded(s) => handled[s] > 0
    BY <1>6 DEF IInv, TypeOK, Staged, StageFits, CallFits, OKWasHandled, Drained, Succeeds,
       Answered, Codes
  <2>2. PICK res \in {"nil", "error"} :
          /\ Settle(s, res) /\ (res = "nil" => Succeeds(response[s].status))
    BY <1>6 DEF Drained
  <2> QED BY <1>6, <2>1, <2>2, SettleReturns DEF Drained
<1>7. ASSUME NEW s \in Sends, FollowRedirect(s)
      PROVE  Stutters
  <2>1. /\ \A x \in Sends \ {s} : UNCHANGED Slots(x)
        /\ UNCHANGED <<stage, outcome, handled, by>>
    BY <1>7 DEF IInv, TypeOK, FollowRedirect, Slots
  <2>2. ~Guarded(s) /\ ~Guarded(s)'
    BY <1>7, <2>1 DEF IInv, Staged, StageFits, FollowRedirect, Follows, Guarded
  <2>3. /\ Call'[s] = Call[s] /\ s \notin Travelling /\ s \notin Travelling'
        /\ s \notin Ran /\ s \notin Ran'
    BY <2>2 DEF Call, Travelling, Ran
  <2> QED BY <2>1, <2>3, SameForAll
<1>8. ASSUME NEW s \in Sends, DoReturns(s)
      PROVE  Stutters
  <2>1. /\ \A x \in Sends \ {s} : UNCHANGED Slots(x)
        /\ stage[s] = "sending" /\ stage'[s] = "draining"
        /\ UNCHANGED <<request, outcome, handled, by>>
    BY <1>8 DEF IInv, TypeOK, DoReturns, Slots
  <2>2. Guarded(s)' = Guarded(s)
    BY <2>1 DEF Guarded
  <2>3. /\ Call'[s] = Call[s] /\ (s \in Travelling' <=> s \in Travelling)
        /\ (s \in Ran' <=> s \in Ran)
    BY <2>1, <2>2 DEF Call, Travelling, Ran
  <2> QED BY <2>1, <2>3, SameForAll
<1>9. ASSUME NEW s \in Sends, Finish(s)
      PROVE  Steps(s) \/ Stutters
  <2>1. /\ \A x \in Sends \ {s} : UNCHANGED Slots(x)
        /\ stage[s] = "settled" /\ stage'[s] = "idle"
        /\ UNCHANGED <<request, handled, by>>
    BY <1>9 DEF IInv, TypeOK, Finish, Slots
  <2>2. Guarded(s)' = Guarded(s)
    BY <2>1 DEF Guarded
  <2>3. Travelling' = Travelling /\ Ran' = Ran
    BY <2>1, <2>2, SameForAll DEF Travelling, Ran
  <2>4. Call'[s] = "none" /\ Call' = [Call EXCEPT ![s] = "none"]
    <3>1. Call'[s] = "none"
      BY <2>1 DEF Call
    <3> QED BY <2>1, <3>1, OthersStay
  <2>5. CASE Call[s] \in {"nil", "error"}
    BY <2>3, <2>4, <2>5 DEF Deliveries!Finished
  <2>6. CASE Call[s] \notin {"nil", "error"}
    <3>1. Call'[s] = Call[s]
      BY <2>1, <2>4, <2>6 DEF IInv, TypeOK, Staged, StageFits, Call
    <3> QED BY <2>1, <2>3, <3>1, SameForAll
  <2> QED BY <2>5, <2>6
<1>10. ASSUME NEW s \in Sends, NEW status \in Codes, NEW host \in Hosts,
              Handle(s, status, host) \/ OthersAnswer(s, status, host)
       PROVE  Steps(s) \/ Stutters
  BY <1>10, ReplyDelivers DEF Handle, OthersAnswer
<1>11. ASSUME NEW s \in Sends, Reject(s)
       PROVE  Steps(s) \/ Stutters
  <2>1. 401 \in Codes /\ "configured" \in Hosts
    BY DEF Codes, Hosts
  <2> QED BY <1>11, <2>1, ReplyDelivers DEF Reject
<1>12. ASSUME NEW s \in Sends, LoseRequest(s)
       PROVE  Steps(s) \/ Stutters
  <2>1. /\ \A x \in Sends \ {s} : UNCHANGED Slots(x)
        /\ request[s] # None /\ request'[s] = None
        /\ UNCHANGED <<stage, outcome, handled, by>>
    BY <1>12 DEF IInv, TypeOK, LoseRequest, Slots
  <2>2. Guarded(s)' = Guarded(s) /\ s \notin Travelling'
    BY <2>1 DEF Guarded, Travelling
  <2>3. Call' = Call /\ Ran' = Ran
    BY <2>1, <2>2, SameForAll DEF Call, Ran
  <2>4. CASE s \in Travelling
    <3>1. Travelling' = Travelling \ {s}
      BY <2>1, <2>2, OthersStay
    <3> QED BY <2>3, <2>4, <3>1 DEF Deliveries!Drop
  <2>5. CASE s \notin Travelling
    BY <2>1, <2>2, <2>3, <2>5, SameForAll
  <2> QED BY <2>4, <2>5
<1>13. ASSUME NEW s \in Sends, LoseResponse(s)
       PROVE  Stutters
  <2>1. UNCHANGED <<stage, request, outcome, handled, by>>
    BY <1>13 DEF LoseResponse
  <2> QED BY <1>1, <2>1
<1>14. ASSUME NEW s \in Sends, TimeOut(s)
       PROVE  Steps(s) \/ Stutters
  BY <1>5, <1>6, <1>14 DEF TimeOut
<1>15. (\E s \in Sends : Steps(s)) \/ Deliveries!Stop \/ Stutters
  <2> HIDE DEF Steps, Stutters
  <2>1. CASE \E s \in Sends, status \in Codes, host \in Hosts :
               Handle(s, status, host) \/ OthersAnswer(s, status, host)
    BY <1>10, <2>1
  <2>2. CASE \E s \in Sends :
               \/ CallSend(s) \/ SendFails(s) \/ FollowRedirect(s) \/ DoReturns(s)
               \/ Drained(s) \/ TimeOut(s) \/ Finish(s)
               \/ Reject(s) \/ LoseRequest(s) \/ LoseResponse(s)
    BY <1>4, <1>5, <1>6, <1>7, <1>8, <1>9, <1>11, <1>12, <1>13, <1>14, <2>2
  <2> QED BY <1>2, <1>3, <2>1, <2>2 DEF Next
<1> QED BY <1>15 DEF Deliveries!DeliveryNext, Deliveries!deliveryVars

\* The initial state satisfies the invariant.
LEMMA StartHolds ==
  ASSUME Init
  PROVE  IInv
<1>1. TypeOK
  BY BoundAssumption DEF Init, TypeOK, Processes
<1>2. Staged
  BY NoneAssumption DEF Init, Staged, StageFits
<1>3. \A s \in Sends : CallFits(s)
  BY NoneAssumption DEF Init, CallFits, WireFits, Disagree, OKWasHandled, Stays, Once,
     Succeeded, Rejected, Guarded
<1> QED BY <1>1, <1>2, <1>3 DEF IInv

\* Every step keeps the invariant.
LEMMA StepHolds ==
  ASSUME IInv, [Next]_vars
  PROVE  IInv'
<1>1. TypeOK'
  BY StepType DEF IInv
<1>2. Staged'
  BY StepStage DEF IInv
<1>3. \A s \in Sends : CallFits(s)'
  BY StepCalls
<1> QED BY <1>1, <1>2, <1>3 DEF IInv

\* The invariant holds throughout.
THEOREM InductiveInvariant == Spec => []IInv
BY StartHolds, StepHolds, PTL DEF Spec

\* The state is always well-formed: in particular no NotifyClient exists without a
\* token (NewNotifyClient).
THEOREM TypeCorrect == Spec => []TypeOK
<1>1. IInv => TypeOK
  BY DEF IInv
<1> QED BY <1>1, InductiveInvariant, PTL

\* The token reaches no host but the configured one, whatever the client supplied
\* and whoever redirects, unless the application brought its own policy.
THEOREM TokenNeverStrays == Spec => []TokenStays
<1>1. IInv => TokenStays
  BY DEF IInv, CallFits, Stays, TokenStays
<1> QED BY <1>1, InductiveInvariant, PTL

\* A call runs the consumer's handler at most once.
THEOREM HandledAtMostOnce == Spec => []HandledOnce
<1>1. IInv => HandledOnce
  BY DEF IInv, CallFits, Once, HandledOnce
<1> QED BY <1>1, InductiveInvariant, PTL

\* A call returns nil only if the consumer's handler ran for it.
THEOREM SuccessIsTrue == Spec => []SuccessWasHandled
<1>1. IInv => SuccessWasHandled
  BY DEF IInv, CallFits, Succeeded, SuccessWasHandled
<1> QED BY <1>1, InductiveInvariant, PTL

\* A 401 means that the two processes held different secrets during the call.
THEOREM RejectionHasCause == Spec => []RejectedForCause
<1>1. IInv => RejectedForCause
  BY DEF IInv, CallFits, Rejected, RejectedForCause
<1> QED BY <1>1, InductiveInvariant, PTL


\* Whatever redirects, proxies, losses and restarts do, a call is one notification:
\* it travels once, runs the handler at most once, and is reported delivered only if
\* it did.
THEOREM SendDeliversOnce == Spec => DeliversOnce
<1>1. Init => Deliveries!DeliveryInit
  BY DEF Init, Deliveries!DeliveryInit, Call, Travelling, Ran, Guarded
<1>2. IInv /\ [Next]_vars => [Deliveries!DeliveryNext]_(Deliveries!deliveryVars)
  BY StepDelivers
<1> QED BY <1>1, <1>2, InductiveInvariant, PTL DEF Spec, DeliversOnce, Deliveries!DeliverySpec
=============================================================================
