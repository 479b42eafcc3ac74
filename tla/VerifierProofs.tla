--------------------------- MODULE VerifierProofs ---------------------------
(***************************************************************************)
(* Proofs about Verifier, for any number of calls, credentials and         *)
(* instances and any ttls, timeout and lag: its type invariant, and, when  *)
(* the request timeout covers the body, the revocation window.             *)
(***************************************************************************)
EXTENDS Verifier, TLAPS

\* applyDefaults leaves no ttl that the Cache would take for "no expiry".
LEMMA TimeFacts ==
  /\ TTL \in [Realms -> Nat \ {0}] /\ NegativeTTL \in Nat \ {0}
  /\ Timeout \in Nat /\ Lag \in Nat /\ Horizon \in Nat
  /\ LongAgo \in Int /\ LongAgo < 0
  <1>1. ASSUME NEW ttl \in Int, NEW default \in Nat \ {0}
        PROVE  Defaulted(ttl, default) \in Nat \ {0}
    BY DEF Defaulted
  <1> QED
    BY <1>1, TimeAssumption DEF TTL, NegativeTTL

\* What Verify stores expires.
LEMMA DeadlineIs ==
  ASSUME NEW ttl \in Nat \ {0}, now \in Nat
  PROVE  Deadline(ttl) = now + ttl
  BY DEF Deadline

\* The values finalize stores, and their ttls, are as CacheContract expects.
LEMMA TtlType == TtlOf \in [Outcomes -> Nat]
  BY TimeFacts, SMT DEF TtlOf, Outcomes, Principals, Errors

\* A call's two keys are keys of the cache.
LEMMA KeyType ==
  ASSUME NEW i \in Instances, NEW c \in Creds
  PROVE  /\ PosKey(i, c) \in Keys
         /\ NegKey(i, c) \in Keys
         /\ PosKey(i, c).realm = Realm[i]
         /\ PosKey(i, c).base = c
  <1>1. PosKey(i, c) \in Keys
    BY InstanceAssumption DEF PosKey, Keys, CtxTag, Tags, Realms
  <1>2. ASSUME NegOf[c] # None
        PROVE  PosKey(i, NegOf[c]) \in Keys
    BY <1>2, InstanceAssumption, NegOfAssumption DEF PosKey, Keys, CtxTag, Tags, Realms
  <1>3. [PosKey(i, c) EXCEPT !.neg = TRUE] \in Keys
    BY <1>1 DEF Keys
  <1> QED
    BY <1>1, <1>2, <1>3 DEF NegKey, PosKey

\* What the cache's operations preserve of its own types.
LEMMA GetType ==
  ASSUME TypeOK, NEW v \in Calls, NEW k \in Keys, Store!Get(v, k)
  PROVE  /\ Store!ContractTypeOK'
         /\ reply'[v] \in Outcomes \cup {Miss}
  <1> USE DEF TypeOK, Store!ContractTypeOK
  <1>1. CASE Store!GetHit(v, k)
    BY <1>1 DEF Store!GetHit, Store!Readable, Store!Entries
  <1>2. CASE Store!GetMiss(v, k)
    BY <1>2 DEF Store!GetMiss
  <1> QED
    BY <1>1, <1>2 DEF Store!Get

LEMMA SetType ==
  ASSUME TypeOK, NEW k \in Keys, NEW o \in Outcomes, NEW d \in Int,
         Store!Set(k, o, d, {})
  PROVE  Store!ContractTypeOK'
  BY DEF TypeOK, Store!ContractTypeOK, Store!Set, Store!Entries

----------------------------------------------------------------------------
(* The type invariant. *)

LEMMA ErrorType ==
  ASSUME TypeOK, NEW v \in Calls, pc[v] # "idle",
         NEW kind \in {"invalid_credential", "disabled", "infra_failure"},
         NEW why \in {"status", "missing_uid", "no_answer", "unsendable"}
  PROVE  Error(v, kind, why) \in Errors
  BY InstanceAssumption DEF TypeOK, Error, Errors, Realms

LEMMA DecideType ==
  ASSUME TypeOK, NEW v \in Calls, NEW o \in Outcomes, Decide(v, o)
  PROVE  /\ pc' \in [Calls -> Places]
         /\ pc' = [pc EXCEPT ![v] = "done"]
         /\ mark' \in [Calls -> Int]
         /\ verdict' \in [Calls -> Outcomes \cup {NoVerdict}]
         /\ verdict'[v] = o
         /\ \A w \in Calls : w # v => verdict'[w] = verdict[w]
  BY DEF TypeOK, Decide, Places, Store!ContractTypeOK

LEMMA CountType ==
  ASSUME NEW c \in Counts, NEW n \in Nat, NEW r \in Results
  PROVE  /\ [c EXCEPT !.hit = @ + 1, !.observed = Append(@, "hit")] \in Counts
         /\ [c EXCEPT !.miss = @ + 1] \in Counts
         /\ [c EXCEPT !.errors = @ + n, !.observed = Append(@, r)] \in Counts
         /\ NoCount \in Counts
  <1>1. Append(c.observed, "hit") \in Seq(Results) /\ Append(c.observed, r) \in Seq(Results)
    BY DEF Counts, Results
  <1>2. c.hit + 1 \in Nat /\ c.miss + 1 \in Nat /\ c.errors + n \in Nat
    BY DEF Counts
  <1>3. <<>> \in Seq(Results)
    OBVIOUS
  <1>4. [c EXCEPT !.hit = @ + 1, !.observed = Append(@, "hit")] \in Counts
    BY <1>1, <1>2 DEF Counts
  <1>5. [c EXCEPT !.miss = @ + 1] \in Counts
    BY <1>2 DEF Counts
  <1>6. [c EXCEPT !.errors = @ + n, !.observed = Append(@, r)] \in Counts
    BY <1>1, <1>2 DEF Counts
  <1> QED
    BY <1>3, <1>4, <1>5, <1>6 DEF NoCount, Counts

\* Each step keeps the types.
LEMMA TypeStep == TypeOK /\ [Next]_vars => TypeOK'
  <1> SUFFICES ASSUME TypeOK, [Next]_vars PROVE TypeOK'
    OBVIOUS
  <1> USE DEF TypeOK, Places, cacheVars, callVars
  <1>1. ASSUME NEW v \in Calls, NEW i \in Instances, NEW c \in Creds, Begin(v, i, c)
        PROVE  TypeOK'
    BY <1>1 DEF Begin, Store!ContractTypeOK
  <1>2. ASSUME NEW v \in Calls, NEW i \in Instances, NEW c \in Creds, Refuse(v, i, c)
        PROVE  TypeOK'
    <2> DEFINE o == [type |-> "error", realm |-> Realm[i], cred |-> c,
                     kind |-> "invalid_credential", why |-> "unsendable"]
    <2>1. o \in Outcomes
      BY InstanceAssumption DEF Outcomes, Errors, Realms
    <2>2. Decide(v, o)
      BY <1>2 DEF Refuse
    <2> QED
      BY <1>2, <2>1, <2>2, DecideType DEF Refuse, Store!ContractTypeOK
  <1>3. ASSUME NEW v \in Calls, HitPos(v) \/ HitNeg(v)
        PROVE  TypeOK'
    <2>1. pc[v] # "idle"
      BY <1>3 DEF HitPos, HitNeg
    <2>2. inst[v] \in Instances /\ cred[v] \in Creds
      BY <2>1
    <2>3. PICK k \in Keys : Store!Get(v, k)
      BY <1>3, <2>2, KeyType DEF HitPos, HitNeg, Store!Get
    <2>4. Store!ContractTypeOK'
      BY <2>3, GetType
    <2>5. reply'[v] \in Outcomes
      BY <1>3 DEF HitPos, HitNeg, Found, Outcomes
    <2>6. Decide(v, reply'[v]) /\ RecordHit(v) /\ UNCHANGED <<account, ended, inst, cred>>
      BY <1>3 DEF HitPos, HitNeg
    <2>7. count' \in [Calls -> Counts]
      BY <2>6, CountType DEF RecordHit, Results
    <2> QED
      BY <2>2, <2>4, <2>5, <2>6, <2>7, DecideType
  <1>4. ASSUME NEW v \in Calls, MissPos(v) \/ MissNeg(v)
        PROVE  TypeOK'
    <2>1. pc[v] # "idle"
      BY <1>4 DEF MissPos, MissNeg
    <2>2. PICK k \in Keys : Store!Get(v, k)
      BY <1>4, <2>1, KeyType DEF MissPos, MissNeg
    <2>3. Store!ContractTypeOK'
      BY <2>2, GetType
    <2>4. CASE MissPos(v)
      BY <2>1, <2>3, <2>4 DEF MissPos
    <2>5. CASE MissNeg(v)
      <3>1. count' \in [Calls -> Counts]
        BY <2>5, CountType DEF MissNeg, Results
      <3>2. mark' \in [Calls -> Int]
        BY <2>5 DEF MissNeg, Store!ContractTypeOK
      <3> QED
        BY <2>1, <2>3, <2>5, <3>1, <3>2 DEF MissNeg
    <2> QED
      BY <1>4, <2>4, <2>5
  <1>5. ASSUME NEW v \in Calls, AnswerAccepts(v) \/ AnswerLacksUid(v) \/ AnswerRejects(v)
        PROVE  TypeOK'
    <2>1. pc[v] = "sent"
      BY <1>5 DEF AnswerAccepts, AnswerLacksUid, AnswerRejects
    <2>2. inst[v] \in Instances /\ cred[v] \in Creds
      BY <2>1
    <2>3. PICK o \in Outcomes : Answered(v, o)
      <3>1. CASE AnswerAccepts(v)
        <4>1. PICK x \in ContextsFor(inst[v]) :
                Answered(v, [type |-> "principal", realm |-> Realm[inst[v]],
                             cred |-> cred[v], grant |-> account[AccountOf(v)],
                             context |-> x])
          BY <3>1 DEF AnswerAccepts
        <4>2. x \in Contexts
          BY ContextAssumption DEF ContextsFor, Contexts
        <4>3. [type |-> "principal", realm |-> Realm[inst[v]],
               cred |-> cred[v], grant |-> account[AccountOf(v)],
                             context |-> x] \in Principals
          BY <2>2, <3>1, <4>2, InstanceAssumption DEF Principals, Realms, AnswerAccepts
        <4> QED
          BY <4>1, <4>3 DEF Outcomes
      <3>2. CASE AnswerLacksUid(v)
        BY <2>1, <3>2, ErrorType DEF AnswerLacksUid, Outcomes
      <3>3. CASE AnswerRejects(v)
        BY <2>1, <3>3, ErrorType DEF AnswerRejects, Outcomes
      <3> QED
        BY <1>5, <3>1, <3>2, <3>3
    <2> QED
      BY <2>1, <2>2, <2>3 DEF Answered, Store!ContractTypeOK
  <1>6. ASSUME NEW v \in Calls, RequestFails(v)
        PROVE  TypeOK'
    <2>1. Error(v, "infra_failure", "no_answer") \in Outcomes
      BY <1>6, ErrorType DEF RequestFails, Outcomes
    <2> QED
      BY <1>6, <2>1 DEF RequestFails, Store!ContractTypeOK
  <1>7. ASSUME NEW v \in Calls, ReadBody(v)
        PROVE  TypeOK'
    BY <1>7 DEF ReadBody, Store!ContractTypeOK
  <1>8. ASSUME NEW v \in Calls, Finalize(v)
        PROVE  TypeOK'
    <2>1. pc[v] = "received" /\ verdict[v] \in Outcomes
      BY <1>8 DEF Finalize, FinalizeAccepted, FinalizeRejected, FinalizeFailed
    <2>2. inst[v] \in Instances /\ cred[v] \in Creds
      BY <2>1
    <2>3. /\ Decide(v, verdict[v])
          /\ UNCHANGED <<account, ended, inst, cred>>
          /\ \E r \in Results, n \in Nat : Observe(v, r, n)
      BY <1>8 DEF Finalize, FinalizeAccepted, FinalizeRejected, FinalizeFailed, Results
    <2>4. count' \in [Calls -> Counts]
      <3>1. PICK r \in Results, n \in Nat : Observe(v, r, n)
        BY <2>3
      <3>2. [count[v] EXCEPT !.errors = @ + n, !.observed = Append(@, r)] \in Counts
        BY CountType
      <3> QED
        BY <3>1, <3>2 DEF Observe
    <2>5. Store!ContractTypeOK'
      <3>1. CASE FinalizeAccepted(v)
        <4>1. Deadline(TTL[Realm[inst[v]]]) \in Int
          BY <2>2, InstanceAssumption, TimeFacts, DeadlineIs DEF Realms, Store!ContractTypeOK
        <4> QED
          BY <2>1, <2>2, <3>1, <4>1, KeyType, SetType DEF FinalizeAccepted
      <3>2. CASE FinalizeRejected(v)
        <4>1. Deadline(NegativeTTL) \in Int
          BY TimeFacts, DeadlineIs DEF Store!ContractTypeOK
        <4> QED
          BY <2>1, <2>2, <3>2, <4>1, KeyType, SetType DEF FinalizeRejected
      <3>3. CASE FinalizeFailed(v)
        BY <3>3 DEF FinalizeFailed, Store!ContractTypeOK
      <3> QED
        BY <1>8, <3>1, <3>2, <3>3 DEF Finalize
    <2> QED
      BY <2>1, <2>2, <2>3, <2>4, <2>5, DecideType
  <1>9. ASSUME NEW v \in Calls, Return(v)
        PROVE  TypeOK'
    <2>1. NoCount \in Counts
      BY DEF NoCount, Counts
    <2> QED
      BY <1>9, <2>1, TimeFacts DEF Return, Store!Consume, Store!ContractTypeOK
  <1>10. ASSUME NEW a \in Accounts, NEW status \in Statuses, SetAccount(a, status)
         PROVE  TypeOK'
    BY <1>10, AccountAssumption DEF SetAccount, Store!ContractTypeOK
  <1>11. ASSUME NEW k \in Keys, Evict(k)
         PROVE  TypeOK'
    BY <1>11 DEF Evict, Store!Lose, Store!ContractTypeOK
  <1>12. ASSUME Tick
         PROVE  TypeOK'
    BY <1>12 DEF Tick, Store!Tick, Store!ContractTypeOK
  <1>13. ASSUME UNCHANGED vars
         PROVE  TypeOK'
    BY <1>13 DEF vars, Store!ContractTypeOK
  <1> QED
    BY <1>1, <1>2, <1>3, <1>4, <1>5, <1>6, <1>7, <1>8, <1>9, <1>10, <1>11, <1>12, <1>13
    DEF Next, TimeOut

LEMMA TypeInit == Init => TypeOK
  <1>1. NoCount \in Counts
    BY DEF NoCount, Counts
  <1> QED
    BY <1>1, TimeFacts, AccountAssumption
    DEF Init, TypeOK, Places, Store!ContractInit, Store!ContractTypeOK, Accounts

\* Every variable keeps its type: in particular a call past the server's answer
\* always holds an outcome, and a call in progress its instance and credential.
THEOREM TypeCorrect == Spec => []TypeOK
  BY TypeInit, TypeStep, PTL DEF Spec

----------------------------------------------------------------------------
(* Isolation. *)

\* Principals and Errors do not overlap.
LEMMA Disjoint == \A o : ~(o \in Principals /\ o \in Errors)
  BY DEF Principals, Errors

\* A key string determines the realm, the tag and the credential it was built
\* from; only a negative key can be mistaken, for another's positive one.
LEMMA KeysInjective ==
  ASSUME NEW i \in Instances, NEW j \in Instances, NEW c \in Creds, NEW d \in Creds
  PROVE  /\ PosKey(i, c) = PosKey(j, d) =>
              c = d /\ Realm[i] = Realm[j] /\ ContextsFor(i) = ContextsFor(j)
         /\ NegKey(i, c) = NegKey(j, d) => c = d /\ Realm[i] = Realm[j]
  <1>1. ASSUME NEW x, NEW y, PosKey(i, x) = PosKey(j, y)
        PROVE  x = y /\ Realm[i] = Realm[j] /\ Include[i] = Include[j]
    <2>1. x = y /\ Realm[i] = Realm[j] /\ CtxTag(i) = CtxTag(j)
      BY <1>1 DEF PosKey
    <2> QED
      BY <2>1, InstanceAssumption DEF CtxTag
  <1>2. PosKey(i, c) = PosKey(j, d) =>
          c = d /\ Realm[i] = Realm[j] /\ ContextsFor(i) = ContextsFor(j)
    BY <1>1 DEF ContextsFor
  <1>3. ASSUME NegKey(i, c) = NegKey(j, d)
        PROVE  c = d /\ Realm[i] = Realm[j]
    <2> DEFINE aliased(x) == ~HashCacheKey /\ NegOf[x] # None
    <2>1. /\ NegKey(i, c).neg = ~aliased(c)
          /\ NegKey(j, d).neg = ~aliased(d)
      BY DEF NegKey, PosKey
    <2>2. CASE aliased(c)
      <3>1. aliased(d)
        BY <1>3, <2>1, <2>2
      <3>2. PosKey(i, NegOf[c]) = PosKey(j, NegOf[d])
        BY <1>3, <2>2, <3>1 DEF NegKey
      <3> QED
        BY <1>1, <2>2, <3>2, NegOfAssumption
    <2>3. CASE ~aliased(c)
      <3>1. ~aliased(d)
        BY <1>3, <2>1, <2>3
      <3> QED
        BY <1>3, <2>3, <3>1 DEF NegKey, PosKey
    <2> QED
      BY <2>2, <2>3
  <1> QED
    BY <1>2, <1>3

\* An outcome fits the call, or the instance and credential, it is about.
Fits(o, i, c) ==
  /\ o.realm = Realm[i]
  /\ o.cred = c
  /\ o \in Principals => RightContext(i, o)

CallsKeyed ==
  \A v \in Calls : pc[v] \in {"answered", "received", "done"} =>
    Fits(verdict[v], inst[v], cred[v])

KeyedInv == EntriesKeyed /\ CallsKeyed

\* A hit under a call's own key fits the call.
LEMMA HitFits ==
  ASSUME TypeOK, EntriesKeyed, NEW i \in Instances, NEW c \in Creds,
         NEW k \in Keys, live[k] # NoEntry,
         \/ k = PosKey(i, c) /\ live[k].value \in Principals
         \/ k = NegKey(i, c) /\ live[k].value \in Errors
  PROVE  Fits(live[k].value, i, c)
  <1>1. live[k].value \in Outcomes /\ live[k].value.cred \in Creds
    BY DEF TypeOK, Store!ContractTypeOK, Store!Entries, Outcomes, Principals, Errors
  <1>2. PICK j \in Instances :
          /\ live[k].value.realm = Realm[j]
          /\ \/ /\ live[k].value \in Principals
                /\ k = PosKey(j, live[k].value.cred)
                /\ RightContext(j, live[k].value)
             \/ /\ live[k].value \in Errors
                /\ k = NegKey(j, live[k].value.cred)
    BY DEF EntriesKeyed
  <1>3. CASE k = PosKey(i, c) /\ live[k].value \in Principals
    BY <1>1, <1>2, <1>3, Disjoint, KeysInjective DEF Fits, RightContext
  <1>4. CASE k = NegKey(i, c) /\ live[k].value \in Errors
    BY <1>1, <1>2, <1>4, Disjoint, KeysInjective DEF Fits
  <1> QED
    BY <1>3, <1>4

\* What a step may do to the entries besides a Set: forget some of them.
Forgets == \A k \in Keys : live'[k] \in {live[k], NoEntry}

LEMMA GetForgets ==
  ASSUME TypeOK, NEW v \in Calls, NEW k \in Keys, Store!Get(v, k)
  PROVE  Forgets /\ now' = now
  BY DEF Forgets, TypeOK, Store!ContractTypeOK, Store!Get, Store!GetHit, Store!GetMiss

\* The steps that store nothing.
LEMMA OtherStepsForget ==
  ASSUME TypeOK, [Next]_vars,
         ~\E v \in Calls : FinalizeAccepted(v) \/ FinalizeRejected(v)
  PROVE  Forgets
  <1> USE DEF TypeOK, Store!ContractTypeOK, cacheVars, callVars
  <1>1. ASSUME NEW v \in Calls, HitPos(v) \/ MissPos(v) \/ HitNeg(v) \/ MissNeg(v)
        PROVE  Forgets
    <2>1. inst[v] \in Instances /\ cred[v] \in Creds
      BY <1>1 DEF HitPos, MissPos, HitNeg, MissNeg
    <2>2. PICK k \in Keys : Store!Get(v, k)
      BY <1>1, <2>1, KeyType DEF HitPos, MissPos, HitNeg, MissNeg, Store!Get
    <2> QED
      BY <2>2, GetForgets
  <1>2. ASSUME NEW k \in Keys, Evict(k)
        PROVE  Forgets
    BY <1>2 DEF Evict, Store!Lose, Forgets
  <1>3. ASSUME live' = live
        PROVE  Forgets
    BY <1>3 DEF Forgets
  <1>4. ASSUME NEW v \in Calls, NEW i \in Instances, NEW c \in Creds,
               Begin(v, i, c) \/ Refuse(v, i, c)
        PROVE  live' = live
    BY <1>4 DEF Begin, Refuse
  <1>5. ASSUME NEW v \in Calls,
               \/ AnswerAccepts(v) \/ AnswerLacksUid(v) \/ AnswerRejects(v)
               \/ RequestFails(v) \/ ReadBody(v) \/ FinalizeFailed(v) \/ Return(v)
        PROVE  live' = live
    BY <1>5 DEF AnswerAccepts, AnswerLacksUid, AnswerRejects, Answered, RequestFails,
                ReadBody, FinalizeFailed, Return, Store!Consume
  <1>6. ASSUME NEW a \in Accounts, NEW status \in Statuses, SetAccount(a, status)
        PROVE  live' = live
    BY <1>6 DEF SetAccount
  <1>7. Tick \/ UNCHANGED vars => live' = live
    BY DEF Tick, Store!Tick, vars
  <1> QED
    BY <1>1, <1>2, <1>3, <1>4, <1>5, <1>6, <1>7 DEF Next, TimeOut, Finalize

LEMMA EntriesKeyedStep ==
  ASSUME TypeOK, KeyedInv, [Next]_vars
  PROVE  EntriesKeyed'
  <1> USE DEF TypeOK, Store!ContractTypeOK
  <1>1. CASE Forgets
    BY <1>1 DEF Forgets, KeyedInv, EntriesKeyed
  <1>2. ASSUME NEW v \in Calls, FinalizeAccepted(v) \/ FinalizeRejected(v)
        PROVE  EntriesKeyed'
    <2>1. inst[v] \in Instances /\ cred[v] \in Creds
      BY <1>2 DEF FinalizeAccepted, FinalizeRejected
    <2>2. Fits(verdict[v], inst[v], cred[v])
      BY <1>2 DEF FinalizeAccepted, FinalizeRejected, KeyedInv, CallsKeyed
    <2>3. PICK k \in Keys, d \in Int :
            /\ Store!Set(k, verdict[v], d, {})
            /\ \/ verdict[v] \in Principals /\ k = PosKey(inst[v], cred[v])
               \/ verdict[v] \in Errors /\ k = NegKey(inst[v], cred[v])
      <3>1. CASE FinalizeAccepted(v)
        <4>1. Deadline(TTL[Realm[inst[v]]]) \in Int
          BY <2>1, InstanceAssumption, TimeFacts, DeadlineIs DEF Realms
        <4> QED
          BY <2>1, <3>1, <4>1, KeyType DEF FinalizeAccepted
      <3>2. CASE FinalizeRejected(v)
        <4>1. Deadline(NegativeTTL) \in Int
          BY TimeFacts, DeadlineIs
        <4> QED
          BY <2>1, <3>2, <4>1, KeyType DEF FinalizeRejected
      <3> QED
        BY <1>2, <3>1, <3>2
    <2>4. ASSUME NEW j \in Keys, live'[j] # NoEntry, j # k
          PROVE  live'[j] = live[j] /\ live[j] # NoEntry
      BY <2>3, <2>4 DEF Store!Set
    <2>5. live'[k].value = verdict[v]
      BY <2>3 DEF Store!Set
    <2>6. \/ /\ verdict[v] \in Principals
             /\ k = PosKey(inst[v], verdict[v].cred)
             /\ RightContext(inst[v], verdict[v])
          \/ /\ verdict[v] \in Errors
             /\ k = NegKey(inst[v], verdict[v].cred)
      BY <2>2, <2>3 DEF Fits
    <2>7. verdict[v].realm = Realm[inst[v]]
      BY <2>2 DEF Fits
    <2> QED
      BY <2>1, <2>4, <2>5, <2>6, <2>7 DEF KeyedInv, EntriesKeyed
  <1> QED
    BY <1>1, <1>2, OtherStepsForget

\* A step that leaves a call's instance, credential and outcome alone leaves
\* its outcome fitting.
LEMMA CallsKeyedStep ==
  ASSUME TypeOK, KeyedInv, [Next]_vars
  PROVE  CallsKeyed'
  <1> USE DEF TypeOK, Places, Store!ContractTypeOK, cacheVars, callVars
  <1> SUFFICES ASSUME NEW w \in Calls,
                      pc'[w] \in {"answered", "received", "done"}
               PROVE  Fits(verdict[w], inst[w], cred[w])'
    BY DEF CallsKeyed
  <1> DEFINE Same == /\ pc[w] \in {"answered", "received", "done"}
                     /\ verdict'[w] = verdict[w]
                     /\ inst'[w] = inst[w] /\ cred'[w] = cred[w]
             FitsNow == Fits(verdict[w], inst[w], cred[w])'
  <1>1. Same => FitsNow
    BY DEF KeyedInv, CallsKeyed, Fits, RightContext, ContextsFor
  <1>2. ASSUME NEW v \in Calls, NEW i \in Instances, NEW c \in Creds, Begin(v, i, c)
        PROVE  FitsNow
    <2>1. Same
      BY <1>2 DEF Begin
    <2> QED
      BY <1>1, <2>1
  <1>3. ASSUME NEW v \in Calls, NEW i \in Instances, NEW c \in Creds, Refuse(v, i, c)
        PROVE  FitsNow
    <2>1. CASE v = w
      <3>1. /\ verdict'[w] = [type |-> "error", realm |-> Realm[i], cred |-> c,
                              kind |-> "invalid_credential", why |-> "unsendable"]
            /\ inst'[w] = i /\ cred'[w] = c
        BY <1>3, <2>1 DEF Refuse, Decide
      <3> QED
        BY <3>1 DEF Fits, Principals
    <2>2. CASE v # w
      <3>1. Same
        BY <1>3, <2>2 DEF Refuse, Decide
      <3> QED
        BY <1>1, <3>1
    <2> QED
      BY <2>1, <2>2
  <1>4. ASSUME NEW v \in Calls, HitPos(v) \/ HitNeg(v)
        PROVE  FitsNow
    <2>1. inst[v] \in Instances /\ cred[v] \in Creds
      BY <1>4 DEF HitPos, HitNeg
    <2>2. CASE v = w
      <3>1. PICK k \in Keys :
              /\ live[k] # NoEntry /\ verdict'[w] = live[k].value
              /\ \/ k = PosKey(inst[v], cred[v]) /\ live[k].value \in Principals
                 \/ k = NegKey(inst[v], cred[v]) /\ live[k].value \in Errors
        BY <1>4, <2>1, <2>2, KeyType
        DEF HitPos, HitNeg, Found, Decide, Store!GetHit, Store!Readable
      <3>2. Fits(live[k].value, inst[v], cred[v])
        BY <2>1, <3>1, HitFits DEF KeyedInv
      <3>3. inst'[w] = inst[v] /\ cred'[w] = cred[v]
        BY <1>4, <2>2 DEF HitPos, HitNeg
      <3> QED
        BY <3>1, <3>2, <3>3 DEF Fits, RightContext, ContextsFor
    <2>3. CASE v # w
      <3>1. Same
        BY <1>4, <2>3 DEF HitPos, HitNeg, Decide
      <3> QED
        BY <1>1, <3>1
    <2> QED
      BY <2>2, <2>3
  <1>5. ASSUME NEW v \in Calls, MissPos(v) \/ MissNeg(v)
        PROVE  FitsNow
    <2>1. Same
      BY <1>5 DEF MissPos, MissNeg
    <2> QED
      BY <1>1, <2>1
  <1>6. ASSUME NEW v \in Calls, AnswerAccepts(v)
        PROVE  FitsNow
    <2>1. CASE v = w
      <3>1. PICK x \in ContextsFor(inst[v]) :
              Answered(v, [type |-> "principal", realm |-> Realm[inst[v]],
                           cred |-> cred[v], grant |-> account[AccountOf(v)],
                             context |-> x])
        BY <1>6 DEF AnswerAccepts
      <3>2. x = "not_requested" <=> ContextsFor(inst[v]) = {"not_requested"}
        BY ContextAssumption DEF ContextsFor
      <3>3. /\ verdict'[w] = [type |-> "principal", realm |-> Realm[inst[v]],
                              cred |-> cred[v], grant |-> account[AccountOf(v)],
                             context |-> x]
            /\ inst'[w] = inst[v] /\ cred'[w] = cred[v]
        BY <2>1, <3>1 DEF Answered
      <3> QED
        BY <2>1, <3>2, <3>3 DEF Fits, RightContext, ContextsFor
    <2>2. CASE v # w
      <3>1. Same
        BY <1>6, <2>2 DEF AnswerAccepts, Answered
      <3> QED
        BY <1>1, <3>1
    <2> QED
      BY <2>1, <2>2
  <1>7. ASSUME NEW v \in Calls, AnswerLacksUid(v) \/ AnswerRejects(v) \/ RequestFails(v)
        PROVE  FitsNow
    <2>1. CASE v = w
      <3>1. PICK kind \in {"invalid_credential", "disabled", "infra_failure"},
                 why \in {"status", "missing_uid", "no_answer", "unsendable"} :
              verdict'[w] = Error(v, kind, why)
        BY <1>7, <2>1 DEF AnswerLacksUid, AnswerRejects, RequestFails, Answered
      <3>2. inst'[w] = inst[w] /\ cred'[w] = cred[w]
        BY <1>7 DEF AnswerLacksUid, AnswerRejects, RequestFails, Answered
      <3> QED
        BY <2>1, <3>1, <3>2 DEF Fits, Error, Principals
    <2>2. CASE v # w
      <3>1. Same
        BY <1>7, <2>2 DEF AnswerLacksUid, AnswerRejects, RequestFails, Answered
      <3> QED
        BY <1>1, <3>1
    <2> QED
      BY <2>1, <2>2
  <1>8. ASSUME NEW v \in Calls, ReadBody(v) \/ Finalize(v)
        PROVE  FitsNow
    <2>1. Same
      BY <1>8 DEF ReadBody, Finalize, FinalizeAccepted, FinalizeRejected,
                  FinalizeFailed, Decide
    <2> QED
      BY <1>1, <2>1
  <1>9. ASSUME NEW v \in Calls, Return(v)
        PROVE  FitsNow
    <2>1. Same
      BY <1>9 DEF Return
    <2> QED
      BY <1>1, <2>1
  <1>10. ASSUME UNCHANGED callVars
         PROVE  FitsNow
    BY <1>1, <1>10
  <1>11. \/ \E a \in Accounts, status \in Statuses : SetAccount(a, status)
         \/ \E k \in Keys : Evict(k)
         \/ Tick \/ UNCHANGED vars
         => UNCHANGED callVars
    BY DEF SetAccount, Evict, Tick, vars
  <1> QED
    BY <1>2, <1>3, <1>4, <1>5, <1>6, <1>7, <1>8, <1>9, <1>10, <1>11 DEF Next, TimeOut

LEMMA KeyedInit == Init => KeyedInv
  BY DEF Init, KeyedInv, EntriesKeyed, CallsKeyed, Store!ContractInit

\* Every entry sits under a key its own value determines.
THEOREM EntriesStayKeyed == Spec => []EntriesKeyed
  <1>1. TypeOK /\ KeyedInv /\ [Next]_vars => KeyedInv'
    BY EntriesKeyedStep, CallsKeyedStep DEF KeyedInv
  <1>2. KeyedInv => EntriesKeyed
    BY DEF KeyedInv
  <1> QED
    BY <1>1, <1>2, KeyedInit, TypeCorrect, PTL DEF Spec

\* Calls sharing a cache never get an outcome decided for another realm,
\* credential or context request, hashed keys or not.
THEOREM IsolationHolds == Spec => []Isolation
  <1>1. TypeOK /\ KeyedInv /\ [Next]_vars => KeyedInv'
    BY EntriesKeyedStep, CallsKeyedStep DEF KeyedInv
  <1>2. KeyedInv => Isolation
    BY DEF KeyedInv, CallsKeyed, Isolation, Fits
  <1> QED
    BY <1>1, <1>2, KeyedInit, TypeCorrect, PTL DEF Spec

----------------------------------------------------------------------------
(* Staleness: the revocation and the rejection window. *)

LEMMA OutcomeFacts ==
  ASSUME NEW o \in Outcomes
  PROVE  /\ <<o.realm, o.cred>> \in Accounts
         /\ o \in Principals => TtlOf[o] = TTL[o.realm]
         /\ o \in Errors => TtlOf[o] = NegativeTTL
         /\ TtlOf[o] \in Nat
         /\ StatusOf(o) \in Statuses
  <1>1. /\ <<o.realm, o.cred>> \in Accounts
        /\ o \in Principals => TtlOf[o] = TTL[o.realm]
        /\ o \in Errors => TtlOf[o] = NegativeTTL
        /\ TtlOf[o] \in Nat
    BY TtlType, TimeFacts DEF Outcomes, Principals, Errors, Accounts, TtlOf
  <1>2. StatusOf(o) \in Statuses
    BY DEF StatusOf, Principals, Statuses, Refusals
  <1> QED
    BY <1>1, <1>2

\* The last time an outcome was true never moves back, and is never later
\* than now.
LEMMA HeldMonotone ==
  ASSUME TypeOK, Staleness, [Next]_vars
  PROVE  /\ now' \in Nat /\ now <= now'
         /\ \A a \in Accounts, s \in Statuses : ended'[a][s] <= now'
         /\ \A o \in Outcomes :
              /\ LastHeld(o) \in Int /\ LastHeld(o)' \in Int
              /\ LastHeld(o) <= LastHeld(o)'
  <1> USE DEF TypeOK, Store!ContractTypeOK, cacheVars, callVars
  <1>1. /\ account' \in [Accounts -> Statuses]
        /\ ended' \in [Accounts -> [Statuses -> Int]]
        /\ now' \in Nat
    BY TypeStep
  <1> DEFINE Later ==
        /\ now <= now'
        /\ \A a \in Accounts, s \in Statuses :
             ended'[a][s] <= now' /\ Last(a, s) <= Last(a, s)'
  <1>2. ASSUME UNCHANGED <<now, account, ended>>
        PROVE  Later
    BY <1>2 DEF Staleness, Last
  <1>3. ASSUME NEW a \in Accounts, NEW status \in Statuses, SetAccount(a, status)
        PROVE  Later
    <2>1. account' = [account EXCEPT ![a] = status] /\ now' = now
      BY <1>3 DEF SetAccount
    <2>2. ended' = [ended EXCEPT ![a] = [@ EXCEPT ![account[a]] = now]]
      BY <1>3 DEF SetAccount
    <2>3. ASSUME NEW b \in Accounts, NEW s \in Statuses
          PROVE  ended'[b][s] = IF b = a /\ s = account[a] THEN now ELSE ended[b][s]
      BY <2>2
    <2>4. \A b \in Accounts, s \in Statuses : ended[b][s] <= now
      BY DEF Staleness
    <2> QED
      BY <2>1, <2>3, <2>4 DEF Last
  <1>4. ASSUME Tick
        PROVE  Later
    BY <1>4 DEF Tick, Store!Tick, Staleness, Last
  <1>5. ASSUME NEW v \in Calls, HitPos(v) \/ MissPos(v) \/ HitNeg(v) \/ MissNeg(v)
        PROVE  UNCHANGED <<now, account, ended>>
    BY <1>5 DEF HitPos, MissPos, HitNeg, MissNeg, Store!Get, Store!GetHit, Store!GetMiss
  <1>6. ASSUME NEW v \in Calls, NEW i \in Instances, NEW c \in Creds,
               Begin(v, i, c) \/ Refuse(v, i, c)
        PROVE  UNCHANGED <<now, account, ended>>
    BY <1>6 DEF Begin, Refuse
  <1>7. ASSUME NEW v \in Calls,
               \/ AnswerAccepts(v) \/ AnswerLacksUid(v) \/ AnswerRejects(v)
               \/ RequestFails(v) \/ ReadBody(v) \/ Finalize(v) \/ Return(v)
        PROVE  UNCHANGED <<now, account, ended>>
    BY <1>7 DEF AnswerAccepts, AnswerLacksUid, AnswerRejects, Answered, RequestFails,
                ReadBody, Finalize, FinalizeAccepted, FinalizeRejected, FinalizeFailed,
                Return, Store!Set, Store!Consume
  <1>8. (\E k \in Keys : Evict(k)) \/ UNCHANGED vars => UNCHANGED <<now, account, ended>>
    BY DEF Evict, Store!Lose, vars
  <1>9. Later
    BY <1>2, <1>3, <1>4, <1>5, <1>6, <1>7, <1>8 DEF Next, TimeOut
  <1>10. \A a \in Accounts, s \in Statuses : Last(a, s) \in Int /\ Last(a, s)' \in Int
    BY <1>1 DEF Last
  <1> QED
    BY <1>1, <1>9, <1>10, OutcomeFacts DEF LastHeld

\* A judged answer is true at the moment the server gives it.
LEMMA JudgedNow ==
  ASSUME TypeOK, NEW v \in Calls, NEW o \in Outcomes, Judged(o),
         pc[v] = "sent", Answered(v, o),
         AnswerAccepts(v) \/ AnswerLacksUid(v) \/ AnswerRejects(v)
  PROVE  LastHeld(o) = now
  <1>1. o = verdict'[v]
    BY DEF TypeOK, Answered
  <1>2. CASE AnswerAccepts(v)
    <2>1. /\ o \in Principals /\ <<o.realm, o.cred>> = AccountOf(v)
          /\ account[AccountOf(v)] = o.grant
      BY <1>1, <1>2, Disjoint DEF TypeOK, AnswerAccepts, Answered, Outcomes, Errors, AccountOf
    <2> QED
      BY <2>1 DEF LastHeld, StatusOf, Last
  <1>3. CASE AnswerLacksUid(v)
    <2>1. o.type = "error" /\ o.why = "missing_uid"
      BY <1>1, <1>3 DEF TypeOK, AnswerLacksUid, Answered, Error
    <2> QED
      BY <2>1 DEF Judged, Principals
  <1>4. CASE AnswerRejects(v)
    <2>1. /\ o.type = "error" /\ <<o.realm, o.cred>> = AccountOf(v)
          /\ account[AccountOf(v)] = IF o.kind = "disabled" THEN "disabled" ELSE "revoked"
      BY <1>1, <1>4 DEF TypeOK, AnswerRejects, Answered, Error, AccountOf
    <2> QED
      BY <2>1 DEF LastHeld, StatusOf, Last, Principals
  <1> QED
    BY <1>2, <1>3, <1>4

\* The bound an entry with value o and this deadline must meet after the step.
EntryFits(o, deadline) ==
  /\ deadline # Store!Never
  /\ Judged(o) => deadline <= LastHeld(o) + Timeout + Lag + TtlOf[o]

LEMMA EntriesInTimeStep ==
  ASSUME TimerCoversBody, TypeOK, KeyedInv, Staleness, [Next]_vars
  PROVE  EntriesInTime'
  <1> USE DEF TypeOK, Store!ContractTypeOK
  <1>1. live' \in [Keys -> Store!Entries \cup {NoEntry}]
    BY TypeStep
  <1>2. ASSUME NEW k \in Keys, live'[k] # NoEntry
        PROVE  live'[k].value \in Outcomes /\ live'[k].deadline \in Int
    BY <1>1, <1>2 DEF Store!Entries
  <1> SUFFICES ASSUME NEW k \in Keys, NEW o \in Outcomes, NEW d \in Int,
                      live'[k] # NoEntry, o = live'[k].value, d = live'[k].deadline
               PROVE  EntryFits(o, d)'
    BY <1>2 DEF EntriesInTime, EntryFits, Judged, LastHeld, StatusOf, Last
  <1>3. LastHeld(o) \in Int /\ LastHeld(o)' \in Int /\ LastHeld(o) <= LastHeld(o)'
    BY HeldMonotone
  <1>4. TtlOf[o] \in Nat
    BY OutcomeFacts
  <1>5. ASSUME EntryFits(o, d)
        PROVE  EntryFits(o, d)'
    BY <1>3, <1>4, <1>5, TimeFacts DEF EntryFits, Judged
  <1>6. CASE live'[k] = live[k]
    BY <1>5, <1>6 DEF Staleness, EntriesInTime, EntryFits
  <1>7. ASSUME NEW v \in Calls, FinalizeAccepted(v) \/ FinalizeRejected(v),
               live'[k] # live[k]
        PROVE  EntryFits(o, d)
    <2>1. /\ pc[v] = "received" /\ verdict[v] \in Outcomes
          /\ inst[v] \in Instances /\ cred[v] \in Creds
      BY <1>7 DEF FinalizeAccepted, FinalizeRejected
    <2>2. Fits(verdict[v], inst[v], cred[v])
      BY <2>1 DEF KeyedInv, CallsKeyed
    <2>3. live'[k] = [value |-> verdict[v], deadline |-> now + TtlOf[verdict[v]]]
      <3>1. CASE FinalizeAccepted(v)
        <4>1. TtlOf[verdict[v]] = TTL[Realm[inst[v]]]
          BY <2>1, <2>2, <3>1, OutcomeFacts DEF FinalizeAccepted, Fits
        <4>2. Deadline(TTL[Realm[inst[v]]]) = now + TTL[Realm[inst[v]]]
          BY <2>1, InstanceAssumption, TimeFacts, DeadlineIs DEF Realms
        <4> QED
          BY <1>7, <3>1, <4>1, <4>2 DEF FinalizeAccepted, Store!Set
      <3>2. CASE FinalizeRejected(v)
        <4>1. TtlOf[verdict[v]] = NegativeTTL
          BY <2>1, <3>2, OutcomeFacts DEF FinalizeRejected
        <4>2. Deadline(NegativeTTL) = now + NegativeTTL
          BY TimeFacts, DeadlineIs
        <4> QED
          BY <1>7, <3>2, <4>1, <4>2 DEF FinalizeRejected, Store!Set
      <3> QED
        BY <1>7, <3>1, <3>2
    <2>4. o = verdict[v] /\ d = now + TtlOf[o]
      BY <2>3
    <2>5. Judged(o) => now <= LastHeld(o) + Timeout + Lag
      <3>1. now <= mark[v] + Lag
        BY <2>1 DEF Staleness, CallsInTime
      <3>2. Judged(o) => mark[v] <= LastHeld(o) + Timeout
        BY <2>1, <2>4 DEF Staleness, CallsInTime
      <3>3. mark[v] \in Int /\ now \in Int
        OBVIOUS
      <3> QED
        BY <1>3, <3>1, <3>2, <3>3, TimeFacts
    <2> QED
      BY <1>3, <1>4, <2>4, <2>5, TimeFacts DEF EntryFits, Store!Never
  <1>8. Forgets => live'[k] = live[k]
    BY DEF Forgets
  <1> QED
    BY <1>5, <1>6, <1>7, <1>8, OtherStepsForget

Moves(v) ==
  \/ \E i \in Instances, c \in Creds : Begin(v, i, c) \/ Refuse(v, i, c)
  \/ HitPos(v) \/ MissPos(v) \/ HitNeg(v) \/ MissNeg(v)
  \/ AnswerAccepts(v) \/ AnswerLacksUid(v) \/ AnswerRejects(v)
  \/ RequestFails(v) \/ ReadBody(v) \/ Finalize(v) \/ Return(v)

Rests(v) == UNCHANGED <<pc[v], inst[v], cred[v], mark[v], verdict[v], count[v]>>

\* A step moves one call and no clock, or the clock and no call.
LEMMA OneMoves ==
  ASSUME TypeOK, [Next]_vars, NEW v \in Calls
  PROVE  \/ Tick /\ Rests(v)
         \/ now' = now /\ Rests(v)
         \/ now' = now /\ Moves(v)
  <1> USE DEF TypeOK, Rests
  <1>1. ASSUME NEW w \in Calls, NEW i \in Instances, NEW c \in Creds,
               Begin(w, i, c) \/ Refuse(w, i, c)
        PROVE  now' = now /\ (Rests(v) \/ Moves(v))
    <2>1. now' = now
      BY <1>1 DEF Begin, Refuse, cacheVars
    <2>2. CASE v = w
      BY <1>1, <2>1, <2>2 DEF Moves
    <2>3. CASE v # w
      BY <1>1, <2>1, <2>3 DEF Begin, Refuse, Decide
    <2> QED
      BY <2>2, <2>3
  <1>2. ASSUME NEW w \in Calls, HitPos(w) \/ MissPos(w) \/ HitNeg(w) \/ MissNeg(w)
        PROVE  now' = now /\ (Rests(v) \/ Moves(v))
    <2>1. now' = now
      BY <1>2 DEF HitPos, MissPos, HitNeg, MissNeg, Store!Get, Store!GetHit, Store!GetMiss
    <2>2. CASE v = w
      BY <1>2, <2>1, <2>2 DEF Moves
    <2>3. CASE v # w
      BY <1>2, <2>1, <2>3 DEF HitPos, MissPos, HitNeg, MissNeg, Decide, RecordHit
    <2> QED
      BY <2>2, <2>3
  <1>3. ASSUME NEW w \in Calls,
               \/ AnswerAccepts(w) \/ AnswerLacksUid(w) \/ AnswerRejects(w)
               \/ RequestFails(w) \/ ReadBody(w)
        PROVE  now' = now /\ (Rests(v) \/ Moves(v))
    <2>1. now' = now
      BY <1>3 DEF AnswerAccepts, AnswerLacksUid, AnswerRejects, Answered,
                  RequestFails, ReadBody, cacheVars
    <2>2. CASE v = w
      BY <1>3, <2>1, <2>2 DEF Moves
    <2>3. CASE v # w
      BY <1>3, <2>1, <2>3 DEF AnswerAccepts, AnswerLacksUid, AnswerRejects, Answered,
                              RequestFails, ReadBody
    <2> QED
      BY <2>2, <2>3
  <1>4. ASSUME NEW w \in Calls, Finalize(w) \/ Return(w)
        PROVE  now' = now /\ (Rests(v) \/ Moves(v))
    <2>1. now' = now
      BY <1>4 DEF Finalize, FinalizeAccepted, FinalizeRejected, FinalizeFailed, Return,
                  Store!Set, Store!Consume, cacheVars
    <2>2. CASE v = w
      BY <1>4, <2>1, <2>2 DEF Moves
    <2>3. CASE v # w
      BY <1>4, <2>1, <2>3 DEF Finalize, FinalizeAccepted, FinalizeRejected,
                              FinalizeFailed, Return, Decide, Observe
    <2> QED
      BY <2>2, <2>3
  <1>5. ASSUME \/ \E a \in Accounts, status \in Statuses : SetAccount(a, status)
               \/ \E k \in Keys : Evict(k)
               \/ UNCHANGED vars
        PROVE  now' = now /\ Rests(v)
    BY <1>5 DEF SetAccount, Evict, Store!Lose, vars, callVars, cacheVars
  <1>6. Tick => Rests(v)
    BY DEF Tick, callVars
  <1> QED
    BY <1>1, <1>2, <1>3, <1>4, <1>5, <1>6 DEF Next, TimeOut

\* The clauses of CallsInTime about a running deadline.
ClockFits(v) ==
  /\ pc[v] = "sent" => mark[v] <= now
  /\ Timed(v) => now <= mark[v] + Timeout
  /\ pc[v] = "received" => now <= mark[v] + Lag

LEMMA ClockStep ==
  ASSUME TimerCoversBody, TypeOK, Staleness, [Next]_vars, NEW v \in Calls
  PROVE  ClockFits(v)'
  <1> USE DEF TypeOK, Store!ContractTypeOK, ClockFits, Timed
  <1>1. ClockFits(v) /\ now \in Nat /\ mark[v] \in Int
    BY DEF Staleness, CallsInTime
  <1>2. CASE Tick /\ Rests(v)
    <2>1. /\ now' = now + 1
          /\ pc'[v] = pc[v] /\ mark'[v] = mark[v]
          /\ Timed(v) => now < mark[v] + Timeout
          /\ pc[v] = "received" => now < mark[v] + Lag
      BY <1>2 DEF Tick, Store!Tick, Rests
    <2> QED
      BY <1>1, <2>1, TimeFacts
  <1>3. CASE now' = now /\ Rests(v)
    BY <1>1, <1>3 DEF Rests
  <1>4. CASE now' = now /\ Moves(v)
    <2>1. CASE \E i \in Instances, c \in Creds : Begin(v, i, c) \/ Refuse(v, i, c)
      <3>1. pc'[v] \in {"pos", "done"}
        BY <2>1 DEF Begin, Refuse, Decide
      <3> QED
        BY <3>1
    <2>2. CASE HitPos(v) \/ MissPos(v) \/ HitNeg(v) \/ Finalize(v) \/ Return(v)
      <3>1. pc'[v] \in {"neg", "done", "idle"}
        BY <2>2 DEF HitPos, MissPos, HitNeg, Finalize, FinalizeAccepted,
                    FinalizeRejected, FinalizeFailed, Return, Decide
      <3> QED
        BY <3>1
    <2>3. CASE MissNeg(v) \/ RequestFails(v) \/ ReadBody(v)
      <3>1. mark'[v] = now /\ pc'[v] \in {"sent", "received"}
        BY <2>3 DEF MissNeg, RequestFails, ReadBody
      <3> QED
        BY <1>1, <1>4, <3>1, TimeFacts
    <2>4. CASE AnswerAccepts(v) \/ AnswerLacksUid(v) \/ AnswerRejects(v)
      <3>1. pc[v] = "sent" /\ pc'[v] = "answered" /\ mark'[v] = mark[v]
        BY <2>4 DEF AnswerAccepts, AnswerLacksUid, AnswerRejects, Answered
      <3> QED
        BY <1>1, <1>4, <3>1
    <2> QED
      BY <1>4, <2>1, <2>2, <2>3, <2>4 DEF Moves
  <1> QED
    BY <1>2, <1>3, <1>4, OneMoves

\* The clauses of CallsInTime about an outcome o the server judged.
OutcomeInTime(v, o) ==
  Judged(o) =>
    /\ pc[v] = "answered" => mark[v] <= LastHeld(o)
    /\ pc[v] = "received" => mark[v] <= LastHeld(o) + Timeout
    /\ pc[v] = "done" => mark[v] <= LastHeld(o) + Timeout + Lag + TtlOf[o]

LEMMA OutcomeStep ==
  ASSUME TimerCoversBody, TypeOK, Staleness, [Next]_vars,
         NEW v \in Calls, NEW o \in Outcomes,
         pc'[v] \in {"answered", "received", "done"}, verdict'[v] = o
  PROVE  OutcomeInTime(v, o)'
  <1> USE DEF TypeOK, Store!ContractTypeOK
  <1>1. LastHeld(o) \in Int /\ LastHeld(o)' \in Int /\ LastHeld(o) <= LastHeld(o)'
    BY HeldMonotone
  <1>2. TtlOf[o] \in Nat
    BY OutcomeFacts
  <1>3. now \in Nat /\ mark[v] \in Int /\ mark'[v] \in Int
    BY TypeStep
  <1>4. CASE Rests(v)
    <2>1. pc'[v] = pc[v] /\ mark'[v] = mark[v] /\ verdict[v] = o
      BY <1>4 DEF Rests
    <2>2. OutcomeInTime(v, o)
      BY <2>1 DEF Staleness, CallsInTime, OutcomeInTime
    <2> QED
      BY <1>1, <1>2, <1>3, <2>1, <2>2, TimeFacts DEF OutcomeInTime, Judged
  <1>5. CASE now' = now /\ Moves(v)
    <2>1. CASE \E i \in Instances, c \in Creds : Begin(v, i, c) \/ Refuse(v, i, c)
      <3>1. \/ pc'[v] = "pos"
            \/ o.type = "error" /\ o.why = "unsendable"
        BY <2>1 DEF Begin, Refuse, Decide
      <3> QED
        BY <3>1 DEF OutcomeInTime, Judged, Principals
    <2>2. CASE HitPos(v) \/ HitNeg(v)
      <3>1. PICK k \in Keys : Store!GetHit(v, k) /\ reply'[v] = o /\ mark'[v] = now
                              /\ pc'[v] = "done"
        BY <2>2, KeyType DEF HitPos, HitNeg, Decide
      <3>2. live[k] # NoEntry /\ live[k].value = o /\ ~Store!Expired(live[k])
        BY <3>1 DEF Store!GetHit, Store!Readable
      <3>3. EntryFits(o, live[k].deadline)
        BY <3>2 DEF Staleness, EntriesInTime, EntryFits
      <3>4. live[k].deadline \in Int
        BY <3>2 DEF Store!Entries
      <3>5. Judged(o) => now <= LastHeld(o) + Timeout + Lag + TtlOf[o]
        BY <1>1, <1>2, <1>3, <3>2, <3>3, <3>4, TimeFacts DEF EntryFits, Store!Expired
      <3> QED
        BY <1>1, <1>2, <1>3, <3>1, <3>5, TimeFacts DEF OutcomeInTime, Judged
    <2>3. CASE MissPos(v) \/ MissNeg(v) \/ Return(v)
      <3>1. pc'[v] \in {"neg", "sent", "idle"}
        BY <2>3 DEF MissPos, MissNeg, Return
      <3> QED
        BY <3>1
    <2>4. CASE AnswerAccepts(v) \/ AnswerLacksUid(v) \/ AnswerRejects(v)
      <3>1. pc[v] = "sent" /\ pc'[v] = "answered" /\ mark'[v] = mark[v] /\ Answered(v, o)
        BY <2>4 DEF AnswerAccepts, AnswerLacksUid, AnswerRejects, Answered
      <3>2. mark[v] <= now
        BY <3>1 DEF Staleness, CallsInTime
      <3>3. Judged(o) => LastHeld(o) = now
        BY <2>4, <3>1, JudgedNow
      <3> QED
        BY <1>1, <1>3, <3>1, <3>2, <3>3 DEF OutcomeInTime, Judged
    <2>5. CASE RequestFails(v)
      <3>1. o.type = "error" /\ o.why = "no_answer"
        BY <2>5 DEF RequestFails, Error
      <3> QED
        BY <3>1 DEF OutcomeInTime, Judged, Principals
    <2>6. CASE ReadBody(v)
      <3>1. /\ pc[v] = "answered" /\ pc'[v] = "received"
            /\ verdict[v] = o /\ mark'[v] = now
        BY <2>6 DEF ReadBody
      <3>2. Judged(o) => mark[v] <= LastHeld(o)
        BY <3>1 DEF Staleness, CallsInTime
      <3>3. now <= mark[v] + Timeout
        BY <3>1 DEF Staleness, CallsInTime, Timed
      <3> QED
        BY <1>1, <1>3, <3>1, <3>2, <3>3, TimeFacts DEF OutcomeInTime, Judged
    <2>7. CASE Finalize(v)
      <3>1. /\ pc[v] = "received" /\ pc'[v] = "done"
            /\ verdict[v] = o /\ mark'[v] = now
        BY <2>7 DEF Finalize, FinalizeAccepted, FinalizeRejected, FinalizeFailed, Decide
      <3>2. Judged(o) => mark[v] <= LastHeld(o) + Timeout
        BY <3>1 DEF Staleness, CallsInTime
      <3>3. now <= mark[v] + Lag
        BY <3>1 DEF Staleness, CallsInTime
      <3> QED
        BY <1>1, <1>2, <1>3, <3>1, <3>2, <3>3, TimeFacts DEF OutcomeInTime, Judged
    <2> QED
      BY <1>5, <2>1, <2>2, <2>3, <2>4, <2>5, <2>6, <2>7 DEF Moves
  <1> QED
    BY <1>4, <1>5, OneMoves

LEMMA StalenessStep ==
  ASSUME TimerCoversBody, TypeOK, KeyedInv, Staleness, [Next]_vars
  PROVE  Staleness'
  <1>1. \A a \in Accounts, s \in Statuses : ended'[a][s] <= now'
    BY HeldMonotone
  <1>2. ASSUME NEW v \in Calls, pc'[v] \in {"answered", "received", "done"}
        PROVE  verdict'[v] \in Outcomes
    BY <1>2, TypeStep DEF TypeOK
  <1>3. CallsInTime'
    <2>1. ASSUME NEW v \in Calls
          PROVE  /\ pc'[v] = "sent" => mark'[v] <= now'
                 /\ Timed(v)' => now' <= mark'[v] + Timeout
                 /\ pc'[v] = "received" => now' <= mark'[v] + Lag
      BY <2>1, ClockStep DEF ClockFits
    <2>2. ASSUME NEW v \in Calls, NEW o \in Outcomes,
                 pc'[v] \in {"answered", "received", "done"}, verdict'[v] = o
          PROVE  OutcomeInTime(v, o)'
      BY <2>2, OutcomeStep
    <2> QED
      BY <1>2, <2>1, <2>2
      DEF CallsInTime, OutcomeInTime, Judged, LastHeld, StatusOf, Last
  <1>4. EntriesInTime'
    BY EntriesInTimeStep
  <1> QED
    BY <1>1, <1>3, <1>4 DEF Staleness

LEMMA StalenessInit == Init => Staleness
  BY TimeFacts
  DEF Init, Staleness, CallsInTime, EntriesInTime, Timed, Store!ContractInit

LEMMA StalenessHolds ==
  ASSUME TimerCoversBody
  PROVE  Spec => [](TypeOK /\ KeyedInv /\ Staleness)
  <1>1. Init => TypeOK /\ KeyedInv /\ Staleness
    BY TypeInit, KeyedInit, StalenessInit
  <1>2. TypeOK /\ KeyedInv /\ Staleness /\ [Next]_vars
        => (TypeOK /\ KeyedInv /\ Staleness)'
    BY TypeStep, EntriesKeyedStep, CallsKeyedStep, StalenessStep DEF KeyedInv
  <1> QED
    BY <1>1, <1>2, PTL DEF Spec

\* A request timeout that covers the body, as in Go, bounds the age of every
\* outcome: in the cache, on its way there, and in a caller's hands.
THEOREM NothingStale ==
  ASSUME TimerCoversBody
  PROVE  Spec => []Staleness
  BY StalenessHolds, PTL

\* No Verify accepts a credential that was revoked longer ago than the
\* revocation window, for every number of calls, instances and credentials.
THEOREM RevocationWindowHolds ==
  ASSUME TimerCoversBody
  PROVE  Spec => []RevocationWindow
  <1>1. TypeOK /\ KeyedInv /\ Staleness => RevocationWindow
    <2> SUFFICES ASSUME TypeOK, KeyedInv, Staleness, NEW v \in Calls, Accepted(v)
                 PROVE  mark[v] <= Last(AccountOf(v), verdict[v].grant) + Timeout + Lag
                                   + TTL[Realm[inst[v]]]
      BY DEF RevocationWindow
    <2>1. pc[v] = "done" /\ verdict[v] \in Principals /\ verdict[v] \in Outcomes
      BY DEF Accepted, Outcomes
    <2>2. Fits(verdict[v], inst[v], cred[v])
      BY <2>1 DEF KeyedInv, CallsKeyed
    <2>3. mark[v] <= LastHeld(verdict[v]) + Timeout + Lag + TtlOf[verdict[v]]
      BY <2>1 DEF Staleness, CallsInTime, Judged
    <2>4. LastHeld(verdict[v]) = Last(AccountOf(v), verdict[v].grant)
      BY <2>1, <2>2 DEF LastHeld, StatusOf, Fits, AccountOf
    <2>5. TtlOf[verdict[v]] = TTL[Realm[inst[v]]]
      BY <2>1, <2>2, OutcomeFacts DEF Fits
    <2> QED
      BY <2>3, <2>4, <2>5
  <1> QED
    BY <1>1, StalenessHolds, PTL

\* No Verify refuses a restored credential for a 401 or 403 older than the
\* rejection window.
THEOREM RejectionWindowHolds ==
  ASSUME TimerCoversBody
  PROVE  Spec => []RejectionWindow
  <1>1. TypeOK /\ KeyedInv /\ Staleness => RejectionWindow
    <2> SUFFICES ASSUME TypeOK, KeyedInv, Staleness, NEW v \in Calls,
                        Rejected(v)
                 PROVE  mark[v] <= Last(AccountOf(v), StatusOf(verdict[v])) + Timeout + Lag
                                   + NegativeTTL
      BY DEF RejectionWindow
    <2> USE DEF Rejected
    <2>1. verdict[v] \in Outcomes /\ verdict[v] \notin Principals
      BY Disjoint DEF Outcomes
    <2>2. Fits(verdict[v], inst[v], cred[v])
      BY DEF KeyedInv, CallsKeyed
    <2>3. mark[v] <= LastHeld(verdict[v]) + Timeout + Lag + TtlOf[verdict[v]]
      BY DEF Staleness, CallsInTime, Judged
    <2>4. LastHeld(verdict[v]) = Last(AccountOf(v), StatusOf(verdict[v]))
      BY <2>1, <2>2 DEF LastHeld, Fits, AccountOf
    <2>5. TtlOf[verdict[v]] = NegativeTTL
      BY <2>1, OutcomeFacts
    <2> QED
      BY <2>3, <2>4, <2>5
  <1> QED
    BY <1>1, StalenessHolds, PTL

----------------------------------------------------------------------------
(* What a call counts, and what the cache may hold. *)

Reads(c, hit, miss, errors, observed) ==
  c.hit = hit /\ c.miss = miss /\ c.errors = errors /\ c.observed = observed

OneHit(c)  == Reads(c, 1, 0, 0, <<"hit">>)
OneMiss(c) == Reads(c, 0, 1, 0, <<>>)

ObservedAs(c, result, errors) == Reads(c, 0, 1, errors, <<result>>)

Infra(o) == o \in Errors /\ o.kind = "infra_failure"

\* The count a finished call with outcome o has.
Counted(v, o) ==
  \/ count[v] = NoCount /\ AccountOf(v) \in Unsendable /\ ~Infra(o)
  \/ OneHit(count[v]) /\ ~Infra(o)
  \/ ObservedAs(count[v], "miss-ok", 0) /\ o \in Principals
  \/ ObservedAs(count[v], "miss-err", 1) /\ o \in Errors /\ ~Infra(o)
  \/ ObservedAs(count[v], "error", 1) /\ Infra(o)

CountFits(v) ==
  /\ pc[v] \in {"idle", "pos", "neg"} => count[v] = NoCount
  /\ pc[v] \in {"sent", "answered", "received"} => OneMiss(count[v])
  /\ pc[v] = "done" => Counted(v, verdict[v])

NoInfraCached == \A k \in Keys : live[k] # NoEntry => ~Infra(live[k].value)

CountedInv == NoInfraCached /\ \A v \in Calls : CountFits(v)

\* What the calls of the collector make of a count.
LEMMA CountSteps ==
  ASSUME NEW c \in Counts, NEW n \in {0, 1}, NEW r \in Results
  PROVE  /\ c = NoCount => OneHit([c EXCEPT !.hit = @ + 1, !.observed = Append(@, "hit")])
         /\ c = NoCount => OneMiss([c EXCEPT !.miss = @ + 1])
         /\ OneMiss(c) =>
              ObservedAs([c EXCEPT !.errors = @ + n, !.observed = Append(@, r)], r, n)
  <1>1. Append(<<>>, r) = <<r>> /\ Append(<<>>, "hit") = <<"hit">>
    BY DEF Results
  <1>2. ASSUME c = NoCount
        PROVE  OneHit([c EXCEPT !.hit = @ + 1, !.observed = Append(@, "hit")])
    BY <1>1, <1>2 DEF NoCount, OneHit, Reads, Counts
  <1>3. ASSUME c = NoCount
        PROVE  OneMiss([c EXCEPT !.miss = @ + 1])
    BY <1>3 DEF NoCount, OneMiss, Reads, Counts
  <1>4. ASSUME OneMiss(c)
        PROVE  ObservedAs([c EXCEPT !.errors = @ + n, !.observed = Append(@, r)], r, n)
    BY <1>1, <1>4 DEF OneMiss, ObservedAs, Reads, Counts
  <1> QED
    BY <1>2, <1>3, <1>4

LEMMA NoInfraCachedStep ==
  ASSUME TypeOK, CountedInv, [Next]_vars
  PROVE  NoInfraCached'
  <1> USE DEF TypeOK, Store!ContractTypeOK
  <1>1. ASSUME NEW v \in Calls, FinalizeAccepted(v) \/ FinalizeRejected(v),
               NEW k \in Keys, live'[k] # live[k]
        PROVE  ~Infra(live'[k].value)
    <2>1. ~Infra(verdict[v])
      BY <1>1, Disjoint DEF FinalizeAccepted, FinalizeRejected, Infra
    <2>2. live'[k].value = verdict[v]
      BY <1>1 DEF FinalizeAccepted, FinalizeRejected, Store!Set
    <2> QED
      BY <2>1, <2>2
  <1>2. ASSUME NEW v \in Calls, FinalizeAccepted(v) \/ FinalizeRejected(v)
        PROVE  NoInfraCached'
    BY <1>1, <1>2 DEF CountedInv, NoInfraCached, Infra
  <1>3. Forgets => NoInfraCached'
    BY DEF Forgets, CountedInv, NoInfraCached, Infra
  <1> QED
    BY <1>2, <1>3, OtherStepsForget

LEMMA CountFitsStep ==
  ASSUME TypeOK, CountedInv, [Next]_vars, NEW v \in Calls
  PROVE  CountFits(v)'
  <1> USE DEF TypeOK
  <1>1. CountFits(v)
    BY DEF CountedInv
  <1>2. CASE Rests(v)
    <2>1. /\ pc'[v] = pc[v] /\ inst'[v] = inst[v] /\ cred'[v] = cred[v]
          /\ verdict'[v] = verdict[v] /\ count'[v] = count[v]
      BY <1>2 DEF Rests
    <2> QED
      BY <1>1, <2>1 DEF CountFits, Counted, AccountOf, Infra
  <1>3. CASE Moves(v)
    <2>1. ASSUME NEW i \in Instances, NEW c \in Creds, Begin(v, i, c)
          PROVE  pc'[v] = "pos" /\ count'[v] = NoCount
      BY <1>1, <2>1 DEF Begin, CountFits
    <2>2. ASSUME NEW i \in Instances, NEW c \in Creds, Refuse(v, i, c)
          PROVE  pc'[v] = "done" /\ Counted(v, verdict[v])'
      BY <1>1, <2>2 DEF Refuse, Decide, CountFits, Counted, AccountOf, Infra
    <2>3. CASE HitPos(v) \/ HitNeg(v)
      <3>1. pc'[v] = "done" /\ OneHit(count'[v])
        <4>1. count[v] = NoCount /\ count[v] \in Counts /\ "hit" \in Results
          BY <1>1, <2>3 DEF HitPos, HitNeg, CountFits, Results
        <4>2. count'[v] = [count[v] EXCEPT !.hit = @ + 1, !.observed = Append(@, "hit")]
          BY <2>3 DEF HitPos, HitNeg, RecordHit
        <4>3. pc'[v] = "done"
          BY <2>3 DEF HitPos, HitNeg, Decide
        <4> QED
          BY <4>1, <4>2, <4>3, CountSteps
      <3>2. ~Infra(verdict'[v])
        <4>1. CASE HitPos(v)
          BY <4>1, Disjoint DEF HitPos, Decide, Found, Infra
        <4>2. CASE HitNeg(v)
          <5>1. PICK k \in Keys : live[k] # NoEntry /\ verdict'[v] = live[k].value
            BY <4>2, KeyType DEF HitNeg, Decide, Store!GetHit, Store!Readable,
                                 Store!ContractTypeOK
          <5> QED
            BY <5>1 DEF CountedInv, NoInfraCached
        <4> QED
          BY <2>3, <4>1, <4>2
      <3> QED
        BY <3>1, <3>2 DEF CountFits, Counted, Infra
    <2>4. CASE MissPos(v)
      BY <1>1, <2>4 DEF MissPos, CountFits
    <2>5. CASE MissNeg(v)
      <3>1. pc'[v] = "sent" /\ OneMiss(count'[v])
        <4>1. count[v] = NoCount /\ count[v] \in Counts /\ "hit" \in Results
          BY <1>1, <2>5 DEF MissNeg, CountFits, Results
        <4>2. count'[v] = [count[v] EXCEPT !.miss = @ + 1] /\ pc'[v] = "sent"
          BY <2>5 DEF MissNeg
        <4> QED
          BY <4>1, <4>2, CountSteps
      <3> QED
        BY <3>1 DEF CountFits
    <2>6. CASE \/ AnswerAccepts(v) \/ AnswerLacksUid(v) \/ AnswerRejects(v)
               \/ RequestFails(v) \/ ReadBody(v)
      <3>1. pc'[v] \in {"answered", "received"} /\ OneMiss(count'[v])
        BY <1>1, <2>6 DEF AnswerAccepts, AnswerLacksUid, AnswerRejects, Answered,
                          RequestFails, ReadBody, CountFits
      <3> QED
        BY <3>1 DEF CountFits
    <2>7. CASE Finalize(v)
      <3>1. pc'[v] = "done" /\ verdict'[v] = verdict[v] /\ OneMiss(count[v])
        BY <1>1, <2>7 DEF Finalize, FinalizeAccepted, FinalizeRejected, FinalizeFailed,
                          Decide, CountFits
      <3>2. CASE FinalizeAccepted(v)
        <4>1. ObservedAs(count'[v], "miss-ok", 0) /\ verdict[v] \in Principals
          BY <3>1, <3>2, CountSteps DEF FinalizeAccepted, Observe, Results
        <4> QED
          BY <3>1, <4>1 DEF CountFits, Counted
      <3>3. CASE FinalizeRejected(v)
        <4>1. /\ ObservedAs(count'[v], "miss-err", 1)
              /\ verdict[v] \in Errors /\ ~Infra(verdict[v])
          BY <3>1, <3>3, CountSteps DEF FinalizeRejected, Observe, Results, Infra
        <4> QED
          BY <3>1, <4>1 DEF CountFits, Counted, Infra
      <3>4. CASE FinalizeFailed(v)
        <4>1. ObservedAs(count'[v], "error", 1) /\ Infra(verdict[v])
          BY <3>1, <3>4, CountSteps DEF FinalizeFailed, Observe, Results, Infra
        <4> QED
          BY <3>1, <4>1 DEF CountFits, Counted, Infra
      <3> QED
        BY <2>7, <3>2, <3>3, <3>4 DEF Finalize
    <2>8. CASE Return(v)
      <3>1. pc'[v] = "idle" /\ count'[v] = NoCount
        BY <2>8 DEF Return
      <3> QED
        BY <3>1 DEF CountFits
    <2> QED
      BY <1>3, <2>1, <2>2, <2>3, <2>4, <2>5, <2>6, <2>7, <2>8 DEF Moves, CountFits
  <1> QED
    BY <1>2, <1>3, OneMoves

LEMMA CountedInit == Init => CountedInv
  BY DEF Init, CountedInv, NoInfraCached, CountFits, Store!ContractInit

LEMMA CountedHolds == Spec => [](TypeOK /\ CountedInv)
  <1>1. TypeOK /\ CountedInv /\ [Next]_vars => CountedInv'
    BY NoInfraCachedStep, CountFitsStep DEF CountedInv
  <1> QED
    BY <1>1, CountedInit, TypeCorrect, PTL DEF Spec

\* A call that reaches the cache is counted as one hit or one miss, and observed
\* once, under the result it returns.
THEOREM AccountingHolds == Spec => []Accounting
  <1>1. CountedInv => Accounting
    BY Disjoint
    DEF CountedInv, CountFits, Counted, Accounting, Infra, OneHit, ObservedAs,
        Reads, AccountOf
  <1> QED
    BY <1>1, CountedHolds, PTL

\* No call returns an infrastructure failure it did not meet itself.
THEOREM InfraNotCachedHolds == Spec => []InfraNotCached
  <1>1. CountedInv => InfraNotCached
    BY Disjoint
    DEF CountedInv, CountFits, Counted, InfraNotCached, Infra, ObservedAs, Reads
  <1> QED
    BY <1>1, CountedHolds, PTL

----------------------------------------------------------------------------
(* Verify implements AuthContract. *)

\* What a decided call tells its caller is no older than its window.
TellsFit ==
  \A v \in Calls, o \in Outcomes : pc[v] = "done" /\ verdict[v] = o /\ Judged(o) =>
    /\ StatusOf(o) \in Statuses
    /\ mark[v] <= Last(AccountOf(v), StatusOf(o)) + WindowOf[AccountOf(v)][StatusOf(o)]

LEMMA TellsInTime ==
  ASSUME TypeOK, KeyedInv, Staleness, NEW v \in Calls, NEW o \in Outcomes,
         pc[v] = "done", verdict[v] = o, Judged(o)
  PROVE  /\ StatusOf(o) \in Statuses
         /\ mark[v] <= Last(AccountOf(v), StatusOf(o)) + WindowOf[AccountOf(v)][StatusOf(o)]
  <1>1. Fits(o, inst[v], cred[v])
    BY DEF KeyedInv, CallsKeyed
  <1>2. <<o.realm, o.cred>> = AccountOf(v)
    BY <1>1 DEF Fits, AccountOf
  <1>3. mark[v] <= Last(AccountOf(v), StatusOf(o)) + Timeout + Lag + TtlOf[o]
    BY <1>2 DEF Staleness, CallsInTime, LastHeld
  <1>4. StatusOf(o) \in Statuses /\ AccountOf(v) \in Accounts
    BY <1>2, OutcomeFacts
  <1>5. TtlOf[o] = IF StatusOf(o) \in Grants THEN TTL[AccountOf(v)[1]] ELSE NegativeTTL
    <2>1. CASE o \in Principals
      <3>1. StatusOf(o) \in Grants
        BY <2>1 DEF StatusOf, Principals
      <3> QED
        BY <1>2, <2>1, <3>1, OutcomeFacts DEF AccountOf
    <2>2. CASE o \notin Principals
      <3>1. StatusOf(o) \notin Grants
        BY <2>2, AccountAssumption DEF StatusOf
      <3>2. o \in Errors
        BY <2>2 DEF Outcomes
      <3> QED
        BY <3>1, <3>2, OutcomeFacts
    <2> QED
      BY <2>1, <2>2
  <1>6. WindowOf[AccountOf(v)][StatusOf(o)] = Timeout + Lag + TtlOf[o]
    BY <1>4, <1>5 DEF WindowOf
  <1>7. \A a \in Accounts, s \in Statuses : Last(a, s) \in Int
    BY DEF Last, TypeOK, Store!ContractTypeOK
  <1>8. TtlOf[o] \in Nat
    BY OutcomeFacts
  <1> QED
    BY <1>3, <1>4, <1>6, <1>7, <1>8, TimeFacts

\* A step that decides call v tells or fails it, in the contract's terms.
LEMMA DecideTells ==
  ASSUME TypeOK, TellsFit', NEW v \in Calls, NEW o \in Outcomes,
         pc[v] \in {"pos", "neg", "received"}, Decide(v, o),
         UNCHANGED <<now, account, ended, inst, cred>>
  PROVE  Contract!ContractNext
  <1> USE DEF TypeOK
  <1>1. pc'[v] = "done" /\ verdict'[v] = o /\ mark'[v] = now
    BY DEF Decide
  <1>2. Asked' = Asked /\ Asked[v] = AccountOf(v) /\ AccountOf(v) \in Accounts
    BY InstanceAssumption DEF Asked, AccountOf, Decide, Accounts, Realms
  <1>3. Outcome' = [Outcome EXCEPT ![v] = Told(o)] /\ Outcome[v] = NoVerdict
    BY <1>1 DEF Outcome, Decide
  <1>4. Asked[v] # None
    BY <1>2, AccountAssumption
  <1>5. CASE Judged(o)
    <2>1. /\ StatusOf(o) \in Statuses
          /\ mark'[v] <= Last(AccountOf(v), StatusOf(o))'
                         + WindowOf[AccountOf(v)'][StatusOf(o)]
      BY <1>1, <1>5 DEF TellsFit, Judged, StatusOf, WindowOf
    <2>2. Last(AccountOf(v), StatusOf(o))' = Last(AccountOf(v), StatusOf(o))
      BY DEF Last, AccountOf
    <2>3. AccountOf(v)' = AccountOf(v)
      BY DEF AccountOf
    <2>4. Contract!Tell(v, StatusOf(o))
      BY <1>1, <1>2, <1>3, <1>4, <1>5, <2>1, <2>2, <2>3
      DEF Contract!Tell, Contract!LastTrue, Last, Told
    <2> QED
      BY <2>1, <2>4 DEF Contract!ContractNext, Contract!ContractStatuses,
                       Contract!ContractRefusals, Statuses, Refusals
  <1>6. CASE ~Judged(o)
    <2>1. Told(o) \in Contract!Unfounded
      BY <1>6 DEF Told, Contract!Unfounded
    <2>2. Contract!Fail(v, Told(o))
      BY <1>2, <1>3, <1>4 DEF Contract!Fail
    <2> QED
      BY <2>1, <2>2 DEF Contract!ContractNext
  <1> QED
    BY <1>5, <1>6

\* Every step of the verifiers is a step of the contract, or none of it.
LEMMA ContractStep ==
  ASSUME TypeOK, TypeOK', TellsFit', [Next]_vars
  PROVE  [Contract!ContractNext]_Contract!contractVars
  <1> USE DEF TypeOK, cacheVars, callVars
  <1> DEFINE Quiet == UNCHANGED <<now, account, ended, Asked, Outcome>>
  <1>1. Quiet => [Contract!ContractNext]_Contract!contractVars
    BY DEF Contract!contractVars
  <1>2. ASSUME NEW v \in Calls, NEW i \in Instances, NEW c \in Creds, Begin(v, i, c)
        PROVE  Contract!ContractNext
    <2>1. <<Realm[i], c>> \in Accounts
      BY InstanceAssumption DEF Accounts, Realms
    <2>2. Asked[v] = None /\ Asked' = [Asked EXCEPT ![v] = <<Realm[i], c>>]
      BY <1>2 DEF Begin, Asked, AccountOf
    <2>3. Outcome' = Outcome
      BY <1>2 DEF Begin, Outcome
    <2>4. Contract!Ask(v, <<Realm[i], c>>)
      BY <1>2, <2>2, <2>3 DEF Contract!Ask, Begin
    <2> QED
      BY <2>1, <2>4 DEF Contract!ContractNext
  <1>3. ASSUME NEW v \in Calls, NEW i \in Instances, NEW c \in Creds, Refuse(v, i, c)
        PROVE  Contract!ContractNext
    <2>1. <<Realm[i], c>> \in Accounts
      BY InstanceAssumption DEF Accounts, Realms
    <2>2. Asked[v] = None /\ Asked' = [Asked EXCEPT ![v] = <<Realm[i], c>>]
      BY <1>3 DEF Refuse, Decide, Asked, AccountOf
    <2>3. Outcome' = [Outcome EXCEPT ![v] = Told(verdict'[v])]
      BY <1>3 DEF Refuse, Decide, Outcome
    <2>4. verdict'[v].type = "error" /\ verdict'[v].why = "unsendable"
          /\ verdict'[v].kind = "invalid_credential"
      BY <1>3 DEF Refuse, Decide
    <2>5. Told(verdict'[v]) = "unfounded"
      BY <2>4 DEF Told, Judged, Principals
    <2>6. Contract!RefuseAtOnce(v, <<Realm[i], c>>)
      BY <1>3, <2>2, <2>3, <2>5 DEF Contract!RefuseAtOnce, Refuse
    <2> QED
      BY <2>1, <2>6 DEF Contract!ContractNext
  <1>4. ASSUME NEW v \in Calls, HitPos(v) \/ HitNeg(v) \/ Finalize(v)
        PROVE  Contract!ContractNext
    <2>1. PICK o \in Outcomes : o = verdict'[v]
      BY <1>4 DEF HitPos, HitNeg, Finalize, FinalizeAccepted, FinalizeRejected,
                  FinalizeFailed, Decide
    <2>2. pc[v] \in {"pos", "neg", "received"} /\ Decide(v, o)
      BY <1>4, <2>1 DEF HitPos, HitNeg, Finalize, FinalizeAccepted, FinalizeRejected,
                        FinalizeFailed, Decide
    <2>3. UNCHANGED <<now, account, ended, inst, cred>>
      BY <1>4 DEF HitPos, HitNeg, Finalize, FinalizeAccepted, FinalizeRejected,
                  FinalizeFailed, Store!GetHit, Store!Set
    <2> QED
      BY <2>2, <2>3, DecideTells
  <1>5. ASSUME NEW v \in Calls, MissPos(v) \/ MissNeg(v)
        PROVE  Quiet
    BY <1>5 DEF MissPos, MissNeg, Store!Get, Store!GetHit, Store!GetMiss, Asked,
                Outcome, AccountOf
  <1>6. ASSUME NEW v \in Calls,
               \/ AnswerAccepts(v) \/ AnswerLacksUid(v) \/ AnswerRejects(v)
               \/ RequestFails(v) \/ ReadBody(v)
        PROVE  Quiet
    <2>1. PICK place \in {"answered", "received"} : pc' = [pc EXCEPT ![v] = place]
      BY <1>6 DEF AnswerAccepts, AnswerLacksUid, AnswerRejects, Answered, RequestFails,
                  ReadBody
    <2>2. pc[v] \in {"sent", "answered"} /\ UNCHANGED <<now, account, ended, inst, cred>>
      BY <1>6 DEF AnswerAccepts, AnswerLacksUid, AnswerRejects, Answered, RequestFails,
                  ReadBody
    <2>3. Asked' = Asked
      BY <2>1, <2>2 DEF Asked, AccountOf
    <2>4. \A w \in Calls : w # v => verdict'[w] = verdict[w]
      BY <1>6 DEF AnswerAccepts, AnswerLacksUid, AnswerRejects, Answered, RequestFails,
                  ReadBody
    <2>5. Outcome' = Outcome
      BY <2>1, <2>2, <2>4 DEF Outcome
    <2> QED
      BY <2>2, <2>3, <2>5
  <1>7. ASSUME NEW v \in Calls, Return(v)
        PROVE  Contract!ContractNext
    <2>1. Asked' = [Asked EXCEPT ![v] = None]
      BY <1>7 DEF Return, Asked, AccountOf
    <2>2. Outcome' = [Outcome EXCEPT ![v] = NoVerdict]
      BY <1>7 DEF Return, Outcome
    <2>3. pc[v] = "done" /\ UNCHANGED <<now, account, ended>>
      BY <1>7 DEF Return, Store!Consume
    <2>4. PICK o \in Outcomes : o = verdict[v]
      BY <2>3
    <2>5. Told(o) \in Statuses \cup {"unfounded", "infra_failure"}
      BY OutcomeFacts DEF Told
    <2>6. Told(o) # NoVerdict
      BY <2>5, AccountAssumption DEF Statuses, Refusals
    <2>7. Outcome[v] = Told(o)
      BY <2>3, <2>4 DEF Outcome
    <2>8. Contract!Forget(v)
      BY <2>1, <2>2, <2>3, <2>6, <2>7 DEF Contract!Forget
    <2> QED
      BY <2>8 DEF Contract!ContractNext
  <1>8. ASSUME NEW a \in Accounts, NEW status \in Statuses, SetAccount(a, status)
        PROVE  Contract!ContractNext
    <2>1. Asked' = Asked /\ Outcome' = Outcome
      BY <1>8 DEF SetAccount, Asked, Outcome, AccountOf
    <2>2. Contract!Change(a, status)
      BY <1>8, <2>1 DEF SetAccount, Contract!Change
    <2> QED
      BY <2>2 DEF Contract!ContractNext, Contract!ContractStatuses,
                  Contract!ContractRefusals, Statuses, Refusals
  <1>9. ASSUME Tick
        PROVE  Contract!ContractNext
    <2>1. Asked' = Asked /\ Outcome' = Outcome
      BY <1>9 DEF Tick, Asked, Outcome, AccountOf
    <2> QED
      BY <1>9, <2>1 DEF Tick, Store!Tick, Contract!ContractNext, Contract!Pass
  <1>10. (\E k \in Keys : Evict(k)) \/ UNCHANGED vars => Quiet
    BY DEF Evict, Store!Lose, vars, Asked, Outcome, AccountOf
  <1> HIDE DEF Quiet
  <1> QED
    BY <1>1, <1>2, <1>3, <1>4, <1>5, <1>6, <1>7, <1>8, <1>9, <1>10 DEF Next, TimeOut

\* The initial states of the verifiers are the contract's.
LEMMA ContractStart == Init => Contract!ContractInit
  BY DEF Init, Store!ContractInit, Contract!ContractInit, Contract!ContractStatuses,
         Contract!ContractRefusals, Statuses, Refusals, Asked, Outcome

\* Verify implements AuthContract for every number of calls, credentials and
\* instances, every ttl, and every behaviour of the cache and octo-server.
THEOREM ContractImplemented ==
  ASSUME TimerCoversBody
  PROVE  Spec => ImplementsContract
  <1>1. TypeOK /\ KeyedInv /\ Staleness => TellsFit
    BY TellsInTime DEF TellsFit
  <1>2. Spec => [](TypeOK /\ TellsFit)
    BY <1>1, StalenessHolds, PTL
  <1>3. TypeOK /\ TellsFit /\ TypeOK' /\ TellsFit' /\ [Next]_vars
        => [Contract!ContractNext]_Contract!contractVars
    BY ContractStep
  <1> QED
    BY <1>2, <1>3, ContractStart, PTL DEF Spec, ImplementsContract, Contract!ContractSpec

=============================================================================
