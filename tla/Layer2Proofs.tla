---------------------------- MODULE Layer2Proofs ----------------------------
(***************************************************************************)
(* Proofs about Layer2: its type invariant, that whoever the hook lets in  *)
(* held the role when the application was asked, that a token lives for    *)
(* its ttl to within a second, and that Layer2 implements RoleCheck.       *)
(***************************************************************************)
EXTENDS Layer2, TLAPS

\* Cutting a moment to its second moves it back by less than one.
LEMMA TruncatedBounds ==
  ASSUME NEW t \in Nat
  PROVE  Truncated(t) \in Nat /\ Truncated(t) <= t /\ t < Truncated(t) + Second
<1>1. t % Second \in 0 .. Second - 1
  BY NumberAssumption
<1>2. t % Second <= t
  BY NumberAssumption, Z3
<1> QED BY <1>1, <1>2, NumberAssumption DEF Truncated

\* The ttl used is a natural number of ticks.
LEMMA LifetimeType ==
  ASSUME NEW ttl \in TTLs
  PROVE  Lifetime(ttl) \in Nat
BY NumberAssumption DEF Lifetime

\* What Issue signs is a token, cut to its second.
LEMMA SignedType ==
  ASSUME TypeOK, NEW i \in Issuers, NEW ttl \in TTLs, claims[i] # None,
         Usable(IssuerKey, IssuerAlg),
         NEW due, due = now + Lifetime(ttl),
         NEW t, t = [uid |-> claims[i].uid, doc |-> claims[i].doc, role |-> claims[i].role,
                     epoch |-> claims[i].epoch, key |-> IssuerKey,
                     exp |-> Truncated(due), due |-> due]
  PROVE  t \in Tokens /\ InTheLastSecond(t)
<1>1. due \in Nat
  BY LifetimeType DEF TypeOK
<1>2. Truncated(due) \in Nat /\ Truncated(due) <= due /\ due < Truncated(due) + Second
  BY <1>1, TruncatedBounds
<1>3. claims[i] \in Claims
  BY DEF TypeOK
<1>4. IssuerKey \in Secrets
  BY TokenAssumption DEF Usable
<1>5. t \in Tokens
  BY <1>1, <1>2, <1>3, <1>4 DEF Tokens, Claims
<1> QED BY <1>2, <1>5 DEF InTheLastSecond

\* What software elsewhere signs is a token, too.
LEMMA ForeignType ==
  ASSUME NEW claim \in ForeignClaims, NEW key \in Secrets,
         NEW t, t = [uid |-> claim.uid, doc |-> claim.doc, role |-> claim.role,
                     epoch |-> claim.epoch, key |-> key, exp |-> Horizon, due |-> Horizon]
  PROVE  t \in Tokens /\ InTheLastSecond(t)
<1>1. t \in Tokens
  BY NumberAssumption DEF ForeignClaims, Tokens
<1>2. InTheLastSecond(t)
  BY NumberAssumption DEF InTheLastSecond
<1> QED BY <1>1, <1>2

\* Presenting a token starts a well-formed attempt.
LEMMA PresentType ==
  ASSUME TypeOK, NEW c \in Conns, NEW t \in Tokens, NEW d \in Docs,
         NEW place \in {"asked", "rejected"}, NEW outcome \in Outcomes \cup {None},
         Present(c, t, d, place, outcome)
  PROVE  TypeOK'
<1>1. [token |-> t, doc |-> d, at |-> now, epoch |-> 0, held |-> FALSE,
       outcome |-> outcome] \in Attempts
  BY DEF TypeOK, Attempts
<1>2. attempt' \in [Conns -> Attempts \cup {None}]
  BY <1>1 DEF TypeOK, Present
<1>3. pc' \in [Conns -> {"idle", "asked", "told", "open", "rejected"}]
  BY DEF TypeOK, Present
<1>4. \A x \in Conns : pc'[x] # "idle" => attempt'[x] \in Attempts
  BY <1>1 DEF TypeOK, Present
<1> QED BY <1>2, <1>3, <1>4 DEF TypeOK, Present, appVars, issuerVars

\* Finishing keeps it well formed.
LEMMA FinishType ==
  ASSUME TypeOK, NEW c \in Conns, pc[c] # "idle", NEW outcome \in Outcomes,
         Finish(c, outcome)
  PROVE  TypeOK'
<1>1. attempt[c] \in Attempts
  BY DEF TypeOK
<1>2. [attempt[c] EXCEPT !.outcome = outcome] \in Attempts
  BY <1>1 DEF Attempts
<1>3. attempt' = [attempt EXCEPT ![c] = [attempt[c] EXCEPT !.outcome = outcome]]
  BY DEF Finish
<1>4. attempt' \in [Conns -> Attempts \cup {None}]
  BY <1>2, <1>3 DEF TypeOK
<1>5. \A x \in Conns : pc'[x] # "idle" => attempt'[x] \in Attempts
  BY <1>2, <1>3 DEF TypeOK, Finish
<1>6. pc' \in [Conns -> {"idle", "asked", "told", "open", "rejected"}]
  BY DEF TypeOK, Finish
<1> QED BY <1>4, <1>5, <1>6 DEF TypeOK, Finish, appVars, issuerVars

\* The answer the application gives is written into a well-formed attempt.
LEMMA ReadEpochType ==
  ASSUME TypeOK, NEW c \in Conns, ReadEpoch(c)
  PROVE  TypeOK'
<1> DEFINE t == attempt[c].token
           held == Holds(t.uid, attempt[c].doc, t.role)
           e == epoch[attempt[c].doc]
<1>1. attempt[c] \in Attempts
  BY DEF TypeOK, ReadEpoch
<1>2. held \in BOOLEAN
  BY DEF Holds
<1>3. e \in Nat
  BY <1>1 DEF TypeOK, Attempts
<1>4. attempt' = [attempt EXCEPT ![c] = [attempt[c] EXCEPT !.epoch = e, !.held = held]]
  BY DEF ReadEpoch
<1> HIDE DEF t, held, e
<1>5. [attempt[c] EXCEPT !.epoch = e, !.held = held] \in Attempts
  BY <1>1, <1>2, <1>3 DEF Attempts
<1>6. attempt' \in [Conns -> Attempts \cup {None}]
  BY <1>4, <1>5 DEF TypeOK
<1>7. \A x \in Conns : pc'[x] # "idle" => attempt'[x] \in Attempts
  BY <1>4, <1>5 DEF TypeOK, ReadEpoch
<1>8. pc' \in [Conns -> {"idle", "asked", "told", "open", "rejected"}]
  BY DEF TypeOK, ReadEpoch
<1> QED BY <1>6, <1>7, <1>8 DEF TypeOK, ReadEpoch, appVars, issuerVars

\* No step leaves the types.
LEMMA TypeStep ==
  ASSUME TypeOK, [Next]_vars
  PROVE  TypeOK'
<1>1. ASSUME NEW u \in Users, NEW d \in Docs, NEW r \in Roles,
             Grant(u, d, r) \/ Revoke(u, d, r)
      PROVE  TypeOK'
  <2>1. roles' \in [Users \X Docs -> SUBSET Roles]
    BY <1>1 DEF TypeOK, Grant, Revoke
  <2>2. epoch' \in [Docs -> Nat]
    BY <1>1 DEF TypeOK, Grant, Revoke
  <2> QED BY <1>1, <2>1, <2>2 DEF TypeOK, Grant, Revoke, issuerVars, connVars
<1>2. ASSUME NEW i \in Issuers, NEW u \in Users, NEW d \in Docs, NEW r \in Roles,
             Decide(i, u, d, r)
      PROVE  TypeOK'
  <2>1. PICK uid \in {u, None}, doc \in {d, None} :
          claims' = [claims EXCEPT ![i] =
                       [uid |-> uid, doc |-> doc, role |-> r, epoch |-> epoch[d]]]
    BY <1>2 DEF Decide
  <2>2. [uid |-> uid, doc |-> doc, role |-> r, epoch |-> epoch[d]] \in Claims
    BY DEF Claims, TypeOK
  <2>3. claims' \in [Issuers -> Claims \cup {None}]
    BY <2>1, <2>2 DEF TypeOK
  <2> QED BY <1>2, <2>3 DEF TypeOK, Decide, appVars, connVars
<1>3. ASSUME NEW i \in Issuers, NEW ttl \in TTLs, Issue(i, ttl)
      PROVE  TypeOK'
  <2> DEFINE due == now + Lifetime(ttl)
             t == [uid |-> claims[i].uid, doc |-> claims[i].doc, role |-> claims[i].role,
                   epoch |-> claims[i].epoch, key |-> IssuerKey,
                   exp |-> Truncated(due), due |-> due]
  <2>1. t \in Tokens
    BY <1>3, SignedType DEF Issue
  <2>2. token' = [token EXCEPT ![i] = t] /\ claims' = [claims EXCEPT ![i] = None]
    BY <1>3 DEF Issue
  <2> HIDE DEF t
  <2>3. token' \in [Issuers -> Tokens \cup {None}]
    BY <2>1, <2>2 DEF TypeOK
  <2>4. claims' \in [Issuers -> Claims \cup {None}]
    BY <2>2 DEF TypeOK
  <2> QED BY <1>3, <2>3, <2>4 DEF TypeOK, Issue, appVars, connVars
<1>4. ASSUME NEW i \in Issuers, IssueRefused(i)
      PROVE  TypeOK'
  BY <1>4 DEF TypeOK, IssueRefused, appVars, connVars
<1>5. ASSUME NEW i \in Issuers, NEW claim \in ForeignClaims, NEW key \in Secrets,
             SignedElsewhere(i, claim, key)
      PROVE  TypeOK'
  <2> DEFINE t == [uid |-> claim.uid, doc |-> claim.doc, role |-> claim.role,
                   epoch |-> claim.epoch, key |-> key, exp |-> Horizon, due |-> Horizon]
  <2>1. t \in Tokens
    BY ForeignType
  <2>2. token' = [token EXCEPT ![i] = t]
    BY <1>5 DEF SignedElsewhere
  <2> HIDE DEF t
  <2>3. token' \in [Issuers -> Tokens \cup {None}]
    BY <2>1, <2>2 DEF TypeOK
  <2> QED BY <1>5, <2>3 DEF TypeOK, SignedElsewhere, appVars, connVars
<1>6. ASSUME NEW c \in Conns, NEW i \in Issuers, NEW s \in Servers, NEW d \in Docs,
             Authenticate(c, i, s, d)
      PROVE  TypeOK'
  <2>1. token[i] \in Tokens /\ Present(c, token[i], d, "asked", None)
    BY <1>6 DEF TypeOK, Authenticate
  <2> QED BY <2>1, PresentType
<1>7. ASSUME NEW c \in Conns, NEW i \in Issuers, NEW s \in Servers, NEW d \in Docs,
             Refuse(c, i, s, d)
      PROVE  TypeOK'
  <2>1. PICK outcome \in Outcomes : Present(c, token[i], d, "rejected", outcome)
    BY <1>7 DEF Refuse
  <2>2. token[i] \in Tokens
    BY <1>7 DEF TypeOK, Refuse
  <2> QED BY <2>1, <2>2, PresentType
<1>8. ASSUME NEW c \in Conns, ReadEpoch(c)
      PROVE  TypeOK'
  BY <1>8, ReadEpochType
<1>9. ASSUME NEW c \in Conns, EpochFails(c) \/ Accept(c) \/ RejectStale(c)
      PROVE  TypeOK'
  <2>1. PICK outcome \in Outcomes : pc[c] # "idle" /\ Finish(c, outcome)
    BY <1>9 DEF EpochFails, Accept, RejectStale, Outcomes
  <2> QED BY <2>1, FinishType
<1>10. ASSUME NEW c \in Conns, Close(c)
       PROVE  TypeOK'
  BY <1>10 DEF TypeOK, Close, appVars, issuerVars
<1>11. CASE Tick
  BY <1>11 DEF TypeOK, Tick, appVars, issuerVars, connVars
<1>12. CASE UNCHANGED vars
  BY <1>12 DEF TypeOK, vars
<1> QED BY <1>1, <1>2, <1>3, <1>4, <1>5, <1>6, <1>7, <1>8, <1>9, <1>10, <1>11, <1>12 DEF Next

\* Every variable of the token model keeps its type (layer2.go, hocuspocus.ts).
THEOREM TypeCorrect == Spec => []TypeOK
<1>1. Init => TypeOK
  BY NumberAssumption DEF Init, TypeOK
<1>2. TypeOK /\ [Next]_vars => TypeOK'
  BY TypeStep
<1> QED BY <1>1, <1>2, PTL DEF Spec

----------------------------------------------------------------------------
(* The epoch. *)

\* A claim that is true stays true, whatever the application does: a role is
\* taken away only together with a rise of the document's epoch.
LEMMA ClaimStaysTrue ==
  ASSUME TypeOK, [Next]_vars,
         NEW t, t.doc \in Docs \cup {None}, t.epoch \in Nat, ClaimTrue(t)
  PROVE  ClaimTrue(t)'
<1>1. ASSUME NEW u \in Users, NEW d \in Docs, NEW r \in Roles, Grant(u, d, r)
      PROVE  ClaimTrue(t)'
  BY <1>1 DEF TypeOK, Grant, ClaimTrue, Holds
<1>2. ASSUME NEW u \in Users, NEW d \in Docs, NEW r \in Roles, Revoke(u, d, r)
      PROVE  ClaimTrue(t)'
  <2>1. CASE t.doc = d
    BY <1>2, <2>1 DEF TypeOK, Revoke, ClaimTrue
  <2>2. CASE t.doc # d
    BY <1>2, <2>2 DEF TypeOK, Revoke, ClaimTrue, Holds
  <2> QED BY <2>1, <2>2
<1>3. CASE UNCHANGED appVars
  BY <1>3 DEF appVars, ClaimTrue, Holds
<1>4. \/ \E u \in Users, d \in Docs, r \in Roles : Grant(u, d, r) \/ Revoke(u, d, r)
      \/ UNCHANGED appVars
  BY DEF Next, vars, appVars, Decide, Issue, IssueRefused, SignedElsewhere, Authenticate,
         Refuse, Present, ReadEpoch, EpochFails, Accept, RejectStale, Finish, Close, Tick
<1> QED BY <1>1, <1>2, <1>3, <1>4

\* Tokens and pending claims stay true.
LEMMA TokensStep ==
  ASSUME TypeOK, TokensTrue, [Next]_vars
  PROVE  TokensTrue'
<1>1. ASSUME NEW i \in Issuers, claims'[i] # None
      PROVE  ClaimTrue(claims[i])'
  <2>1. CASE claims'[i] = claims[i]
    <3>1. PICK t \in Claims : t = claims[i]
      BY <1>1, <2>1 DEF TypeOK
    <3>2. t.doc \in Docs \cup {None} /\ t.epoch \in Nat /\ ClaimTrue(t)
      BY <1>1, <2>1, <3>1 DEF Claims, TokensTrue
    <3>3. ClaimTrue(t)'
      BY <3>2, ClaimStaysTrue
    <3> QED BY <2>1, <3>1, <3>3 DEF ClaimTrue, Holds
  <2>2. CASE \E u \in Users, d \in Docs, r \in Roles : Decide(i, u, d, r)
    <3>1. PICK u \in Users, d \in Docs, r \in Roles : Decide(i, u, d, r)
      BY <2>2
    <3>2. PICK uid \in {u, None}, doc \in {d, None} :
            claims' = [claims EXCEPT ![i] =
                         [uid |-> uid, doc |-> doc, role |-> r, epoch |-> epoch[d]]]
      BY <3>1 DEF Decide
    <3>3. claims'[i] = [uid |-> uid, doc |-> doc, role |-> r, epoch |-> epoch[d]]
      BY <3>2 DEF TypeOK
    <3>4. epoch[d] \in Nat /\ Holds(u, d, r) /\ roles' = roles /\ epoch' = epoch
      BY <3>1 DEF TypeOK, Decide, appVars
    <3> QED BY <3>3, <3>4 DEF ClaimTrue, Holds
  <2>3. \/ claims'[i] = claims[i] \/ claims'[i] = None
        \/ \E u \in Users, d \in Docs, r \in Roles : Decide(i, u, d, r)
    <3>1. ASSUME NEW j \in Issuers, NEW u \in Users, NEW d \in Docs, NEW r \in Roles,
                 Decide(j, u, d, r), j # i
          PROVE  claims'[i] = claims[i]
      BY <3>1 DEF TypeOK, Decide
    <3>2. ASSUME NEW j \in Issuers, NEW ttl \in TTLs, Issue(j, ttl) \/ IssueRefused(j)
          PROVE  claims'[i] = claims[i] \/ claims'[i] = None
      BY <3>2 DEF TypeOK, Issue, IssueRefused
    <3>3. \/ \E j \in Issuers, u \in Users, d \in Docs, r \in Roles : Decide(j, u, d, r)
          \/ \E j \in Issuers, ttl \in TTLs : Issue(j, ttl)
          \/ \E j \in Issuers : IssueRefused(j)
          \/ UNCHANGED claims
      BY DEF Next, vars, issuerVars, Grant, Revoke, SignedElsewhere, Authenticate, Refuse,
             Present, ReadEpoch, EpochFails, Accept, RejectStale, Finish, Close, Tick
    <3>4. ASSUME NEW j \in Issuers, IssueRefused(j)
          PROVE  claims'[i] = claims[i] \/ claims'[i] = None
      BY <3>4 DEF TypeOK, IssueRefused
    <3> QED BY <3>1, <3>2, <3>3, <3>4
  <2> QED BY <1>1, <2>1, <2>2, <2>3
<1>2. ASSUME NEW i \in Issuers, token'[i] # None, token'[i].key \in LongSecrets
      PROVE  ClaimTrue(token[i])'
  <2>1. CASE token'[i] = token[i]
    <3>1. PICK t \in Tokens : t = token[i]
      BY <1>2, <2>1 DEF TypeOK
    <3>2. t.doc \in Docs \cup {None} /\ t.epoch \in Nat /\ ClaimTrue(t)
      BY <1>2, <2>1, <3>1 DEF Tokens, TokensTrue
    <3>3. ClaimTrue(t)'
      BY <3>2, ClaimStaysTrue
    <3> QED BY <2>1, <3>1, <3>3 DEF ClaimTrue, Holds
  <2>2. CASE \E ttl \in TTLs : Issue(i, ttl)
    <3>1. PICK ttl \in TTLs : Issue(i, ttl)
      BY <2>2
    <3>2. ClaimTrue(claims[i]) /\ roles' = roles /\ epoch' = epoch
      BY <3>1 DEF Issue, TokensTrue, appVars
    <3>3. /\ token'[i].uid = claims[i].uid /\ token'[i].doc = claims[i].doc
          /\ token'[i].role = claims[i].role /\ token'[i].epoch = claims[i].epoch
      BY <3>1 DEF TypeOK, Issue
    <3> QED BY <3>2, <3>3 DEF ClaimTrue, Holds
  <2>3. CASE \E claim \in ForeignClaims, key \in Secrets : SignedElsewhere(i, claim, key)
    <3>1. PICK claim \in ForeignClaims, key \in Secrets : SignedElsewhere(i, claim, key)
      BY <2>3
    <3>2. token'[i].key = key /\ key \notin LongSecrets
      BY <3>1 DEF TypeOK, SignedElsewhere
    <3> QED BY <1>2, <3>2
  <2>4. \/ token'[i] = token[i]
        \/ \E ttl \in TTLs : Issue(i, ttl)
        \/ \E claim \in ForeignClaims, key \in Secrets : SignedElsewhere(i, claim, key)
    <3>1. ASSUME NEW j \in Issuers, NEW ttl \in TTLs, Issue(j, ttl), j # i
          PROVE  token'[i] = token[i]
      BY <3>1 DEF TypeOK, Issue
    <3>2. ASSUME NEW j \in Issuers, NEW claim \in ForeignClaims, NEW key \in Secrets,
                 SignedElsewhere(j, claim, key), j # i
          PROVE  token'[i] = token[i]
      BY <3>2 DEF TypeOK, SignedElsewhere
    <3>3. \/ \E j \in Issuers, ttl \in TTLs : Issue(j, ttl)
          \/ \E j \in Issuers, claim \in ForeignClaims, key \in Secrets :
               SignedElsewhere(j, claim, key)
          \/ UNCHANGED token
      BY DEF Next, vars, issuerVars, Grant, Revoke, Decide, IssueRefused, Authenticate,
             Refuse, Present, ReadEpoch, EpochFails, Accept, RejectStale, Finish, Close, Tick
    <3> QED BY <3>1, <3>2, <3>3
  <2> QED BY <2>1, <2>2, <2>3, <2>4
<1> QED BY <1>1, <1>2 DEF TokensTrue

\* A step moves at most one connection, by one of the hook's steps.
LEMMA OneConnMoves ==
  ASSUME TypeOK, [Next]_vars, NEW c \in Conns
  PROVE  \/ pc'[c] = pc[c] /\ attempt'[c] = attempt[c]
         \/ \E i \in Issuers, s \in Servers, d \in Docs :
              Authenticate(c, i, s, d) \/ Refuse(c, i, s, d)
         \/ ReadEpoch(c) \/ EpochFails(c) \/ Accept(c) \/ RejectStale(c) \/ Close(c)
<1>1. ASSUME NEW x \in Conns, NEW i \in Issuers, NEW s \in Servers, NEW d \in Docs,
             Authenticate(x, i, s, d) \/ Refuse(x, i, s, d), x # c
      PROVE  pc'[c] = pc[c] /\ attempt'[c] = attempt[c]
  <2>1. PICK place, outcome : Present(x, token[i], d, place, outcome)
    BY <1>1 DEF Authenticate, Refuse
  <2> QED BY <1>1, <2>1 DEF TypeOK, Present
<1>2. ASSUME NEW x \in Conns, x # c,
             ReadEpoch(x) \/ EpochFails(x) \/ Accept(x) \/ RejectStale(x) \/ Close(x)
      PROVE  pc'[c] = pc[c] /\ attempt'[c] = attempt[c]
  BY <1>2 DEF TypeOK, ReadEpoch, EpochFails, Accept, RejectStale, Finish, Close
<1>3. \/ UNCHANGED connVars
      \/ \E x \in Conns, i \in Issuers, s \in Servers, d \in Docs :
           Authenticate(x, i, s, d) \/ Refuse(x, i, s, d)
      \/ \E x \in Conns :
           ReadEpoch(x) \/ EpochFails(x) \/ Accept(x) \/ RejectStale(x) \/ Close(x)
  BY DEF Next, vars, connVars, Grant, Revoke, Decide, Issue, IssueRefused, SignedElsewhere,
         Tick
<1> QED BY <1>1, <1>2, <1>3 DEF connVars

\* What the hook knows of the attempts it lets on stays true.
LEMMA AttemptsStep ==
  ASSUME TypeOK, TokensTrue, AttemptsTrue, [Next]_vars
  PROVE  AttemptsTrue'
<1> SUFFICES ASSUME NEW c \in Conns
    PROVE  /\ (pc[c] \in {"asked", "told", "open"} =>
                 /\ attempt[c].token.key \in LongSecrets
                 /\ attempt[c].token.uid # None
                 /\ attempt[c].token.doc = attempt[c].doc)'
           /\ (pc[c] = "asked" => ClaimTrue(attempt[c].token))'
           /\ (pc[c] \in {"told", "open"} =>
                 /\ attempt[c].token.epoch <= attempt[c].epoch
                 /\ attempt[c].token.epoch = attempt[c].epoch => attempt[c].held)'
           /\ (pc[c] = "open" => ~Stale(c))'
  BY DEF AttemptsTrue
<1>1. CASE pc'[c] = pc[c] /\ attempt'[c] = attempt[c]
  <2>1. (pc[c] = "asked" => ClaimTrue(attempt[c].token))'
    <3>1. SUFFICES ASSUME pc[c] = "asked" PROVE ClaimTrue(attempt[c].token)'
      BY <1>1
    <3>2. attempt[c] \in Attempts /\ ClaimTrue(attempt[c].token)
      BY <3>1 DEF TypeOK, AttemptsTrue
    <3>3. PICK t \in Tokens : t = attempt[c].token
      BY <3>2 DEF Attempts
    <3>4. t.doc \in Docs \cup {None} /\ t.epoch \in Nat /\ ClaimTrue(t)
      BY <3>2, <3>3 DEF Tokens
    <3>5. ClaimTrue(t)'
      BY <3>4, ClaimStaysTrue
    <3> QED BY <1>1, <3>3, <3>5 DEF ClaimTrue, Holds
  <2>2. (pc[c] = "open" => ~Stale(c))'
    BY <1>1 DEF AttemptsTrue, Stale, Rounded
  <2> QED BY <1>1, <2>1, <2>2 DEF AttemptsTrue
<1>2. ASSUME NEW i \in Issuers, NEW s \in Servers, NEW d \in Docs, Authenticate(c, i, s, d)
      PROVE  /\ pc'[c] = "asked"
             /\ attempt'[c].token.key \in LongSecrets
             /\ attempt'[c].token.uid # None
             /\ attempt'[c].token.doc = attempt'[c].doc
             /\ ClaimTrue(attempt[c].token)'
  <2>1. /\ pc'[c] = "asked" /\ attempt'[c].token = token[i] /\ attempt'[c].doc = d
        /\ roles' = roles /\ epoch' = epoch
    BY <1>2 DEF TypeOK, Authenticate, Present, appVars
  <2>2. token[i].key \in LongSecrets /\ token[i].uid # None /\ token[i].doc = d
    BY <1>2 DEF Authenticate, Passes, Verified, Signed, Usable
  <2>3. ClaimTrue(token[i])
    BY <1>2, <2>2 DEF Authenticate, TokensTrue
  <2> QED BY <2>1, <2>2, <2>3 DEF ClaimTrue, Holds
<1>3. ASSUME NEW i \in Issuers, NEW s \in Servers, NEW d \in Docs, Refuse(c, i, s, d)
      PROVE  pc'[c] = "rejected"
  BY <1>3 DEF TypeOK, Refuse, Present
<1>4. CASE ReadEpoch(c)
  <2>1. /\ attempt[c] \in Attempts /\ ClaimTrue(attempt[c].token)
        /\ attempt[c].token.key \in LongSecrets /\ attempt[c].token.uid # None
        /\ attempt[c].token.doc = attempt[c].doc
    BY <1>4 DEF TypeOK, ReadEpoch, AttemptsTrue
  <2>2. /\ pc'[c] = "told" /\ attempt'[c].token = attempt[c].token
        /\ attempt'[c].doc = attempt[c].doc
        /\ attempt'[c].epoch = epoch[attempt[c].doc]
        /\ attempt'[c].held = Holds(attempt[c].token.uid, attempt[c].doc, attempt[c].token.role)
    BY <1>4, <2>1 DEF TypeOK, ReadEpoch, Attempts
  <2>3. attempt[c].token.doc # None
    BY <2>1, TokenAssumption DEF Attempts
  <2> QED BY <2>1, <2>2, <2>3 DEF ClaimTrue
<1>5. CASE EpochFails(c) \/ RejectStale(c)
  BY <1>5 DEF TypeOK, EpochFails, RejectStale, Finish
<1>6. CASE Accept(c)
  <2>1. /\ attempt[c] \in Attempts
        /\ attempt[c].token.key \in LongSecrets /\ attempt[c].token.uid # None
        /\ attempt[c].token.doc = attempt[c].doc
        /\ attempt[c].token.epoch <= attempt[c].epoch
        /\ attempt[c].token.epoch = attempt[c].epoch => attempt[c].held
        /\ ~Stale(c)
    BY <1>6 DEF TypeOK, Accept, AttemptsTrue
  <2>2. /\ pc'[c] = "open" /\ attempt'[c].token = attempt[c].token
        /\ attempt'[c].doc = attempt[c].doc /\ attempt'[c].epoch = attempt[c].epoch
        /\ attempt'[c].held = attempt[c].held
    BY <1>6, <2>1 DEF TypeOK, Accept, Finish, Attempts
  <2>3. ~Stale(c)'
    BY <2>1, <2>2 DEF Stale, Rounded
  <2> QED BY <2>1, <2>2, <2>3
<1>7. CASE Close(c)
  BY <1>7 DEF TypeOK, Close
<1> QED BY <1>1, <1>2, <1>3, <1>4, <1>5, <1>6, <1>7, OneConnMoves

\* Nothing is claimed before the first step.
LEMMA TrueInit ==
  ASSUME Init
  PROVE  TokensTrue /\ AttemptsTrue
BY DEF Init, TokensTrue, AttemptsTrue

\* A token past the epoch is never current again, and a current one is true
\* (layer2.go's permission_epoch claim): the run's TokensTrue, for all constants.
THEOREM TokensAreTrue == Spec => []TokensTrue
<1>1. TokensTrue /\ TypeOK /\ [Next]_vars => TokensTrue'
  BY TokensStep
<1> QED BY <1>1, TrueInit, TypeCorrect, PTL DEF Spec

\* What the hook relies on after each of its checks (hocuspocus.ts).
THEOREM AttemptsAreTrue == Spec => []AttemptsTrue
<1>1. TypeOK /\ TokensTrue /\ AttemptsTrue /\ [Next]_vars => AttemptsTrue'
  BY AttemptsStep
<1> QED BY <1>1, TrueInit, TypeCorrect, TokensAreTrue, PTL DEF Spec

\* Whoever the hook lets in held the role when the application was asked
\* (hocuspocus.ts), for any number of users, documents, servers and tokens.
THEOREM AcceptedHeldTheRole == Spec => []AcceptedHeld
<1>1. ASSUME TypeOK, AttemptsTrue
      PROVE  AcceptedHeld
  <2> SUFFICES ASSUME NEW c \in Conns, pc[c] = "open", attempt[c].epoch <= Exact
               PROVE  attempt[c].held
    BY DEF AcceptedHeld
  <2>1. /\ attempt[c] \in Attempts
        /\ attempt[c].token.epoch <= attempt[c].epoch
        /\ attempt[c].token.epoch = attempt[c].epoch => attempt[c].held
        /\ ~Stale(c)
    BY <1>1 DEF TypeOK, AttemptsTrue
  <2>2. attempt[c].epoch \in Nat /\ attempt[c].token.epoch \in Nat
    BY <2>1 DEF Attempts, Tokens
  <2>3. attempt[c].token.epoch = attempt[c].epoch
    BY <2>1, <2>2, NumberAssumption DEF Stale, Rounded
  <2> QED BY <2>1, <2>3
<1> QED BY <1>1, TypeCorrect, AttemptsAreTrue, PTL

----------------------------------------------------------------------------
(* Time. *)

\* Every signed token's exp is its due time cut to a second.
TokensCut == \A i \in Issuers : token[i] # None => InTheLastSecond(token[i])

\* Tokens and attempts keep their times, and a verdict on expiry is right to
\* within a second.
LEMMA TimesStep ==
  ASSUME TypeOK, TokensCut, LivesItsTTL, [Next]_vars
  PROVE  TokensCut' /\ LivesItsTTL'
<1>1. ASSUME NEW i \in Issuers, token'[i] # None
      PROVE  InTheLastSecond(token'[i])
  <2>1. ASSUME NEW j \in Issuers, NEW ttl \in TTLs, Issue(j, ttl)
        PROVE  InTheLastSecond(token'[i])
    <3> DEFINE due == now + Lifetime(ttl)
               t == [uid |-> claims[j].uid, doc |-> claims[j].doc, role |-> claims[j].role,
                     epoch |-> claims[j].epoch, key |-> IssuerKey,
                     exp |-> Truncated(due), due |-> due]
    <3>1. InTheLastSecond(t)
      BY <2>1, SignedType DEF Issue
    <3>2. token' = [token EXCEPT ![j] = t]
      BY <2>1 DEF Issue
    <3> HIDE DEF t
    <3> QED BY <1>1, <3>1, <3>2 DEF TypeOK, TokensCut
  <2>2. ASSUME NEW j \in Issuers, NEW claim \in ForeignClaims, NEW key \in Secrets,
               SignedElsewhere(j, claim, key)
        PROVE  InTheLastSecond(token'[i])
    <3> DEFINE t == [uid |-> claim.uid, doc |-> claim.doc, role |-> claim.role,
                     epoch |-> claim.epoch, key |-> key, exp |-> Horizon, due |-> Horizon]
    <3>1. InTheLastSecond(t)
      BY ForeignType
    <3>2. token' = [token EXCEPT ![j] = t]
      BY <2>2 DEF SignedElsewhere
    <3> HIDE DEF t
    <3> QED BY <1>1, <3>1, <3>2 DEF TypeOK, TokensCut
  <2>3. \/ \E j \in Issuers, ttl \in TTLs : Issue(j, ttl)
        \/ \E j \in Issuers, claim \in ForeignClaims, key \in Secrets :
             SignedElsewhere(j, claim, key)
        \/ UNCHANGED token
    BY DEF Next, vars, issuerVars, Grant, Revoke, Decide, IssueRefused, Authenticate,
           Refuse, Present, ReadEpoch, EpochFails, Accept, RejectStale, Finish, Close, Tick
  <2> QED BY <1>1, <2>1, <2>2, <2>3 DEF TokensCut
<1>2. ASSUME NEW c \in Conns, pc'[c] # "idle"
      PROVE  /\ pc'[c] # "rejected" => attempt'[c].at < attempt'[c].token.due
             /\ attempt'[c].outcome = "expired" =>
                  attempt'[c].at > attempt'[c].token.due - Second
  <2>1. CASE pc'[c] = pc[c] /\ attempt'[c] = attempt[c]
    BY <1>2, <2>1 DEF LivesItsTTL
  <2>2. ASSUME NEW i \in Issuers, NEW s \in Servers, NEW d \in Docs,
               Authenticate(c, i, s, d)
        PROVE  /\ attempt'[c].outcome = None
               /\ attempt'[c].at < attempt'[c].token.due
    <3>1. attempt'[c].token = token[i] /\ attempt'[c].at = now /\ attempt'[c].outcome = None
      BY <2>2 DEF TypeOK, Authenticate, Present
    <3>2. token[i] \in Tokens /\ now < token[i].exp /\ token[i].exp <= token[i].due
      BY <2>2 DEF TypeOK, Authenticate, Passes, Verified, Unexpired, TokensCut,
                  InTheLastSecond
    <3> QED BY <3>1, <3>2 DEF TypeOK, Tokens
  <2>3. ASSUME NEW i \in Issuers, NEW s \in Servers, NEW d \in Docs, Refuse(c, i, s, d)
        PROVE  /\ pc'[c] = "rejected"
               /\ attempt'[c].outcome = "expired" =>
                    attempt'[c].at > attempt'[c].token.due - Second
    <3>1. PICK outcome \in Outcomes :
            RefusedAs(s, token[i], d, outcome) /\ Present(c, token[i], d, "rejected", outcome)
      BY <2>3 DEF Refuse
    <3>2. /\ attempt'[c].token = token[i] /\ attempt'[c].at = now
          /\ attempt'[c].outcome = outcome /\ pc'[c] = "rejected"
      BY <3>1 DEF TypeOK, Present
    <3>3. outcome = "expired" => ~(now < token[i].exp)
      BY <3>1 DEF RefusedAs, Unexpired
    <3>4. token[i] \in Tokens /\ token[i].due < token[i].exp + Second
      BY <2>3 DEF TypeOK, Refuse, TokensCut, InTheLastSecond
    <3>5. token[i].exp \in Nat /\ token[i].due \in Nat /\ now \in Nat
      BY <3>4 DEF TypeOK, Tokens
    <3> QED BY <3>2, <3>3, <3>4, <3>5, NumberAssumption
  <2>4. CASE ReadEpoch(c)
    <3>1. attempt[c] \in Attempts /\ pc[c] = "asked"
      BY <2>4 DEF TypeOK, ReadEpoch
    <3>2. /\ attempt'[c].at = attempt[c].at /\ attempt'[c].token = attempt[c].token
          /\ attempt'[c].outcome = attempt[c].outcome
      BY <2>4, <3>1 DEF TypeOK, ReadEpoch, Attempts
    <3> QED BY <3>1, <3>2 DEF LivesItsTTL
  <2>5. CASE EpochFails(c) \/ Accept(c) \/ RejectStale(c)
    <3>1. PICK outcome \in {"no_epoch", "accepted", "stale"} : Finish(c, outcome)
      BY <2>5 DEF EpochFails, Accept, RejectStale
    <3>2. attempt[c] \in Attempts /\ pc[c] \in {"asked", "told"}
      BY <2>5 DEF TypeOK, EpochFails, Accept, RejectStale
    <3>3. /\ attempt'[c].at = attempt[c].at /\ attempt'[c].token = attempt[c].token
          /\ attempt'[c].outcome = outcome
      BY <3>1, <3>2 DEF TypeOK, Finish, Attempts
    <3> QED BY <3>2, <3>3 DEF LivesItsTTL
  <2>6. CASE Close(c)
    BY <1>2, <2>6 DEF TypeOK, Close
  <2> QED BY <2>1, <2>2, <2>3, <2>4, <2>5, <2>6, OneConnMoves, OutcomeAssumption DEF Outcomes
<1> QED BY <1>1, <1>2 DEF TokensCut, LivesItsTTL

\* A token lives for the ttl it was issued with, to within the second its exp
\* is cut to (layer2.go:115).
THEOREM TokensLiveTheirTTL == Spec => []LivesItsTTL
<1>1. Init => TokensCut /\ LivesItsTTL
  BY DEF Init, TokensCut, LivesItsTTL
<1>2. TypeOK /\ TokensCut /\ LivesItsTTL /\ [Next]_vars => (TokensCut /\ LivesItsTTL)'
  BY TimesStep
<1> QED BY <1>1, <1>2, TypeCorrect, PTL DEF Spec

----------------------------------------------------------------------------
(* Tokens and epochs stand in for asking. *)

\* What one connection does leaves the others' entries.
LEMMA OthersEntries ==
  ASSUME NEW c \in Conns,
         \A x \in Conns \ {c} : pc'[x] = pc[x] /\ attempt'[x] = attempt[x]
  PROVE  /\ Entries' = [Entries EXCEPT ![c] = Entries'[c]]
         /\ Entries'[c] = Entries[c] => Entries' = Entries
<1>1. ASSUME NEW x \in Conns \ {c} PROVE Entries'[x] = Entries[x]
  BY <1>1 DEF Entries, Entry, Stale, Rounded
<1>2. Entries = [x \in Conns |-> Entries[x]] /\ Entries' = [x \in Conns |-> Entries'[x]]
  BY DEF Entries
<1> QED BY <1>1, <1>2

\* An entry in hand is one the application can be asked about.
LEMMA EntryGives ==
  ASSUME TypeOK, AttemptsTrue, NEW c \in Conns, pc[c] \in {"asked", "told", "open"}
  PROVE  /\ attempt[c] \in Attempts
         /\ attempt[c].token.uid \in Users /\ attempt[c].doc \in Docs
         /\ attempt[c].token.role \in Roles /\ attempt[c].token.doc = attempt[c].doc
         /\ Entry(c) # None
<1>1. attempt[c] \in Attempts /\ attempt[c].token \in Tokens
  BY DEF TypeOK, Attempts
<1>2. attempt[c].token.uid # None /\ attempt[c].token.doc = attempt[c].doc
  BY DEF AttemptsTrue
<1>3. /\ attempt[c].token.uid \in Users /\ attempt[c].doc \in Docs
      /\ attempt[c].token.role \in Roles
  BY <1>1, <1>2 DEF Attempts, Tokens
<1>4. Entry(c) \in [user : Users, doc : Docs, role : Roles, at : {"door", "inside"}]
  BY <1>3 DEF Entry
<1> QED BY <1>1, <1>2, <1>3, <1>4, EntryAssumption

\* Below 2^53 a float64 tells any two epochs apart.
LEMMA CurrentMeansEqual ==
  ASSUME NEW e \in Nat, NEW f \in Nat, e <= f, f <= Exact, ~(Rounded(e) < Rounded(f))
  PROVE  e = f
BY NumberAssumption DEF Rounded

\* The answer that leaves a token current is the application's yes.
LEMMA AnswerAdmits ==
  ASSUME TypeOK, AttemptsTrue, NEW c \in Conns, ReadEpoch(c)
  PROVE  \/ \E u \in Users, d \in Docs, r \in Roles : Check!Admit(c, u, d, r)
         \/ UNCHANGED <<roles, Counted, Entries>>
<1> DEFINE u == attempt[c].token.uid
           d == attempt[c].doc
           r == attempt[c].token.role
<1>1. /\ pc[c] = "asked" /\ pc'[c] = "told"
      /\ \A x \in Conns \ {c} : pc'[x] = pc[x] /\ attempt'[x] = attempt[x]
      /\ roles' = roles /\ epoch' = epoch
  BY DEF TypeOK, ReadEpoch, appVars
<1>2. /\ attempt[c] \in Attempts /\ u \in Users /\ d \in Docs /\ r \in Roles
      /\ attempt[c].token.doc = d
  BY <1>1, EntryGives
<1>3. attempt'[c].token = attempt[c].token /\ attempt'[c].doc = d /\ attempt'[c].epoch = epoch[d]
  BY <1>2 DEF TypeOK, ReadEpoch, Attempts
<1>4. Entries[c] = None /\ Counted' = Counted
  BY <1>1 DEF Entries, Counted
<1>5. CASE Stale(c)'
  <2>1. Entries'[c] = None
    BY <1>1, <1>5 DEF Entries
  <2> QED BY <1>1, <1>4, <2>1, OthersEntries
<1>6. CASE ~Stale(c)'
  <2>1. Entries'[c] = [user |-> u, doc |-> d, role |-> r, at |-> "door"]
    BY <1>1, <1>3, <1>6 DEF Entries, Entry
  <2>2. r \in roles[<<u, d>>] \/ d \notin Counted
    <3>1. SUFFICES ASSUME epoch[d] <= Exact PROVE r \in roles[<<u, d>>]
      BY DEF Counted
    <3>2. attempt[c].token.epoch \in Nat /\ epoch[d] \in Nat
      BY <1>2 DEF TypeOK, Attempts, Tokens
    <3>3. ClaimTrue(attempt[c].token) /\ attempt[c].token.doc # None
      BY <1>1, <1>2, TokenAssumption DEF AttemptsTrue
    <3>4. attempt[c].token.epoch <= epoch[d]
      BY <1>2, <3>3 DEF ClaimTrue
    <3>5. ~(Rounded(attempt[c].token.epoch) < Rounded(epoch[d]))
      BY <1>3, <1>6 DEF Stale, Rounded
    <3>6. attempt[c].token.epoch = epoch[d]
      BY <3>1, <3>2, <3>4, <3>5, CurrentMeansEqual
    <3>7. u # None
      BY <1>2, TokenAssumption
    <3> QED BY <1>2, <3>3, <3>6, <3>7 DEF ClaimTrue, Holds
  <2>3. Entries' = [Entries EXCEPT ![c] = [user |-> u, doc |-> d, role |-> r, at |-> "door"]]
    BY <1>1, <2>1, OthersEntries
  <2>4. Check!Admit(c, u, d, r)
    BY <1>1, <1>4, <2>2, <2>3 DEF Check!Admit
  <2> QED BY <1>2, <2>4
<1> QED BY <1>5, <1>6

\* Every step is one of the application's and the connections', or none.
LEMMA StepChecks ==
  ASSUME TypeOK, AttemptsTrue, [Next]_vars
  PROVE  [Check!CheckNext]_(Check!checkVars)
<1> DEFINE Stutters == UNCHANGED <<roles, Counted, Entries>>
<1>1. ASSUME UNCHANGED <<roles, epoch, pc, attempt>> PROVE Stutters
  BY <1>1 DEF Counted, Entries, Entry, Stale, Rounded
<1>2. ASSUME NEW u \in Users, NEW d \in Docs, NEW r \in Roles, Grant(u, d, r)
      PROVE  Check!Grant(u, d, r)
  <2>1. UNCHANGED <<epoch, pc, attempt>>
    BY <1>2 DEF Grant, connVars
  <2>2. Counted' = Counted /\ Entries' = Entries
    BY <2>1 DEF Counted, Entries, Entry, Stale, Rounded
  <2> QED BY <1>2, <2>2 DEF Grant, Check!Grant
<1>3. ASSUME NEW u \in Users, NEW d \in Docs, NEW r \in Roles, Revoke(u, d, r)
      PROVE  Check!Revoke(u, d, r)
  <2>1. UNCHANGED <<pc, attempt>> /\ epoch' = [epoch EXCEPT ![d] = @ + 1]
    BY <1>3 DEF Revoke, connVars
  <2>2. Entries' = Entries
    BY <2>1 DEF Entries, Entry, Stale, Rounded
  <2>3. \A x \in Docs \ {d} : epoch'[x] = epoch[x]
    BY <2>1 DEF TypeOK
  <2>4. epoch'[d] = epoch[d] + 1 /\ epoch[d] \in Nat
    BY <2>1 DEF TypeOK
  <2>5. d \in Counted' => d \in Counted
    BY <2>4, NumberAssumption DEF Counted
  <2>6. \A x \in Docs \ {d} : x \in Counted' <=> x \in Counted
    BY <2>3 DEF Counted
  <2>7. Counted \subseteq Docs /\ Counted' \subseteq Docs
    BY DEF Counted
  <2>8. Counted' \in {Counted, Counted \ {d}}
    BY <2>5, <2>6, <2>7
  <2> QED BY <1>3, <2>2, <2>8 DEF Revoke, Check!Revoke
<1>4. ASSUME NEW c \in Conns, NEW i \in Issuers, NEW s \in Servers, NEW d \in Docs,
             Authenticate(c, i, s, d) \/ Refuse(c, i, s, d)
      PROVE  Stutters
  <2>1. PICK place, outcome : place \in {"asked", "rejected"} /\ Present(c, token[i], d, place, outcome)
    BY <1>4 DEF Authenticate, Refuse
  <2>2. /\ pc[c] = "idle" /\ pc'[c] = place
        /\ \A x \in Conns \ {c} : pc'[x] = pc[x] /\ attempt'[x] = attempt[x]
        /\ roles' = roles /\ epoch' = epoch
    BY <2>1 DEF TypeOK, Present, appVars
  <2>3. Entries'[c] = Entries[c] /\ Counted' = Counted
    BY <2>1, <2>2 DEF Entries, Counted
  <2> QED BY <2>2, <2>3, OthersEntries
<1>5. ASSUME NEW c \in Conns, EpochFails(c) \/ RejectStale(c)
      PROVE  Stutters
  <2>1. /\ pc[c] = "asked" \/ (pc[c] = "told" /\ Stale(c))
        /\ \A x \in Conns \ {c} : pc'[x] = pc[x] /\ attempt'[x] = attempt[x]
        /\ roles' = roles /\ epoch' = epoch
    BY <1>5 DEF TypeOK, EpochFails, RejectStale, Finish, appVars
  <2>2. pc'[c] = "rejected"
    BY <1>5 DEF TypeOK, EpochFails, RejectStale, Finish
  <2>3. Entries'[c] = Entries[c] /\ Counted' = Counted
    BY <2>1, <2>2 DEF Entries, Counted
  <2> QED BY <2>1, <2>3, OthersEntries
<1>6. ASSUME NEW c \in Conns, Accept(c)
      PROVE  Check!Enter(c)
  <2>1. /\ pc[c] = "told" /\ ~Stale(c) /\ pc'[c] = "open"
        /\ \A x \in Conns \ {c} : pc'[x] = pc[x] /\ attempt'[x] = attempt[x]
        /\ roles' = roles /\ epoch' = epoch
    BY <1>6 DEF TypeOK, Accept, Finish, appVars
  <2>2. attempt[c] \in Attempts /\ Entry(c) # None
    BY <2>1, EntryGives
  <2>3. attempt'[c].token = attempt[c].token /\ attempt'[c].doc = attempt[c].doc
    BY <1>6, <2>2 DEF TypeOK, Accept, Finish, Attempts
  <2>4. Entries[c] = Entry(c) /\ Entries'[c] = [Entry(c) EXCEPT !.at = "inside"]
    <3>1. Entries[c] = Entry(c) /\ Entries'[c] = Entry(c)'
      BY <2>1 DEF Entries
    <3>2. Entry(c) = [user |-> attempt[c].token.uid, doc |-> attempt[c].doc,
                      role |-> attempt[c].token.role, at |-> "door"]
      BY <2>1 DEF Entry
    <3>3. Entry(c)' = [user |-> attempt[c].token.uid, doc |-> attempt[c].doc,
                       role |-> attempt[c].token.role, at |-> "inside"]
      BY <2>1, <2>3 DEF Entry
    <3> QED BY <3>1, <3>2, <3>3
  <2>5. Entries' = [Entries EXCEPT ![c] = [Entries[c] EXCEPT !.at = "inside"]]
    BY <2>1, <2>4, OthersEntries
  <2>6. Counted' = Counted
    BY <2>1 DEF Counted
  <2> QED BY <2>1, <2>2, <2>4, <2>5, <2>6 DEF Check!Enter
<1>7. ASSUME NEW c \in Conns, Close(c)
      PROVE  Check!Leave(c)
  <2>1. /\ pc'[c] = "idle"
        /\ \A x \in Conns \ {c} : pc'[x] = pc[x] /\ attempt'[x] = attempt[x]
        /\ roles' = roles /\ epoch' = epoch
    BY <1>7 DEF TypeOK, Close, appVars
  <2>2. Entries'[c] = None /\ Counted' = Counted
    BY <2>1 DEF Entries, Counted
  <2> QED BY <2>1, <2>2, OthersEntries DEF Check!Leave
<1>8. ASSUME \/ \E u \in Users, d \in Docs, r \in Roles, i \in Issuers : Decide(i, u, d, r)
             \/ \E i \in Issuers, ttl \in TTLs : Issue(i, ttl)
             \/ \E i \in Issuers : IssueRefused(i)
             \/ \E i \in Issuers, claim \in ForeignClaims, key \in Secrets :
                  SignedElsewhere(i, claim, key)
             \/ Tick \/ UNCHANGED vars
      PROVE  Stutters
  <2>1. UNCHANGED <<roles, epoch, pc, attempt>>
    BY <1>8 DEF Decide, Issue, IssueRefused, SignedElsewhere, Tick, vars, appVars, connVars
  <2> QED BY <1>1, <2>1
<1>9. Check!CheckNext \/ Stutters
  <2> HIDE DEF Stutters
  <2>1. CASE \E u \in Users, d \in Docs, r \in Roles : Grant(u, d, r) \/ Revoke(u, d, r)
    BY <1>2, <1>3, <2>1 DEF Check!CheckNext
  <2>2. CASE \E c \in Conns, i \in Issuers, s \in Servers, d \in Docs :
               Authenticate(c, i, s, d) \/ Refuse(c, i, s, d)
    BY <1>4, <2>2
  <2>3. CASE \E c \in Conns : ReadEpoch(c)
    BY AnswerAdmits, <2>3 DEF Check!CheckNext, Stutters
  <2>4. CASE \E c \in Conns : EpochFails(c) \/ RejectStale(c)
    BY <1>5, <2>4
  <2>5. CASE \E c \in Conns : Accept(c) \/ Close(c)
    BY <1>6, <1>7, <2>5 DEF Check!CheckNext
  <2> QED BY <1>8, <2>1, <2>2, <2>3, <2>4, <2>5 DEF Next
<1> QED BY <1>9 DEF Check!checkVars

\* Tokens, however replayed, and epochs, however late, admit nobody the application
\* would not have admitted itself, asked at one moment of the handshake.
THEOREM TokensCheckRoles == Spec => ChecksRole
<1>1. Init => Check!CheckInit
  BY DEF Init, Check!CheckInit, Counted, Entries
<1>2. TypeOK /\ AttemptsTrue /\ [Next]_vars => [Check!CheckNext]_(Check!checkVars)
  BY StepChecks
<1> QED BY <1>1, <1>2, TypeCorrect, AttemptsAreTrue, PTL DEF Spec, ChecksRole, Check!CheckSpec
=============================================================================
