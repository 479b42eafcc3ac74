------------------------------- MODULE Layer2 -------------------------------
(***************************************************************************)
(* Short-lived document tokens: IssueShortLivedToken and                   *)
(* VerifyShortLivedToken (go/layer2/layer2.go, ts/src/layer2.ts) and the   *)
(* hook that authenticates collaboration connections with them             *)
(* (ts/src/middleware/hocuspocus.ts).                                      *)
(*                                                                         *)
(* The application reads a user's role and the document's permission epoch,*)
(* later issues a token that carries both, and raises the epoch whenever   *)
(* it takes a role away.  Whoever holds a token may present it to any      *)
(* server, for any document, at any time; the hook verifies it, asks the   *)
(* application for the current epoch, and compares when the answer comes.  *)
(***************************************************************************)
EXTENDS Integers

CONSTANTS
  Issuers,       \* calls of IssueShortLivedToken
  Conns,         \* connections being authenticated, one attempt at a time
  Users, Docs, Roles,
  Secrets,       \* HS256 secrets
  LongSecrets,   \* those of at least MinHS256KeySize bytes
  Servers,       \* verifying services
  SigKey,        \* SigKey[s]: the secret s is configured with, or None
  SigAlg,        \* SigAlg[s]: the algorithm s is configured with
  IssuerKey,     \* the application's secret, or None
  IssuerAlg,
  TTLs,          \* what callers pass as IssueOptions.TTL, in ticks
  DefaultTTL,
  Second,        \* ticks in a second, the unit of exp
  Exact,         \* 2^53: a float64 holds every integer up to it
  FirstEpoch,    \* the epoch documents start from
  MaxEpoch,      \* bound: no revocation once a document's epoch is this
  Horizon,       \* bound: the clock stops here
  None           \* an absent claim, token or secret

ASSUME TokenAssumption ==
  /\ LongSecrets \subseteq Secrets
  /\ SigKey \in [Servers -> Secrets \cup {None}]
  /\ SigAlg \in [Servers -> {"HS256", "EdDSA"}]
  /\ IssuerKey \in Secrets \cup {None} /\ IssuerAlg \in {"HS256", "EdDSA"}
  /\ None \notin Secrets \cup Users \cup Docs \cup Roles

ASSUME NumberAssumption ==
  /\ TTLs \subseteq Int
  /\ DefaultTTL \in Nat \ {0} /\ Second \in Nat \ {0}
  /\ Exact \in Nat /\ FirstEpoch \in Nat /\ MaxEpoch \in Nat /\ Horizon \in Nat

VARIABLES
  now,       \* the clock, in ticks
  roles,     \* roles[<<u, d>>]: the roles u holds on d
  epoch,     \* epoch[d]: d's permission epoch
  claims,    \* claims[i]: what issuer i is about to sign, or None
  token,     \* token[i]: the token it signed, or None
  pc,        \* pc[c]: where connection c's authentication is
  attempt    \* attempt[c]: what c presented, and what came of it

appVars    == <<roles, epoch>>
issuerVars == <<claims, token>>
connVars   == <<pc, attempt>>
vars == <<now, roles, epoch, claims, token, pc, attempt>>

Claims == [uid : Users \cup {None}, doc : Docs \cup {None}, role : Roles, epoch : Nat]

\* A signed token; due is a history field, the moment its ttl runs out.
Tokens == [uid : Users \cup {None}, doc : Docs \cup {None}, role : Roles, epoch : Nat,
           key : Secrets, exp : Nat, due : Nat]

Outcomes == {"accepted", "unusable", "bad_signature", "expired",
             "no_uid", "unbound", "forbidden", "stale", "no_epoch"}

ASSUME OutcomeAssumption == None \notin Outcomes

\* An attempt: the token and document, when the token was verified, the epoch
\* the application answered, whether the role was held then (history).
Attempts == [token : Tokens, doc : Docs, at : Nat, epoch : Nat, held : BOOLEAN,
             outcome : Outcomes \cup {None}]

Holds(uid, doc, role) == uid \in Users /\ role \in roles[<<uid, doc>>]

TypeOK ==
  /\ now \in Nat
  /\ roles \in [Users \X Docs -> SUBSET Roles]
  /\ epoch \in [Docs -> Nat]
  /\ claims \in [Issuers -> Claims \cup {None}]
  /\ token \in [Issuers -> Tokens \cup {None}]
  /\ pc \in [Conns -> {"idle", "asked", "told", "open", "rejected"}]
  /\ attempt \in [Conns -> Attempts \cup {None}]
  /\ \A c \in Conns : pc[c] # "idle" => attempt[c] \in Attempts

Init ==
  /\ now = 0
  /\ roles \in [Users \X Docs -> SUBSET Roles]
  /\ epoch = [d \in Docs |-> FirstEpoch]
  /\ claims = [i \in Issuers |-> None]
  /\ token = [i \in Issuers |-> None]
  /\ pc = [c \in Conns |-> "idle"]
  /\ attempt = [c \in Conns |-> None]

----------------------------------------------------------------------------
(* The application: roles, epochs, and the claims it decides to sign. *)

Grant(u, d, r) ==
  /\ roles' = [roles EXCEPT ![<<u, d>>] = @ \cup {r}]
  /\ UNCHANGED <<now, epoch, issuerVars, connVars>>

Revoke(u, d, r) ==
  /\ epoch[d] < MaxEpoch
  /\ r \in roles[<<u, d>>]
  /\ roles' = [roles EXCEPT ![<<u, d>>] = @ \ {r}]
  /\ epoch' = [epoch EXCEPT ![d] = @ + 1]
  /\ UNCHANGED <<now, issuerVars, connVars>>

\* It reads a role and the epoch together; a caller may leave uid or document
\* out of the claims.
Decide(i, u, d, r) ==
  /\ claims[i] = None /\ token[i] = None
  /\ Holds(u, d, r)
  /\ \E uid \in {u, None}, doc \in {d, None} :
       claims' = [claims EXCEPT ![i] =
                    [uid |-> uid, doc |-> doc, role |-> r, epoch |-> epoch[d]]]
  /\ UNCHANGED <<now, appVars, token, connVars>>

----------------------------------------------------------------------------
(* IssueShortLivedToken. *)

\* Mutant: rounded up.
RoundedUp(t) == t - (t % Second) + Second

\* Unix(): a moment cut to a whole second, kept in ticks.
Truncated(t) == t - (t % Second)

\* Mutant: only a ttl of zero is replaced.
LifetimeUnlessZero(ttl) == IF ttl = 0 THEN DefaultTTL ELSE ttl

Lifetime(ttl) == IF ttl <= 0 THEN DefaultTTL ELSE ttl

\* Mutant: any secret is long enough.
UsableAny(key, alg) == alg = "HS256" /\ key \in Secrets

\* Both ends refuse any algorithm but HS256 and any shorter secret.
Usable(key, alg) == alg = "HS256" /\ key \in LongSecrets

\* Mutant: the epoch is read again when the token is signed.
IssueRereads(i, ttl) ==
  /\ claims[i] # None
  /\ claims[i].uid # None
  /\ Usable(IssuerKey, IssuerAlg)
  /\ LET due == now + Lifetime(ttl) IN
       token' = [token EXCEPT ![i] =
                   [uid |-> claims[i].uid, doc |-> claims[i].doc, role |-> claims[i].role,
                    epoch |-> IF claims[i].doc = None THEN 0 ELSE epoch[claims[i].doc],
                    key |-> IssuerKey, exp |-> Truncated(due), due |-> due]]
  /\ claims' = [claims EXCEPT ![i] = None]
  /\ UNCHANGED <<now, appVars, connVars>>

Issue(i, ttl) ==
  /\ claims[i] # None
  /\ claims[i].uid # None
  /\ Usable(IssuerKey, IssuerAlg)
  /\ LET due == now + Lifetime(ttl) IN
       token' = [token EXCEPT ![i] =
                   [uid |-> claims[i].uid, doc |-> claims[i].doc, role |-> claims[i].role,
                    epoch |-> claims[i].epoch, key |-> IssuerKey,
                    exp |-> Truncated(due), due |-> due]]
  /\ claims' = [claims EXCEPT ![i] = None]
  /\ UNCHANGED <<now, appVars, connVars>>

IssueRefused(i) ==
  /\ claims[i] # None
  /\ claims[i].uid = None \/ ~Usable(IssuerKey, IssuerAlg)
  /\ claims' = [claims EXCEPT ![i] = None]
  /\ UNCHANGED <<now, appVars, token, connVars>>

\* Other software signs whatever it likes with a secret too short to be one.
SignedElsewhere(i, claim, key) ==
  /\ claims[i] = None /\ token[i] = None
  /\ key \in Secrets \ LongSecrets
  /\ token' = [token EXCEPT ![i] =
                 [uid |-> claim.uid, doc |-> claim.doc, role |-> claim.role,
                  epoch |-> claim.epoch, key |-> key, exp |-> Horizon, due |-> Horizon]]
  /\ UNCHANGED <<now, appVars, claims, connVars>>

----------------------------------------------------------------------------
(* The hook: verify the token, compare the document, ask for the epoch, and *)
(* compare it when it comes.                                                *)

Signed(s, t) == Usable(SigKey[s], SigAlg[s]) /\ t.key = SigKey[s]

Unexpired(t) == now < t.exp

\* What VerifyShortLivedToken lets through.
Verified(s, t) == Signed(s, t) /\ Unexpired(t) /\ t.uid # None

\* Mutant: the document is not compared.
PassesAnyDoc(s, t, d) == Verified(s, t) /\ t.doc # None

\* The hook also compares the document.
Passes(s, t, d) == Verified(s, t) /\ t.doc # None /\ t.doc = d

\* Which of the checks, in their order, a token fails first.
RefusedAs(s, t, d, outcome) ==
  \/ outcome = "unusable" /\ ~Usable(SigKey[s], SigAlg[s])
  \/ outcome = "bad_signature" /\ Usable(SigKey[s], SigAlg[s]) /\ t.key # SigKey[s]
  \/ outcome = "expired" /\ Signed(s, t) /\ ~Unexpired(t)
  \/ outcome = "no_uid" /\ Signed(s, t) /\ Unexpired(t) /\ t.uid = None
  \/ outcome = "unbound" /\ Verified(s, t) /\ t.doc = None
  \/ outcome = "forbidden" /\ Verified(s, t) /\ t.doc \notin {None, d}

Present(c, t, d, place, outcome) ==
  /\ pc[c] = "idle"
  /\ pc' = [pc EXCEPT ![c] = place]
  /\ attempt' = [attempt EXCEPT ![c] =
                    [token |-> t, doc |-> d, at |-> now, epoch |-> 0,
                     held |-> FALSE, outcome |-> outcome]]
  /\ UNCHANGED <<now, appVars, issuerVars>>

Authenticate(c, i, s, d) ==
  /\ token[i] # None
  /\ Passes(s, token[i], d)
  /\ Present(c, token[i], d, "asked", None)

Refuse(c, i, s, d) ==
  /\ token[i] # None
  /\ \E outcome \in Outcomes :
       /\ RefusedAs(s, token[i], d, outcome)
       /\ Present(c, token[i], d, "rejected", outcome)

\* getPermissionEpoch reads the epoch; its promise resolves later.
ReadEpoch(c) ==
  /\ pc[c] = "asked"
  /\ pc' = [pc EXCEPT ![c] = "told"]
  /\ LET t == attempt[c].token IN
       attempt' = [attempt EXCEPT ![c].epoch = epoch[attempt[c].doc],
                                  ![c].held  = Holds(t.uid, attempt[c].doc, t.role)]
  /\ UNCHANGED <<now, appVars, issuerVars>>

Finish(c, outcome) ==
  /\ pc' = [pc EXCEPT ![c] = IF outcome = "accepted" THEN "open" ELSE "rejected"]
  /\ attempt' = [attempt EXCEPT ![c].outcome = outcome]
  /\ UNCHANGED <<now, appVars, issuerVars>>

EpochFails(c) == pc[c] = "asked" /\ Finish(c, "no_epoch")

\* A JSON number is read as a float64, the nearest one it has: above Exact
\* only even numbers, halfway cases to the multiple of four.
Rounded(n) == IF n <= Exact THEN n ELSE n + (n % 2) * ((n % 4) - 2)

\* Mutant: one revocation is forgiven.
StaleByTwo(c) == Rounded(attempt[c].token.epoch) + 1 < Rounded(attempt[c].epoch)

Stale(c) == Rounded(attempt[c].token.epoch) < Rounded(attempt[c].epoch)

Accept(c) == pc[c] = "told" /\ ~Stale(c) /\ Finish(c, "accepted")

RejectStale(c) == pc[c] = "told" /\ Stale(c) /\ Finish(c, "stale")

\* A rejected attempt is over; a connection is closed by its client.
Close(c) ==
  /\ pc[c] \in {"open", "rejected"}
  /\ pc' = [pc EXCEPT ![c] = "idle"]
  /\ attempt' = [attempt EXCEPT ![c] = None]
  /\ UNCHANGED <<now, appVars, issuerVars>>

Tick ==
  /\ now < Horizon
  /\ now' = now + 1
  /\ UNCHANGED <<appVars, issuerVars, connVars>>

\* Bound: software elsewhere claims any user, document and role at one epoch.
ForeignClaims == [uid : Users, doc : Docs, role : Roles, epoch : {FirstEpoch}]

Next ==
  \/ \E u \in Users, d \in Docs, r \in Roles :
       \/ Grant(u, d, r) \/ Revoke(u, d, r)
       \/ \E i \in Issuers : Decide(i, u, d, r)
  \/ \E i \in Issuers :
       \/ \E ttl \in TTLs : Issue(i, ttl)
       \/ IssueRefused(i)
       \/ \E claim \in ForeignClaims, key \in Secrets : SignedElsewhere(i, claim, key)
  \/ \E c \in Conns :
       \/ \E i \in Issuers, s \in Servers, d \in Docs :
            Authenticate(c, i, s, d) \/ Refuse(c, i, s, d)
       \/ ReadEpoch(c) \/ EpochFails(c) \/ Accept(c) \/ RejectStale(c) \/ Close(c)
  \/ Tick

Spec == Init /\ [][Next]_vars

----------------------------------------------------------------------------
(* Properties. *)

\* Whoever is let in held the role on that document when the application
\* answered the hook's question: no token issued from claims read before a
\* revocation, replayed on another document or server, or overtaken by a
\* revocation while the hook waits, gets past the epoch comparison
\* (hocuspocus.ts), as long as epochs are counters a float64 can hold.
AcceptedHeld ==
  \A c \in Conns :
    (pc[c] = "open" /\ attempt[c].epoch <= Exact) => attempt[c].held

\* The claims about to be signed and the tokens signed with a real secret were
\* true at the epoch they carry: while the epoch has not moved, they still are.
ClaimTrue(t) ==
  t.doc # None =>
    /\ t.epoch <= epoch[t.doc]
    /\ (t.uid # None /\ t.epoch = epoch[t.doc]) => Holds(t.uid, t.doc, t.role)

\* Why AcceptedHeld holds: a token past its epoch never becomes current again,
\* and a current one is true (layer2.go carries the epoch for this reason).
TokensTrue ==
  /\ \A i \in Issuers : claims[i] # None => ClaimTrue(claims[i])
  /\ \A i \in Issuers :
       (token[i] # None /\ token[i].key \in LongSecrets) => ClaimTrue(token[i])

\* An attempt that passed the token's verification has a real token, bound to
\* its document; once told the epoch, it knows whether the token was current.
AttemptsTrue ==
  \A c \in Conns :
    /\ pc[c] \in {"asked", "told", "open"} =>
         /\ attempt[c].token.key \in LongSecrets
         /\ attempt[c].token.uid # None
         /\ attempt[c].token.doc = attempt[c].doc
    /\ pc[c] = "asked" => ClaimTrue(attempt[c].token)
    /\ pc[c] \in {"told", "open"} =>
         /\ attempt[c].token.epoch <= attempt[c].epoch
         /\ attempt[c].token.epoch = attempt[c].epoch => attempt[c].held
    /\ pc[c] = "open" => ~Stale(c)

Counted == {d \in Docs : epoch[d] <= Exact}

\* As whom c passes, from the moment the epoch it was told leaves it current.
Entry(c) ==
  [user |-> attempt[c].token.uid, doc |-> attempt[c].doc, role |-> attempt[c].token.role,
   at |-> IF pc[c] = "open" THEN "inside" ELSE "door"]

ASSUME EntryAssumption ==
  None \notin [user : Users, doc : Docs, role : Roles, at : {"door", "inside"}]

Entries ==
  [c \in Conns |-> IF pc[c] = "open" \/ (pc[c] = "told" /\ ~Stale(c)) THEN Entry(c) ELSE None]

Check == INSTANCE RoleCheck WITH
  Nobody <- None, counted <- Counted, entry <- Entries

\* Tokens and epochs stand in for asking the application: every connection let in
\* is one the application, asked for this user, document and role at one moment of
\* the handshake, would have let in, and it works as that user (hocuspocus.ts).
ChecksRole == Check!CheckSpec

\* exp is due, cut to a second.
InTheLastSecond(t) == t.exp <= t.due /\ t.due < t.exp + Second

\* A token lives for its ttl, to within the second exp is cut to: it verifies
\* only before the ttl has run out and is called expired only in the ttl's last
\* second or after it (layer2.go:79 and ErrTokenExpired).
LivesItsTTL ==
  \A c \in Conns : pc[c] # "idle" =>
    LET t == attempt[c].token IN
      /\ pc[c] # "rejected" => attempt[c].at < t.due
      /\ attempt[c].outcome = "expired" => attempt[c].at > t.due - Second

\* Layer2Config's doc taken at its word: the epoch lets the application
\* propagate a revocation within the token's remaining ttl, so nobody works on
\* a document once its role is gone and its token has expired.
RevocationReaches ==
  \A c \in Conns : pc[c] = "open" =>
    LET t == attempt[c].token IN
      Holds(t.uid, attempt[c].doc, t.role) \/ now <= t.exp

=============================================================================
