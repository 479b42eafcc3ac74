----------------------------- MODULE MCVerifier -----------------------------
(***************************************************************************)
(* Instances of Verifier.  The timing instance has one session verifier    *)
(* and one token; the sharing instance has a session verifier with context,*)
(* one without, and a bot verifier on one unhashed Cache, and a token whose*)
(* raw string is another's followed by ":neg".                             *)
(***************************************************************************)
EXTENDS Verifier, TLC

CONSTANTS withContext, withoutContext, bots, token, tokenNeg, valid

OneRealm     == withContext :> "session"
OneInclude   == withContext :> TRUE
OneNegOf     == token :> None

SharedRealm   == withContext :> "session" @@ withoutContext :> "session" @@ bots :> "bot"
SharedInclude == withContext :> TRUE @@ withoutContext :> FALSE @@ bots :> TRUE
SharedNegOf   == token :> tokenNeg @@ tokenNeg :> None

\* The bot verifier refuses one of the strings, as it does app_ tokens.
SharedUnsendable == {<<"bot", tokenNeg>>}

Revocations    == Accounts \X {valid, "revoked"}
Disablings     == Accounts \X {valid, "disabled"}
AnyStart       == [Accounts -> {valid, "revoked"}]
UniformStart   == {[a \in Accounts |-> valid], [a \in Accounts |-> "revoked"]}

MCLongAgo == -9

\* A ttl a user computed wrongly, one he set, and one he did not.
MCConfigTTL == [r \in Realms |->
  IF r = "session" THEN -5 ELSE IF r = "bot" THEN 1 ELSE 0]

MCDefaultTTL == [r \in Realms |-> 2]

Symmetric == Permutations(Calls)
=============================================================================
