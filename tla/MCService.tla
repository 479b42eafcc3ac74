----------------------------- MODULE MCService -----------------------------
(***************************************************************************)
(* An instance of Service: two session verifiers on one Cache, one that    *)
(* asks for the context and one that does not, a route over each, and two  *)
(* requests with the same token, whose account is enabled while they run.  *)
(***************************************************************************)
EXTENDS Service, TLC

CONSTANTS withContext, withoutContext, token, valid, one, two

MCRealm   == withContext :> "session" @@ withoutContext :> "session"
MCInclude == withContext :> TRUE @@ withoutContext :> FALSE
MCNegOf   == token :> None

MCRoutes == {[verifier |-> i, space |-> TRUE] : i \in Instances}

MCHolds == valid :> {one}

MCInitialAccounts == {<<"session", token>> :> "disabled"}
MCChanging        == {<<<<"session", token>>, valid>>}

MCLongAgo == -9

MCConfigTTL  == [r \in Realms |-> 0]
MCDefaultTTL == [r \in Realms |-> 1]
=============================================================================
