------------------------------ MODULE MCLayer2 ------------------------------
(***************************************************************************)
(* Instances of Layer2: one application and three servers, one sharing its *)
(* secret, one configured with a short secret, one with EdDSA.             *)
(***************************************************************************)
EXTENDS Layer2, TLC

CONSTANTS secret, short, collab, weak, modern

MCSigKey == collab :> secret @@ weak :> short @@ modern :> secret
MCSigAlg == collab :> "HS256" @@ weak :> "HS256" @@ modern :> "EdDSA"

\* A ttl that is none, and one shorter than a second.
MCTTLs == {-5, 1}

Symmetric == Permutations(Docs) \cup Permutations(Issuers) \cup Permutations(Conns)
=============================================================================
