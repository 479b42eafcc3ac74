----------------------------- MODULE RoleCheck -----------------------------
(***************************************************************************)
(* What document tokens are to spare the application (go/layer2/layer2.go, *)
(* ts/src/middleware/hocuspocus.ts): being asked, for every connection,    *)
(* whether this user holds this role on this document right now.  Here it  *)
(* is asked, and there are no tokens, epochs, secrets or clocks.           *)
(***************************************************************************)
CONSTANTS Conns, Users, Docs, Roles, Nobody

VARIABLES
  roles,      \* roles[<<u, d>>]: the roles u holds on d
  counted,    \* the documents whose revocations can still be counted
  entry       \* entry[c]: as whom c passed, and how far it is, or Nobody

checkVars == <<roles, counted, entry>>

CheckInit ==
  /\ roles \in [Users \X Docs -> SUBSET Roles]
  /\ counted \subseteq Docs
  /\ entry = [c \in Conns |-> Nobody]

\* The application gives and takes roles, whoever is connected.
Grant(u, d, r) ==
  /\ roles' = [roles EXCEPT ![<<u, d>>] = @ \cup {r}]
  /\ UNCHANGED <<counted, entry>>

Revoke(u, d, r) ==
  /\ r \in roles[<<u, d>>]
  /\ roles' = [roles EXCEPT ![<<u, d>>] = @ \ {r}]
  /\ counted' \in {counted, counted \ {d}}
  /\ UNCHANGED entry

\* The application says yes; a document past counting is anybody's guess.
Admit(c, u, d, r) ==
  /\ entry[c] = Nobody
  /\ r \in roles[<<u, d>>] \/ d \notin counted
  /\ entry' = [entry EXCEPT ![c] = [user |-> u, doc |-> d, role |-> r, at |-> "door"]]
  /\ UNCHANGED <<roles, counted>>

\* The connection works as who was let through.
Enter(c) ==
  /\ entry[c] # Nobody
  /\ entry' = [entry EXCEPT ![c] = [@ EXCEPT !.at = "inside"]]
  /\ UNCHANGED <<roles, counted>>

Leave(c) ==
  /\ entry' = [entry EXCEPT ![c] = Nobody]
  /\ UNCHANGED <<roles, counted>>

CheckNext ==
  \/ \E u \in Users, d \in Docs, r \in Roles :
       \/ Grant(u, d, r) \/ Revoke(u, d, r)
       \/ \E c \in Conns : Admit(c, u, d, r)
  \/ \E c \in Conns : Enter(c) \/ Leave(c)

CheckSpec == CheckInit /\ [][CheckNext]_checkVars
=============================================================================
