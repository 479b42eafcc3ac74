--------------------------- MODULE OwnPrincipals ---------------------------
(***************************************************************************)
(* What Principal.Clone promises (go/principal_clone.go): a request may    *)
(* write to its Principal without affecting any other reference.  Here     *)
(* there are no references: Principals are values, a request has one of    *)
(* its own, and it starts as exactly what the verifier built for the       *)
(* verdict the request was told.  The space a client names gets into it    *)
(* once, before the handler runs, and only one it lists itself.            *)
(***************************************************************************)
CONSTANTS
  Requests,
  Verdicts,   \* what a request may be told: an account and its grant
  Value,      \* Value[k]: the Principal a verifier builds for k
  Spaces,
  Nothing

VARIABLES
  entitled,   \* entitled[r]: the verdict r was told, or Nothing
  mine,       \* mine[r]: r's Principal, or Nothing
  serving     \* the requests whose handler runs

valueVars == <<entitled, mine, serving>>

ValueInit ==
  /\ entitled = [r \in Requests |-> Nothing]
  /\ mine = [r \in Requests |-> Nothing]
  /\ serving = {}

Entitle(r, k) ==
  /\ entitled[r] = Nothing
  /\ entitled' = [entitled EXCEPT ![r] = k]
  /\ UNCHANGED <<mine, serving>>

Take(r) ==
  /\ entitled[r] # Nothing /\ mine[r] = Nothing
  /\ mine' = [mine EXCEPT ![r] = Value[entitled[r]]]
  /\ UNCHANGED <<entitled, serving>>

Bindable(p, s) == p.kind = "session" /\ p.context = "included" /\ s \in p.spaces

HandOver(r) ==
  /\ mine[r] # Nothing /\ r \notin serving
  /\ serving' = serving \cup {r}
  /\ \/ mine' = mine
     \/ \E s \in Spaces :
          Bindable(mine[r], s) /\ mine' = [mine EXCEPT ![r] = [@ EXCEPT !.space = s]]
  /\ UNCHANGED entitled

Overwritten(p, s) ==
  [kind |-> p.kind, context |-> p.context, space |-> s, spaces |-> Spaces]

\* The handler writes whatever it likes, into its own.
Write(r, s) ==
  /\ r \in serving
  /\ mine' = [mine EXCEPT ![r] = Overwritten(mine[r], s)]
  /\ UNCHANGED <<entitled, serving>>

\* The middleware answers in the handler's place.
Withhold(r) ==
  /\ mine[r] # Nothing /\ r \notin serving
  /\ mine' = [mine EXCEPT ![r] = Nothing]
  /\ UNCHANGED <<entitled, serving>>

End(r) ==
  /\ entitled' = [entitled EXCEPT ![r] = Nothing]
  /\ mine' = [mine EXCEPT ![r] = Nothing]
  /\ serving' = serving \ {r}

ValueNext ==
  \E r \in Requests :
    \/ \E k \in Verdicts : Entitle(r, k)
    \/ Take(r) \/ HandOver(r) \/ Withhold(r) \/ End(r)
    \/ \E s \in Spaces : Write(r, s)

ValueSpec == ValueInit /\ [][ValueNext]_valueVars
=============================================================================
