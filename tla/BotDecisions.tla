---------------------------- MODULE BotDecisions ----------------------------
(***************************************************************************)
(* What Resolve (go/resolver.go) promises a route, with no HTTP in sight:  *)
(* octo-server decides the route's own question once, at one moment while  *)
(* the request waits, and the route is told that decision or that there    *)
(* was no telling.  What cannot be a question is refused before it is      *)
(* asked.                                                                  *)
(***************************************************************************)
CONSTANTS
  Requests,
  Asked,      \* what may be asked: a bot, and mode, space and action
  Decisions,  \* "permitted", or the code of what is in the way
  Nothing

VARIABLES
  held,       \* held[k]: what octo-server holds of question k
  asked,      \* asked[r]: what r waits for
  decision,   \* decision[r]: octo-server's decision on it
  told        \* told[r]: what r's route was told

decisionVars == <<held, asked, decision, told>>

DecisionInit ==
  /\ held \in [Asked -> Decisions]
  /\ asked = [r \in Requests |-> Nothing]
  /\ decision = [r \in Requests |-> Nothing]
  /\ told = [r \in Requests |-> Nothing]

Ask(r, k) ==
  /\ asked[r] = Nothing /\ told[r] = Nothing
  /\ asked' = [asked EXCEPT ![r] = k]
  /\ UNCHANGED <<held, decision, told>>

Decides(r) ==
  /\ asked[r] # Nothing /\ decision[r] = Nothing
  /\ decision' = [decision EXCEPT ![r] = held[asked[r]]]
  /\ UNCHANGED <<held, asked, told>>

\* The kind of error a code stands for.
KindOf(code) ==
  IF code \in {"space_not_allowed", "delegation_denied", "action_not_allowed"}
  THEN "forbidden" ELSE code

Told(r, kind, question) ==
  /\ told' = [told EXCEPT ![r] = [kind |-> kind, question |-> question]]
  /\ asked' = [asked EXCEPT ![r] = Nothing]
  /\ decision' = [decision EXCEPT ![r] = Nothing]
  /\ UNCHANGED held

Tell(r) ==
  /\ decision[r] # Nothing
  /\ Told(r, KindOf(decision[r]),
          IF decision[r] = "permitted" THEN asked[r].question ELSE Nothing)

Fail(r) == asked[r] # Nothing /\ Told(r, "infra_failure", Nothing)

RefuseAtOnce(r) ==
  /\ asked[r] = Nothing /\ told[r] = Nothing
  /\ \E kind \in {"invalid_credential", "invalid_request"} : Told(r, kind, Nothing)

End(r) ==
  /\ told[r] # Nothing
  /\ told' = [told EXCEPT ![r] = Nothing]
  /\ UNCHANGED <<held, asked, decision>>

Change ==
  /\ held' \in [Asked -> Decisions]
  /\ UNCHANGED <<asked, decision, told>>

DecisionNext ==
  \/ \E r \in Requests :
       \/ \E k \in Asked : Ask(r, k)
       \/ Decides(r) \/ Tell(r) \/ Fail(r) \/ RefuseAtOnce(r) \/ End(r)
  \/ Change

DecisionSpec == DecisionInit /\ [][DecisionNext]_decisionVars
=============================================================================
