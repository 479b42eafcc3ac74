----------------------------- MODULE MCRequests -----------------------------
(***************************************************************************)
(* An instance of Requests: one session account, which starts with two     *)
(* spaces, without a context, on an older server or disabled, and may      *)
(* change to one space (restored, if it was disabled), and one bot;        *)
(* routes with and without RequireKind and the space header; headers that  *)
(* carry a session token, a short api key, an api key nobody registered a  *)
(* verifier for, a reserved token, and a bot's token beside an             *)
(* Authorization of another scheme.                                        *)
(***************************************************************************)
EXTENDS Requests, TLC

CONSTANTS name, s1, s2, both, one, plain, old, bot

human    == [prefix |-> "none", tail |-> "long", name |-> name]
robot    == [prefix |-> "bf_", tail |-> "long", name |-> name]
shortKey == [prefix |-> "uk_", tail |-> "short", name |-> name]
key      == [prefix |-> "uk_", tail |-> "long", name |-> name]
app      == [prefix |-> "app_", tail |-> "long", name |-> name]

Bearer(raw) == [authorization |-> [scheme |-> "bearer", token |-> raw], token |-> Empty]

MCPresented ==
  {Bearer(human), Bearer(shortKey), Bearer(key), Bearer(app),
   [authorization |-> [scheme |-> "other", token |-> human], token |-> robot]}

session == <<"session", human>>
robots  == <<"bot", robot>>

MCAccounts == {session, robots, <<"bot", app>>, <<"apikey", key>>}

MCRoutes == {[require |-> None, space |-> TRUE], [require |-> "bot", space |-> FALSE]}

MCHolds == [g \in Grants |-> IF g = both THEN {s1, s2} ELSE {s1}]

MCContextOf == [g \in Grants |->
  IF g = plain THEN "not_requested" ELSE IF g = old THEN "unknown_server" ELSE "included"]

MCInitialAccounts ==
  {[a \in Accounts |-> IF a = session THEN g ELSE IF a = robots THEN bot ELSE "revoked"] :
     g \in {both, plain, old, "disabled"}}

MCChanging == {<<session, one>>}

MCWindow == [a \in Accounts |-> [s \in ContractStatuses |-> 0]]

MCLongAgo == -9

Symmetric == Permutations(Calls)
=============================================================================
