---------------------------- MODULE AuthContract ----------------------------
(***************************************************************************)
(* What Verify (the Verifier interface in go/verifier.go) promises to the  *)
(* code that calls it, with no cache, request or metric in sight: a        *)
(* verdict that speaks for octo-server was true for this account, and not  *)
(* longer ago than its window.  Verifier.tla implements it; Requests.tla,  *)
(* the middleware, is built on it.                                         *)
(***************************************************************************)
EXTENDS Integers

CONSTANTS
  Calls,            \* callers, one call at a time each
  Accounts,
  Grants,           \* what a valid account stands for: who and which spaces
  Window,           \* Window[a][s]: how old a verdict s on account a may be
  LongAgo,          \* a time before the process started
  InitialAccounts,  \* bound: what octo-server may hold true at the start
  NoVerdict, None

ContractRefusals == {"revoked", "disabled"}

ContractStatuses == Grants \cup ContractRefusals

\* Errors that say nothing of the account: a credential refused before any
\* request or an answer without the uid, and a failure to get an answer.
Unfounded == {"unfounded", "infra_failure"}

\* A verdict is a Principal with what it grants, or a typed *Error.
Verdicts == ContractStatuses \cup Unfounded

ASSUME ContractAssumption ==
  /\ Window \in [Accounts -> [ContractStatuses -> Int]]
  /\ LongAgo \in Int /\ LongAgo <= 0
  /\ InitialAccounts \subseteq [Accounts -> ContractStatuses]
  /\ NoVerdict \notin Verdicts /\ None \notin Accounts
  /\ Grants \cap (ContractRefusals \cup Unfounded) = {}

VARIABLES
  now, account, ended, \* octo-server's accounts, as in Verifier
  asked,            \* asked[v]: the account v's call is about
  outcome           \* outcome[v]: what Verify returned to v

contractVars == <<now, account, ended, asked, outcome>>

ContractTypeOK ==
  /\ now \in Nat
  /\ account \in [Accounts -> ContractStatuses]
  /\ ended \in [Accounts -> [ContractStatuses -> Int]]
  /\ asked \in [Calls -> Accounts \cup {None}]
  /\ outcome \in [Calls -> Verdicts \cup {NoVerdict}]

ContractInit ==
  /\ now = 0
  /\ account \in InitialAccounts
  /\ ended = [a \in Accounts |-> [s \in ContractStatuses |-> LongAgo]]
  /\ asked = [v \in Calls |-> None]
  /\ outcome = [v \in Calls |-> NoVerdict]

\* The last time account a was s.
LastTrue(a, s) == IF account[a] = s THEN now ELSE ended[a][s]

Ask(v, a) ==
  /\ asked[v] = None
  /\ asked' = [asked EXCEPT ![v] = a]
  /\ UNCHANGED <<now, account, ended, outcome>>

\* Verify tells v what octo-server held true of the account, a window ago at
\* most.
Tell(v, s) ==
  /\ asked[v] # None /\ outcome[v] = NoVerdict
  /\ now <= LastTrue(asked[v], s) + Window[asked[v]][s]
  /\ outcome' = [outcome EXCEPT ![v] = s]
  /\ UNCHANGED <<now, account, ended, asked>>

\* Verify returns an error that says nothing of the account.
Fail(v, e) ==
  /\ asked[v] # None /\ outcome[v] = NoVerdict
  /\ outcome' = [outcome EXCEPT ![v] = e]
  /\ UNCHANGED <<now, account, ended, asked>>

\* A malformed credential is refused as soon as it is presented.
RefuseAtOnce(v, a) ==
  /\ asked[v] = None
  /\ asked' = [asked EXCEPT ![v] = a]
  /\ outcome' = [outcome EXCEPT ![v] = "unfounded"]
  /\ UNCHANGED <<now, account, ended>>

Forget(v) ==
  /\ outcome[v] # NoVerdict
  /\ asked' = [asked EXCEPT ![v] = None]
  /\ outcome' = [outcome EXCEPT ![v] = NoVerdict]
  /\ UNCHANGED <<now, account, ended>>

Change(a, status) ==
  /\ account[a] # status
  /\ account' = [account EXCEPT ![a] = status]
  /\ ended' = [ended EXCEPT ![a] = [@ EXCEPT ![account[a]] = now]]
  /\ UNCHANGED <<now, asked, outcome>>

Pass ==
  /\ now' = now + 1
  /\ UNCHANGED <<account, ended, asked, outcome>>

ContractNext ==
  \/ \E v \in Calls :
       \/ \E a \in Accounts : Ask(v, a) \/ RefuseAtOnce(v, a)
       \/ \E s \in ContractStatuses : Tell(v, s)
       \/ \E e \in Unfounded : Fail(v, e)
       \/ Forget(v)
  \/ \E a \in Accounts, status \in ContractStatuses : Change(a, status)
  \/ Pass

ContractSpec == ContractInit /\ [][ContractNext]_contractVars
=============================================================================
