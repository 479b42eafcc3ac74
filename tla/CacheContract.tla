--------------------------- MODULE CacheContract ---------------------------
(***************************************************************************)
(* What the SDK's Cache interface promises to the verifiers (go/cache.go,  *)
(* ts/src/cache.ts): a store whose Get never returns a value later than    *)
(* the ttl its writer asked for.  A cache may forget any entry early, so   *)
(* Set may drop other keys and Lose may drop any; it may not keep one late.*)
(*                                                                         *)
(* The ttl a writer passes is a function of the value it stores: verifiers *)
(* store a Principal with its realm's ttl and an Error with the negative   *)
(* one.                                                                    *)
(***************************************************************************)
EXTENDS Integers

CONSTANTS
  Keys,       \* cache keys
  Values,     \* what is stored
  Ttl,        \* Ttl[v]: the ttl its writer passes with v; none above 0 is "no expiry"
  Callers,    \* goroutines (promises, in TypeScript) using the cache
  NoEntry,    \* an absent key
  Miss        \* the answer ok = false

VARIABLES
  now,        \* the clock, in ticks
  live,       \* live[k]: the entry under k, or NoEntry
  reply       \* reply[c]: the answer to c's last Get, Miss once it is used

contractVars == <<now, live, reply>>

\* The zero time of an entry stored without expiry.
Never == -1

Entries == [value : Values, deadline : Int]

ContractTypeOK ==
  /\ now \in Nat
  /\ live \in [Keys -> Entries \cup {NoEntry}]
  /\ reply \in [Callers -> Values \cup {Miss}]

Expired(e) == e.deadline # Never /\ now > e.deadline

Readable(k) == live[k] # NoEntry /\ ~Expired(live[k])

ContractInit ==
  /\ now = 0
  /\ live = [k \in Keys |-> NoEntry]
  /\ reply = [c \in Callers |-> Miss]

\* Get on a key that is present and not expired.
GetHit(c, k) ==
  /\ Readable(k)
  /\ reply' = [reply EXCEPT ![c] = live[k].value]
  /\ UNCHANGED <<now, live>>

\* Get on any other key; an expired entry may be dropped on the way.
GetMiss(c, k) ==
  /\ ~Readable(k)
  /\ reply' = [reply EXCEPT ![c] = Miss]
  /\ \/ live' = live
     \/ live' = [live EXCEPT ![k] = NoEntry]
  /\ UNCHANGED now

Get(c, k) == GetHit(c, k) \/ GetMiss(c, k)

\* The deadlines that honor v's ttl for a Set that takes effect now.
Honors(v, deadline) ==
  IF Ttl[v] <= 0 THEN deadline = Never ELSE deadline \in 0 .. now + Ttl[v]

\* Set takes effect with this deadline; the keys in lost make room for it.
Set(k, v, deadline, lost) ==
  /\ Honors(v, deadline)
  /\ live' = [j \in Keys |->
                IF j = k THEN [value |-> v, deadline |-> deadline]
                ELSE IF j \in lost THEN NoEntry ELSE live[j]]
  /\ UNCHANGED <<now, reply>>

\* Delete, and the entries a backend forgets by itself.
Lose(k) ==
  /\ live' = [live EXCEPT ![k] = NoEntry]
  /\ UNCHANGED <<now, reply>>

\* The caller is done with its answer.
Consume(c) ==
  /\ reply' = [reply EXCEPT ![c] = Miss]
  /\ UNCHANGED <<now, live>>

Tick ==
  /\ now' = now + 1
  /\ UNCHANGED <<live, reply>>

ContractNext ==
  \/ \E c \in Callers, k \in Keys : Get(c, k)
  \/ \E k \in Keys, v \in Values :
       \E deadline \in {Never} \cup 0 .. now + Ttl[v], lost \in SUBSET (Keys \ {k}) :
         Set(k, v, deadline, lost)
  \/ \E k \in Keys : Lose(k)
  \/ \E c \in Callers : Consume(c)
  \/ Tick

ContractSpec == ContractInit /\ [][ContractNext]_contractVars

=============================================================================
