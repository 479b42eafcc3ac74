------------------------------ MODULE LRUCache ------------------------------
(***************************************************************************)
(* The default in-memory cache (go/cache.go): hashicorp/golang-lru under   *)
(* one mutex, each entry carrying an absolute expiry time.  Goroutines     *)
(* call Get, Set and Delete in any order.  A critical section is one       *)
(* action.  Set reads the clock BEFORE it takes the mutex, so it is two    *)
(* actions, SetStamp and SetInsert, and anything may happen in between.    *)
(***************************************************************************)
EXTENDS Integers, FiniteSets, SequencesExt

CONSTANTS
  Keys, Values, Ttl, Callers, NoEntry, Miss,   \* as in CacheContract
  MaxSize,    \* capacity, in entries
  NoSet,      \* the caller is not inside Set
  Horizon     \* bound: the clock stops here

ASSUME MaxSizeAssumption == MaxSize \in Nat \ {0}
ASSUME HorizonAssumption == Horizon \in Nat

VARIABLES
  now, live, reply,   \* as in CacheContract; live is golang-lru's item map
  recency,            \* golang-lru's list: keys, most recently used first
  pending,            \* pending[c]: c's stamped Set waiting for the mutex
  usedAfter           \* history: <<j, k>>, both cached, j used after k's last use

vars == <<now, live, reply, recency, pending, usedAfter>>

Contract == INSTANCE CacheContract

ASSUME TtlAssumption == Ttl \in [Values -> Nat]

\* What stands for an absence is told from what is stored.
ASSUME AbsenceAssumption ==
  /\ Miss \notin Values /\ NoEntry \notin Values
  /\ NoEntry \notin Contract!Entries

PendingSets == [key : Keys, value : Values, deadline : Int]

ASSUME NoSetAssumption == NoSet \notin PendingSets

TypeOK ==
  /\ Contract!ContractTypeOK
  /\ recency \in Seq(Keys)
  /\ pending \in [Callers -> PendingSets \cup {NoSet}]
  /\ usedAfter \subseteq Keys \X Keys

Init ==
  /\ Contract!ContractInit
  /\ recency = <<>>
  /\ pending = [c \in Callers |-> NoSet]
  /\ usedAfter = {}

----------------------------------------------------------------------------
(* The list, as golang-lru moves it. *)

Present(k) == live[k] # NoEntry

Unlist(s, k) ==
  IF \E i \in DOMAIN s : s[i] = k
  THEN RemoveAt(s, CHOOSE i \in DOMAIN s : s[i] = k)
  ELSE s

MoveToFront(s, k) == <<k>> \o Unlist(s, k)

\* The keys that adding k evicts: the oldest, when the cache is full.
Overflow(k) ==
  IF Present(k) \/ Len(recency) < MaxSize THEN {} ELSE {recency[Len(recency)]}

\* History: the keys still cached after this step, and k, if any, used by it.
Used(ks) ==
  LET kept == {j \in Keys : live'[j] # NoEntry}
  IN  usedAfter' = {p \in usedAfter \cap (kept \X kept) : p[2] \notin ks}
                     \cup ks \X (kept \ ks)

Free(c) == pending[c] = NoSet

----------------------------------------------------------------------------
(* Get, Set, Delete. *)

\* Mutant: the entry is served by a Peek.
GetFreshPeeks(c, k) ==
  /\ Free(c)
  /\ Contract!GetHit(c, k)
  /\ Used({k})
  /\ UNCHANGED <<recency, pending>>

\* The entry is served: golang-lru's Get moves it to the front.
GetFresh(c, k) ==
  /\ Free(c)
  /\ Contract!GetHit(c, k)
  /\ recency' = MoveToFront(recency, k)
  /\ Used({k})
  /\ UNCHANGED pending

\* Mutant: the expiry check is missing.
GetExpiredServes(c, k) ==
  /\ Free(c)
  /\ Present(k) /\ Contract!Expired(live[k])
  /\ reply' = [reply EXCEPT ![c] = live[k].value]
  /\ UNCHANGED <<now, live, pending>>
  /\ recency' = MoveToFront(recency, k)
  /\ Used({k})

\* An expired entry is removed when it is read, and the answer is a miss.
GetExpired(c, k) ==
  /\ Free(c)
  /\ Present(k) /\ Contract!Expired(live[k])
  /\ live' = [live EXCEPT ![k] = NoEntry]
  /\ reply' = [reply EXCEPT ![c] = Miss]
  /\ recency' = Unlist(recency, k)
  /\ Used({})
  /\ UNCHANGED <<now, pending>>

\* Mutant: the second result of golang-lru's Get is ignored.
GetAbsentServesZero(c, k) ==
  /\ Free(c)
  /\ ~Present(k)
  /\ reply' = [reply EXCEPT ![c] = NoEntry]
  /\ UNCHANGED <<now, live, recency, pending, usedAfter>>

GetAbsent(c, k) ==
  /\ Free(c)
  /\ ~Present(k)
  /\ reply' = [reply EXCEPT ![c] = Miss]
  /\ UNCHANGED <<now, live, recency, pending, usedAfter>>

\* expiresAt is computed from the clock before the lock is taken.
SetStamp(c, k, v) ==
  /\ Free(c)
  /\ pending' = [pending EXCEPT ![c] =
       [key |-> k, value |-> v,
        deadline |-> IF Ttl[v] > 0 THEN now + Ttl[v] ELSE Contract!Never]]
  /\ UNCHANGED <<now, live, reply, recency, usedAfter>>

\* Mutant: a plain map in place of golang-lru, with a list but no eviction.
SetInsertGrows(c) ==
  /\ ~Free(c)
  /\ live' = [live EXCEPT ![pending[c].key] =
                [value |-> pending[c].value, deadline |-> pending[c].deadline]]
  /\ recency' = MoveToFront(recency, pending[c].key)
  /\ Used({pending[c].key})
  /\ pending' = [pending EXCEPT ![c] = NoSet]
  /\ UNCHANGED <<now, reply>>

\* golang-lru's Add: update or insert at the front, evict the oldest.
SetInsert(c) ==
  /\ ~Free(c)
  /\ LET p    == pending[c]
         lost == Overflow(p.key)
     IN  /\ live' = [j \in Keys |->
                       IF j = p.key THEN [value |-> p.value, deadline |-> p.deadline]
                       ELSE IF j \in lost THEN NoEntry ELSE live[j]]
         /\ recency' = IF lost = {} THEN MoveToFront(recency, p.key)
                       ELSE <<p.key>> \o Front(recency)
         /\ Used({p.key})
  /\ pending' = [pending EXCEPT ![c] = NoSet]
  /\ UNCHANGED <<now, reply>>

Delete(c, k) ==
  /\ Free(c)
  /\ live' = [live EXCEPT ![k] = NoEntry]
  /\ recency' = Unlist(recency, k)
  /\ Used({})
  /\ UNCHANGED <<now, reply, pending>>

Tick ==
  /\ now < Horizon
  /\ now' = now + 1
  /\ UNCHANGED <<live, reply, recency, pending, usedAfter>>

Next ==
  \/ \E c \in Callers, k \in Keys :
       \/ GetFresh(c, k)
       \/ GetExpired(c, k)
       \/ GetAbsent(c, k)
       \/ Delete(c, k)
       \/ \E v \in Values : SetStamp(c, k, v)
  \/ \E c \in Callers : SetInsert(c)
  \/ Tick

Spec == Init /\ [][Next]_vars

----------------------------------------------------------------------------
(* Properties. *)

\* The list and the item map agree: every cached key is on the list exactly
\* once, nothing else is, and together they never exceed the capacity, in
\* whatever order Gets, Sets, expiries and Deletes interleave
\* (NewLRUCache, Get and Set of cache.go).
Bounded ==
  /\ \A k \in Keys : Present(k) <=> \E i \in DOMAIN recency : recency[i] = k
  /\ \A i, j \in DOMAIN recency : recency[i] = recency[j] => i = j
  /\ Len(recency) <= MaxSize

\* An unexpired entry leaves only by a Delete of its own key, or to make room
\* in a Set of another key, and then only when the MaxSize - 1 other cached keys
\* were all used since its own last use (the recency refresh in Get and the
\* eviction in Set of cache.go).
WorkingSetKept ==
  [][\A k \in Keys :
       (Contract!Readable(k) /\ live'[k] = NoEntry) =>
         \/ \E c \in Callers : Delete(c, k)
         \/ Cardinality({j \in Keys : <<j, k>> \in usedAfter}) = MaxSize - 1]_vars

\* The cache keeps the Cache interface's promise: whatever is interleaved
\* between a Set's clock read and its insertion, no Get answers with a value
\* past the ttl asked for (the doc of the Cache interface in cache.go).
KeepsContract == Contract!ContractSpec

=============================================================================
