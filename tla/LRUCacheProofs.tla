--------------------------- MODULE LRUCacheProofs ---------------------------
(***************************************************************************)
(* LRUCache for every capacity and every set of keys, values and callers:  *)
(* its types, the agreement of list and map within the capacity, what may  *)
(* be evicted and when, and that it implements CacheContract.              *)
(***************************************************************************)
EXTENDS LRUCache, SequenceTheorems, FiniteSetTheorems, TLAPS

----------------------------------------------------------------------------
(* Lists without repetition. *)

Lists(s, k) == \E i \in 1 .. Len(s) : s[i] = k

Distinct(s) == \A i, j \in 1 .. Len(s) : s[i] = s[j] => i = j

Ahead(s, i, j) == \E p, q \in 1 .. Len(s) : p < q /\ s[p] = i /\ s[q] = j

\* A stretch of a list, entry by entry.
LEMMA StretchFacts ==
  ASSUME NEW s \in Seq(Keys), NEW m \in 1 .. Len(s) + 1, NEW n \in 0 .. Len(s),
         m <= n + 1
  PROVE  /\ SubSeq(s, m, n) \in Seq(Keys)
         /\ Len(SubSeq(s, m, n)) = n - m + 1
         /\ \A i \in 1 .. n - m + 1 : SubSeq(s, m, n)[i] = s[m + i - 1]
  <1>1. SubSeq(s, m, n) \in Seq(Keys)
    OBVIOUS
  <1>2. Len(SubSeq(s, m, n)) = n - m + 1
    OBVIOUS
  <1>3. \A i \in 1 .. n - m + 1 : SubSeq(s, m, n)[i] = s[m + i - 1]
    OBVIOUS
  <1> QED
    BY <1>1, <1>2, <1>3

\* Removing a key from a list takes away that key and nothing else, and leaves
\* the others in their order.
LEMMA UnlistFacts ==
  ASSUME NEW s \in Seq(Keys), NEW k \in Keys, Distinct(s)
  PROVE  /\ Unlist(s, k) \in Seq(Keys)
         /\ Distinct(Unlist(s, k))
         /\ \A j : Lists(Unlist(s, k), j) <=> Lists(s, j) /\ j # k
         /\ Len(Unlist(s, k)) = IF Lists(s, k) THEN Len(s) - 1 ELSE Len(s)
         /\ \A i, j : Ahead(Unlist(s, k), i, j) <=> Ahead(s, i, j) /\ i # k /\ j # k
  <1> DOMAIN s = 1 .. Len(s)
    OBVIOUS
  <1>1. CASE ~Lists(s, k)
    BY <1>1 DEF Unlist, Lists, Ahead
  <1>2. CASE Lists(s, k)
    <2> DEFINE p == CHOOSE i \in DOMAIN s : s[i] = k
               t == Unlist(s, k)
    <2>1. p \in 1 .. Len(s) /\ s[p] = k
      BY <1>2 DEF Lists
    <2>2. t = SubSeq(s, 1, p - 1) \o SubSeq(s, p + 1, Len(s))
      BY <1>2 DEF Unlist, Lists, RemoveAt
    <2> HIDE DEF p
    <2>3. /\ t \in Seq(Keys) /\ Len(t) = Len(s) - 1
          /\ \A i \in 1 .. Len(t) : t[i] = IF i < p THEN s[i] ELSE s[i + 1]
      <3> DEFINE a == SubSeq(s, 1, p - 1)
                 b == SubSeq(s, p + 1, Len(s))
      <3>1. /\ a \in Seq(Keys) /\ Len(a) = p - 1
            /\ \A i \in 1 .. p - 1 : a[i] = s[i]
        BY <2>1, StretchFacts
      <3>2. /\ b \in Seq(Keys) /\ Len(b) = Len(s) - p
            /\ \A i \in 1 .. Len(s) - p : b[i] = s[p + i]
        <4>1. p + 1 \in 1 .. Len(s) + 1 /\ Len(s) \in 0 .. Len(s) /\ p + 1 <= Len(s) + 1
          BY <2>1
        <4>2. /\ b \in Seq(Keys) /\ Len(b) = Len(s) - (p + 1) + 1
              /\ \A i \in 1 .. Len(s) - (p + 1) + 1 : b[i] = s[(p + 1) + i - 1]
          BY <4>1, StretchFacts
        <4> HIDE DEF b
        <4> QED
          BY <2>1, <4>2
      <3> HIDE DEF a, b
      <3>3. /\ a \o b \in Seq(Keys)
            /\ Len(a \o b) = Len(a) + Len(b)
            /\ \A i \in 1 .. Len(a) + Len(b) :
                 (a \o b)[i] = IF i <= Len(a) THEN a[i] ELSE b[i - Len(a)]
        BY <3>1, <3>2, ConcatProperties
      <3> DEFINE ab == a \o b
      <3> HIDE DEF ab
      <3>4. /\ ab \in Seq(Keys) /\ Len(ab) = Len(s) - 1
            /\ \A i \in 1 .. Len(s) - 1 : ab[i] = IF i < p THEN s[i] ELSE s[i + 1]
        <4>1. /\ ab \in Seq(Keys) /\ Len(ab) = Len(s) - 1
              /\ \A i \in 1 .. Len(s) - 1 :
                   ab[i] = IF i <= p - 1 THEN a[i] ELSE b[i - (p - 1)]
          BY <2>1, <3>1, <3>2, <3>3 DEF ab
        <4>2. \A i \in 1 .. Len(s) - 1 : ab[i] = IF i < p THEN s[i] ELSE s[i + 1]
          <5> TAKE i \in 1 .. Len(s) - 1
          <5> QED
            BY <2>1, <3>1, <3>2, <4>1
        <4> QED
          BY <4>1, <4>2
      <3>5. t = ab
        BY <2>2 DEF a, b, ab
      <3> HIDE DEF t
      <3> QED
        BY <3>4, <3>5
    <2> HIDE DEF t
    <2>4. Distinct(t)
      <3> SUFFICES ASSUME NEW i \in 1 .. Len(t), NEW j \in 1 .. Len(t), t[i] = t[j]
                   PROVE  i = j
        BY DEF Distinct
      <3>1. \A x, y \in 1 .. Len(s) : s[x] = s[y] => x = y
        BY DEF Distinct
      <3> QED
        BY <2>1, <2>3, <3>1
    <2>5. ASSUME NEW j, Lists(t, j)
          PROVE  Lists(s, j) /\ j # k
      BY <2>1, <2>3, <2>5 DEF Distinct, Lists
    <2>6. ASSUME NEW j, Lists(s, j), j # k
          PROVE  Lists(t, j)
      <3>1. PICK i \in 1 .. Len(s) : s[i] = j
        BY <2>6 DEF Lists
      <3>2. CASE i < p
        BY <2>1, <2>3, <3>1, <3>2 DEF Lists
      <3>3. CASE i > p
        <4>1. i - 1 \in 1 .. Len(t) /\ t[i - 1] = j
          BY <2>1, <2>3, <3>1, <3>3
        <4> QED
          BY <2>3, <4>1 DEF Lists
      <3> QED
        BY <2>1, <2>6, <3>1, <3>2, <3>3
    <2>7. ASSUME NEW i, NEW j, Ahead(t, i, j)
          PROVE  Ahead(s, i, j) /\ i # k /\ j # k
      <3> DEFINE old(x) == IF x < p THEN x ELSE x + 1
      <3>1. PICK x, y \in 1 .. Len(t) : x < y /\ t[x] = i /\ t[y] = j
        BY <2>7 DEF Ahead
      <3>2. /\ old(x) \in 1 .. Len(s) /\ old(y) \in 1 .. Len(s) /\ old(x) < old(y)
            /\ s[old(x)] = i /\ s[old(y)] = j
        BY <2>1, <2>3, <3>1
      <3>3. Lists(t, i) /\ Lists(t, j)
        BY <3>1 DEF Lists
      <3> HIDE DEF old
      <3> QED
        BY <2>5, <3>2, <3>3 DEF Ahead
    <2>8. ASSUME NEW i, NEW j, Ahead(s, i, j), i # k, j # k
          PROVE  Ahead(t, i, j)
      <3> DEFINE new(x) == IF x < p THEN x ELSE x - 1
      <3>1. PICK x, y \in 1 .. Len(s) : x < y /\ s[x] = i /\ s[y] = j
        BY <2>8 DEF Ahead
      <3>2. x # p /\ y # p
        BY <2>1, <2>8, <3>1
      <3>3. new(x) \in 1 .. Len(t) /\ new(y) \in 1 .. Len(t) /\ new(x) < new(y)
        BY <2>1, <2>3, <3>1, <3>2
      <3>4. ASSUME NEW z \in 1 .. Len(s), z # p, new(z) \in 1 .. Len(t)
            PROVE  t[new(z)] = s[z]
        <4>1. t[new(z)] = IF new(z) < p THEN s[new(z)] ELSE s[new(z) + 1]
          BY <2>3, <3>4
        <4>2. CASE z < p
          BY <4>1, <4>2
        <4>3. CASE z > p
          BY <2>1, <4>1, <4>3
        <4> QED
          BY <2>1, <3>4, <4>2, <4>3
      <3>5. t[new(x)] = i /\ t[new(y)] = j
        BY <3>1, <3>2, <3>3, <3>4
      <3> HIDE DEF new
      <3> QED
        BY <3>3, <3>5 DEF Ahead
    <2> QED
      BY <1>2, <2>3, <2>4, <2>5, <2>6, <2>7, <2>8 DEF t
  <1> QED
    BY <1>1, <1>2

\* Putting a new key in front adds that key, ahead of all others, and nothing
\* else.
LEMMA PushFacts ==
  ASSUME NEW s \in Seq(Keys), NEW k \in Keys, Distinct(s), ~Lists(s, k)
  PROVE  /\ <<k>> \o s \in Seq(Keys)
         /\ Distinct(<<k>> \o s)
         /\ \A j : Lists(<<k>> \o s, j) <=> Lists(s, j) \/ j = k
         /\ Len(<<k>> \o s) = Len(s) + 1
         /\ \A i, j : Ahead(<<k>> \o s, i, j) <=> Ahead(s, i, j) \/ (i = k /\ Lists(s, j))
  <1> DEFINE t == <<k>> \o s
  <1>1. /\ t \in Seq(Keys) /\ Len(t) = Len(s) + 1
        /\ \A i \in 1 .. Len(t) : t[i] = IF i = 1 THEN k ELSE s[i - 1]
    OBVIOUS
  <1> HIDE DEF t
  <1>2. Distinct(t)
    BY <1>1 DEF Distinct, Lists
  <1>3. ASSUME NEW j
        PROVE  Lists(t, j) => Lists(s, j) \/ j = k
    BY <1>1 DEF Lists
  <1>4. ASSUME NEW j, Lists(s, j) \/ j = k
        PROVE  Lists(t, j)
    <2>1. CASE j = k
      <3>1. 1 \in 1 .. Len(t) /\ t[1] = j
        BY <1>1, <2>1
      <3> QED
        BY <1>1, <3>1 DEF Lists
    <2>2. CASE Lists(s, j)
      <3>1. PICK i \in 1 .. Len(s) : s[i] = j
        BY <2>2 DEF Lists
      <3>2. i + 1 \in 1 .. Len(t) /\ t[i + 1] = j
        BY <1>1, <3>1
      <3> QED
        BY <1>1, <3>2 DEF Lists
    <2> QED
      BY <1>4, <2>1, <2>2
  <1>5. ASSUME NEW i, NEW j, Ahead(t, i, j)
        PROVE  Ahead(s, i, j) \/ (i = k /\ Lists(s, j))
    <2>1. PICK x, y \in 1 .. Len(t) : x < y /\ t[x] = i /\ t[y] = j
      BY <1>5 DEF Ahead
    <2>2. y - 1 \in 1 .. Len(s) /\ s[y - 1] = j
      BY <1>1, <2>1
    <2>3. CASE x = 1
      BY <1>1, <2>1, <2>2, <2>3 DEF Lists
    <2>4. CASE x # 1
      <3>1. x - 1 \in 1 .. Len(s) /\ x - 1 < y - 1 /\ s[x - 1] = i
        BY <1>1, <2>1, <2>4
      <3> QED
        BY <2>2, <3>1 DEF Ahead
    <2> QED
      BY <2>3, <2>4
  <1>6. ASSUME NEW i, NEW j, Ahead(s, i, j) \/ (i = k /\ Lists(s, j))
        PROVE  Ahead(t, i, j)
    <2>1. CASE Ahead(s, i, j)
      <3>1. PICK x, y \in 1 .. Len(s) : x < y /\ s[x] = i /\ s[y] = j
        BY <2>1 DEF Ahead
      <3>2. /\ x + 1 \in 1 .. Len(t) /\ y + 1 \in 1 .. Len(t) /\ x + 1 < y + 1
            /\ t[x + 1] = i /\ t[y + 1] = j
        BY <1>1, <3>1
      <3> QED
        BY <3>2 DEF Ahead
    <2>2. CASE i = k /\ Lists(s, j)
      <3>1. PICK y \in 1 .. Len(s) : s[y] = j
        BY <2>2 DEF Lists
      <3>2. 1 \in 1 .. Len(t) /\ y + 1 \in 1 .. Len(t) /\ 1 < y + 1 /\ t[1] = i /\ t[y + 1] = j
        BY <1>1, <2>2, <3>1
      <3> QED
        BY <3>2 DEF Ahead
    <2> QED
      BY <1>6, <2>1, <2>2
  <1> QED
    BY <1>1, <1>2, <1>3, <1>4, <1>5, <1>6 DEF t

\* A list without its last key, which was ahead of none and behind all others.
LEMMA FrontFacts ==
  ASSUME NEW s \in Seq(Keys), Distinct(s), Len(s) > 0
  PROVE  /\ Front(s) \in Seq(Keys)
         /\ Distinct(Front(s))
         /\ \A j : Lists(Front(s), j) <=> Lists(s, j) /\ j # s[Len(s)]
         /\ Len(Front(s)) = Len(s) - 1
         /\ s[Len(s)] \in Keys /\ Lists(s, s[Len(s)])
         /\ \A i, j : Ahead(Front(s), i, j) <=> Ahead(s, i, j) /\ j # s[Len(s)]
         /\ \A j : ~Ahead(s, s[Len(s)], j)
         /\ \A i : Ahead(s, i, s[Len(s)]) <=> Lists(Front(s), i)
  <1> DEFINE t == Front(s)
  <1>1. /\ t \in Seq(Keys) /\ Len(t) = Len(s) - 1
        /\ \A i \in 1 .. Len(t) : t[i] = s[i]
    <2>1. 1 \in 1 .. Len(s) + 1 /\ Len(s) - 1 \in 0 .. Len(s) /\ 1 <= Len(s) - 1 + 1
      OBVIOUS
    <2>2. /\ t \in Seq(Keys) /\ Len(t) = Len(s) - 1 - 1 + 1
          /\ \A i \in 1 .. Len(s) - 1 - 1 + 1 : t[i] = s[1 + i - 1]
      BY <2>1, StretchFacts DEF Front
    <2> HIDE DEF t
    <2> QED
      BY <2>2
  <1> HIDE DEF t
  <1>2. Distinct(t)
    BY <1>1 DEF Distinct
  <1>3. ASSUME NEW j
        PROVE  Lists(t, j) <=> Lists(s, j) /\ j # s[Len(s)]
    BY <1>1 DEF Lists, Distinct
  <1>4. s[Len(s)] \in Keys /\ Lists(s, s[Len(s)])
    BY DEF Lists
  <1>5. ASSUME NEW i, NEW j
        PROVE  Ahead(t, i, j) <=> Ahead(s, i, j) /\ j # s[Len(s)]
    <2>1. Ahead(t, i, j) => Ahead(s, i, j) /\ j # s[Len(s)]
      BY <1>1 DEF Ahead, Distinct
    <2>2. ASSUME Ahead(s, i, j), j # s[Len(s)]
          PROVE  Ahead(t, i, j)
      <3>1. PICK x, y \in 1 .. Len(s) : x < y /\ s[x] = i /\ s[y] = j
        BY <2>2 DEF Ahead
      <3>2. x \in 1 .. Len(t) /\ y \in 1 .. Len(t) /\ t[x] = i /\ t[y] = j
        BY <1>1, <2>2, <3>1
      <3> QED
        BY <3>1, <3>2 DEF Ahead
    <2> QED
      BY <2>1, <2>2
  <1>6. \A j : ~Ahead(s, s[Len(s)], j)
    BY DEF Ahead, Distinct
  <1>7. ASSUME NEW i
        PROVE  Ahead(s, i, s[Len(s)]) <=> Lists(t, i)
    <2>1. Ahead(s, i, s[Len(s)]) => Lists(t, i)
      BY <1>1 DEF Ahead, Lists
    <2>2. ASSUME NEW x \in 1 .. Len(t), t[x] = i
          PROVE  Ahead(s, i, s[Len(s)])
      <3>1. x \in 1 .. Len(s) /\ Len(s) \in 1 .. Len(s) /\ x < Len(s) /\ s[x] = i
        BY <1>1, <2>2
      <3> QED
        BY <3>1 DEF Ahead
    <2> QED
      BY <2>1, <2>2 DEF Lists
  <1> QED
    BY <1>1, <1>2, <1>3, <1>4, <1>5, <1>6, <1>7 DEF t

\* A use of a key keeps the list's keys, puts it ahead of all others, and adds
\* the key if it is new.
LEMMA MoveFacts ==
  ASSUME NEW s \in Seq(Keys), NEW k \in Keys, Distinct(s)
  PROVE  /\ MoveToFront(s, k) \in Seq(Keys)
         /\ Distinct(MoveToFront(s, k))
         /\ \A j : Lists(MoveToFront(s, k), j) <=> Lists(s, j) \/ j = k
         /\ Len(MoveToFront(s, k)) = IF Lists(s, k) THEN Len(s) ELSE Len(s) + 1
         /\ \A i, j : Ahead(MoveToFront(s, k), i, j) <=>
                        \/ Ahead(s, i, j) /\ i # k /\ j # k
                        \/ i = k /\ Lists(s, j) /\ j # k
  <1> DEFINE u == Unlist(s, k)
  <1>1. /\ u \in Seq(Keys) /\ Distinct(u)
        /\ \A j : Lists(u, j) <=> Lists(s, j) /\ j # k
        /\ Len(u) = IF Lists(s, k) THEN Len(s) - 1 ELSE Len(s)
        /\ \A i, j : Ahead(u, i, j) <=> Ahead(s, i, j) /\ i # k /\ j # k
    BY UnlistFacts
  <1> HIDE DEF u
  <1>2. ~Lists(u, k)
    BY <1>1
  <1>3. /\ <<k>> \o u \in Seq(Keys) /\ Distinct(<<k>> \o u)
        /\ \A j : Lists(<<k>> \o u, j) <=> Lists(u, j) \/ j = k
        /\ Len(<<k>> \o u) = Len(u) + 1
        /\ \A i, j : Ahead(<<k>> \o u, i, j) <=> Ahead(u, i, j) \/ (i = k /\ Lists(u, j))
    BY <1>1, <1>2, PushFacts
  <1>4. MoveToFront(s, k) = <<k>> \o u
    BY DEF MoveToFront, u
  <1>5. \A j : Lists(<<k>> \o u, j) <=> Lists(s, j) \/ j = k
    BY <1>1, <1>3
  <1>6. Len(<<k>> \o u) = IF Lists(s, k) THEN Len(s) ELSE Len(s) + 1
    BY <1>1, <1>3
  <1>7. \A i, j : Ahead(<<k>> \o u, i, j) <=>
                     \/ Ahead(s, i, j) /\ i # k /\ j # k
                     \/ i = k /\ Lists(s, j) /\ j # k
    BY <1>1, <1>3
  <1> QED
    BY <1>3, <1>4, <1>5, <1>6, <1>7

----------------------------------------------------------------------------
(* The inductive invariant. *)

\* Bounded, with the domain of a list written out.
ListAgrees ==
  /\ \A k \in Keys : Present(k) <=> Lists(recency, k)
  /\ Distinct(recency)
  /\ Len(recency) <= MaxSize

\* However long a stamped Set waits for the mutex, its deadline is one that
\* the ttl of its value would allow now.
PendingHonored ==
  \A c \in Callers :
    ~Free(c) => Contract!Honors(pending[c].value, pending[c].deadline)

\* golang-lru's list is the order of the last uses: j stands ahead of k exactly
\* when j was used after k.
HistoryIsOrder ==
  \A j, k \in Keys : <<j, k>> \in usedAfter <=> Ahead(recency, j, k)

Inv == TypeOK /\ ListAgrees /\ PendingHonored /\ HistoryIsOrder

\* The entry under a key, and a Set that waits, have their fields.
LEMMA FieldFacts ==
  ASSUME TypeOK
  PROVE  /\ \A k \in Keys : Present(k) =>
              live[k].value \in Values /\ live[k].deadline \in Int
         /\ \A c \in Callers : ~Free(c) =>
              /\ pending[c].key \in Keys
              /\ pending[c].value \in Values
              /\ pending[c].deadline \in Int
  BY DEF TypeOK, Contract!ContractTypeOK, Contract!Entries, PendingSets, Present, Free

\* The history only ever relates keys, and after a step relates the cached ones
\* as before, but for the keys used, which come after all others.
LEMMA UsedFacts ==
  ASSUME NEW ks \in SUBSET Keys, usedAfter \subseteq Keys \X Keys, Used(ks)
  PROVE  /\ usedAfter' \subseteq Keys \X Keys
         /\ \A i, j \in Keys : <<i, j>> \in usedAfter' <=>
              \/ /\ <<i, j>> \in usedAfter /\ j \notin ks
                 /\ live'[i] # NoEntry /\ live'[j] # NoEntry
              \/ i \in ks /\ live'[j] # NoEntry /\ j \notin ks
  <1> DEFINE kept == {j \in Keys : live'[j] # NoEntry}
  <1>1. usedAfter' = {p \in usedAfter \cap (kept \X kept) : p[2] \notin ks}
                       \cup ks \X (kept \ ks)
    BY DEF Used
  <1> QED
    BY <1>1

\* Taking a key out of the map and off the list keeps them in agreement.
LEMMA RemovalFacts ==
  ASSUME Inv, NEW k \in Keys,
         live' = [live EXCEPT ![k] = NoEntry],
         recency' = Unlist(recency, k)
  PROVE  recency' \in Seq(Keys) /\ ListAgrees'
  <1>1. /\ recency' \in Seq(Keys) /\ Distinct(recency')
        /\ \A j : Lists(recency', j) <=> Lists(recency, j) /\ j # k
        /\ Len(recency') = IF Lists(recency, k) THEN Len(recency) - 1 ELSE Len(recency)
    BY UnlistFacts DEF Inv, TypeOK, ListAgrees
  <1>2. Len(recency') <= MaxSize
    BY <1>1, MaxSizeAssumption DEF Inv, TypeOK, ListAgrees
  <1>3. \A j \in Keys : Present(j)' <=> Lists(recency', j)
    <2> TAKE j \in Keys
    <2>1. live'[j] = IF j = k THEN NoEntry ELSE live[j]
      BY DEF Inv, TypeOK, Contract!ContractTypeOK
    <2> QED
      BY <1>1, <2>1 DEF Inv, ListAgrees, Present
  <1> QED
    BY <1>1, <1>2, <1>3 DEF ListAgrees

\* A hit only reorders the list.
LEMMA HitFacts ==
  ASSUME Inv, NEW c \in Callers, NEW k \in Keys, GetFresh(c, k)
  PROVE  recency' \in Seq(Keys) /\ ListAgrees'
  <1>1. /\ recency' \in Seq(Keys) /\ Distinct(recency')
        /\ \A j : Lists(recency', j) <=> Lists(recency, j) \/ j = k
        /\ Len(recency') = IF Lists(recency, k) THEN Len(recency) ELSE Len(recency) + 1
    BY MoveFacts DEF Inv, TypeOK, ListAgrees, GetFresh
  <1>2. Lists(recency, k)
    BY DEF Inv, ListAgrees, GetFresh, Contract!GetHit, Contract!Readable, Present
  <1>3. live' = live
    BY DEF GetFresh, Contract!GetHit
  <1>4. Len(recency') <= MaxSize
    BY <1>1, <1>2 DEF Inv, ListAgrees
  <1>5. \A j \in Keys : Present(j)' <=> Lists(recency', j)
    BY <1>1, <1>2, <1>3 DEF Inv, ListAgrees, Present
  <1> QED
    BY <1>1, <1>4, <1>5 DEF ListAgrees

\* What an insertion evicts is the oldest key, never the one inserted.
LEMMA OverflowFacts ==
  ASSUME Inv, NEW k \in Keys
  PROVE  Overflow(k) \subseteq Keys \ {k}
  <1>1. CASE Present(k) \/ Len(recency) < MaxSize
    BY <1>1 DEF Overflow
  <1>2. CASE ~(Present(k) \/ Len(recency) < MaxSize)
    <2>1. Len(recency) > 0
      BY <1>2, MaxSizeAssumption DEF Inv, TypeOK
    <2>2. recency[Len(recency)] \in Keys /\ Lists(recency, recency[Len(recency)])
      BY <2>1, FrontFacts DEF Inv, TypeOK, ListAgrees
    <2>3. ~Lists(recency, k)
      BY <1>2 DEF Inv, ListAgrees
    <2> QED
      BY <1>2, <2>2, <2>3 DEF Overflow
  <1> QED
    BY <1>1, <1>2

\* An insertion keeps map and list in agreement and within the capacity.
LEMMA InsertFacts ==
  ASSUME Inv, NEW c \in Callers, SetInsert(c)
  PROVE  recency' \in Seq(Keys) /\ ListAgrees'
  <1> DEFINE k    == pending[c].key
             lost == Overflow(k)
             e    == [value |-> pending[c].value, deadline |-> pending[c].deadline]
  <1>1. /\ k \in Keys
        /\ live' = [j \in Keys |->
                      IF j = k THEN e ELSE IF j \in lost THEN NoEntry ELSE live[j]]
        /\ recency' = IF lost = {} THEN MoveToFront(recency, k)
                      ELSE <<k>> \o Front(recency)
    BY FieldFacts DEF Inv, SetInsert
  <1>2. e # NoEntry
    <2>1. e \in Contract!Entries
      BY FieldFacts DEF Inv, SetInsert, Contract!Entries
    <2> QED
      BY <2>1, AbsenceAssumption
  <1>3. lost \subseteq Keys \ {k}
    BY <1>1, OverflowFacts
  <1>4. recency \in Seq(Keys) /\ Distinct(recency) /\ Len(recency) <= MaxSize
    BY DEF Inv, TypeOK, ListAgrees
  <1>5. \A j \in Keys : Lists(recency, j) <=> live[j] # NoEntry
    BY DEF Inv, ListAgrees, Present
  <1>6. lost = IF Lists(recency, k) \/ Len(recency) < MaxSize THEN {}
               ELSE {recency[Len(recency)]}
    BY <1>1, <1>5 DEF Overflow, Present
  <1> HIDE DEF k, lost, e
  <1>7. \A j \in Keys : live'[j] # NoEntry <=> j = k \/ (Lists(recency, j) /\ j \notin lost)
    BY <1>1, <1>2, <1>5
  <1>8. CASE lost = {}
    <2>1. /\ recency' \in Seq(Keys) /\ Distinct(recency')
          /\ \A j : Lists(recency', j) <=> Lists(recency, j) \/ j = k
          /\ Len(recency') = IF Lists(recency, k) THEN Len(recency) ELSE Len(recency) + 1
      BY <1>1, <1>4, <1>8, MoveFacts
    <2>2. Len(recency') <= MaxSize
      <3>1. Len(recency) \in Nat
        BY <1>4
      <3>2. Lists(recency, k) \/ Len(recency) < MaxSize
        BY <1>6, <1>8
      <3> QED
        BY <1>4, <2>1, <3>1, <3>2, MaxSizeAssumption
    <2>3. \A j \in Keys : live'[j] # NoEntry <=> Lists(recency', j)
      BY <1>7, <1>8, <2>1
    <2> QED
      BY <2>1, <2>2, <2>3 DEF ListAgrees, Present
  <1>9. CASE lost # {}
    <2> DEFINE f == Front(recency)
    <2>1. ~Lists(recency, k) /\ lost = {recency[Len(recency)]} /\ ~(Len(recency) < MaxSize)
      BY <1>6, <1>9
    <2>2. Len(recency) > 0
      BY <1>4, <2>1, MaxSizeAssumption
    <2>3. /\ f \in Seq(Keys) /\ Distinct(f)
          /\ \A j : Lists(f, j) <=> Lists(recency, j) /\ j # recency[Len(recency)]
          /\ Len(f) = Len(recency) - 1
      BY <1>4, <2>2, FrontFacts
    <2> HIDE DEF f
    <2>4. recency' = <<k>> \o f
      BY <1>1, <1>9 DEF f
    <2>5. ~Lists(f, k)
      BY <2>1, <2>3
    <2>6. /\ recency' \in Seq(Keys) /\ Distinct(recency')
          /\ \A j : Lists(recency', j) <=> Lists(f, j) \/ j = k
          /\ Len(recency') = Len(f) + 1
      <3>1. k \in Keys
        BY <1>1
      <3>2. /\ <<k>> \o f \in Seq(Keys) /\ Distinct(<<k>> \o f)
            /\ \A j : Lists(<<k>> \o f, j) <=> Lists(f, j) \/ j = k
            /\ Len(<<k>> \o f) = Len(f) + 1
        BY <2>3, <2>5, <3>1, PushFacts
      <3> QED
        BY <2>4, <3>2
    <2>7. Len(recency') <= MaxSize
      <3>1. Len(recency) \in Nat /\ MaxSize \in Nat
        BY <1>4, MaxSizeAssumption
      <3> QED
        BY <1>4, <2>3, <2>6, <3>1
    <2>8. \A j \in Keys : live'[j] # NoEntry <=> Lists(recency', j)
      BY <1>7, <2>1, <2>3, <2>6
    <2> QED
      BY <2>6, <2>7, <2>8 DEF ListAgrees, Present
  <1> QED
    BY <1>8, <1>9

\* The empty cache satisfies the invariant (NewLRUCache in cache.go).
LEMMA InitInv == Init => Inv
  <1> SUFFICES ASSUME Init PROVE Inv
    OBVIOUS
  <1> USE DEF Init, Contract!ContractInit
  <1>1. TypeOK
    BY DEF TypeOK, Contract!ContractTypeOK
  <1>2. ListAgrees
    BY MaxSizeAssumption DEF ListAgrees, Lists, Distinct, Present
  <1>3. PendingHonored
    BY DEF PendingHonored, Free
  <1>4. HistoryIsOrder
    BY DEF HistoryIsOrder, Ahead
  <1> QED
    BY <1>1, <1>2, <1>3, <1>4 DEF Inv

\* Every step keeps the types.
LEMMA TypeStep == Inv /\ [Next]_vars => TypeOK'
  <1> SUFFICES ASSUME Inv, [Next]_vars PROVE TypeOK'
    OBVIOUS
  <1> USE DEF Contract!ContractTypeOK
  <1>0. TypeOK
    BY DEF Inv
  <1>1. ASSUME NEW c \in Callers, NEW k \in Keys, GetFresh(c, k)
        PROVE  TypeOK'
    <2>1. live[k].value \in Values
      BY <1>0, <1>1, FieldFacts DEF GetFresh, Contract!GetHit, Contract!Readable, Present
    <2>2. recency' \in Seq(Keys)
      BY <1>1, HitFacts
    <2>3. usedAfter' \subseteq Keys \X Keys
      BY <1>0, <1>1, UsedFacts DEF TypeOK, GetFresh
    <2> QED
      BY <1>0, <1>1, <2>1, <2>2, <2>3 DEF TypeOK, GetFresh, Contract!GetHit
  <1>2. ASSUME NEW c \in Callers, NEW k \in Keys, GetExpired(c, k) \/ Delete(c, k)
        PROVE  TypeOK'
    <2>1. recency' \in Seq(Keys)
      BY <1>2, RemovalFacts DEF GetExpired, Delete
    <2>2. usedAfter' \subseteq Keys \X Keys
      <3>1. Used({})
        BY <1>2 DEF GetExpired, Delete
      <3> QED
        BY <1>0, <3>1, UsedFacts DEF TypeOK
    <2> QED
      BY <1>0, <1>2, <2>1, <2>2 DEF TypeOK, GetExpired, Delete
  <1>3. ASSUME NEW c \in Callers, NEW k \in Keys, GetAbsent(c, k)
        PROVE  TypeOK'
    BY <1>0, <1>3 DEF TypeOK, GetAbsent
  <1>4. ASSUME NEW c \in Callers, NEW k \in Keys, NEW v \in Values, SetStamp(c, k, v)
        PROVE  TypeOK'
    <2>1. Ttl[v] \in Nat /\ now \in Nat
      BY <1>0, TtlAssumption DEF TypeOK
    <2>2. (IF Ttl[v] > 0 THEN now + Ttl[v] ELSE Contract!Never) \in Int
      BY <2>1 DEF Contract!Never
    <2> QED
      BY <1>0, <1>4, <2>2 DEF TypeOK, SetStamp, PendingSets
  <1>5. ASSUME NEW c \in Callers, SetInsert(c)
        PROVE  TypeOK'
    <2> DEFINE e == [value |-> pending[c].value, deadline |-> pending[c].deadline]
    <2>1. e \in Contract!Entries /\ pending[c].key \in Keys
      BY <1>0, <1>5, FieldFacts DEF SetInsert, Contract!Entries
    <2>2. live' \in [Keys -> Contract!Entries \cup {NoEntry}]
      BY <1>0, <1>5, <2>1 DEF TypeOK, SetInsert
    <2>3. recency' \in Seq(Keys)
      BY <1>5, InsertFacts
    <2>4. usedAfter' \subseteq Keys \X Keys
      <3>1. Used({pending[c].key})
        BY <1>5 DEF SetInsert
      <3> QED
        BY <1>0, <2>1, <3>1, UsedFacts DEF TypeOK
    <2>5. pending' \in [Callers -> PendingSets \cup {NoSet}]
      BY <1>0, <1>5 DEF TypeOK, SetInsert
    <2> QED
      BY <1>0, <1>5, <2>2, <2>3, <2>4, <2>5 DEF TypeOK, SetInsert
  <1>6. CASE Tick
    BY <1>0, <1>6 DEF TypeOK, Tick
  <1>7. CASE UNCHANGED vars
    BY <1>0, <1>7 DEF TypeOK, vars
  <1> QED
    BY <1>1, <1>2, <1>3, <1>4, <1>5, <1>6, <1>7 DEF Next

\* Every step keeps list and map in agreement: only a hit, a removal and an
\* insertion touch them.
LEMMA ListStep == Inv /\ [Next]_vars => ListAgrees'
  <1> SUFFICES ASSUME Inv, [Next]_vars PROVE ListAgrees'
    OBVIOUS
  <1>1. ASSUME NEW c \in Callers, NEW k \in Keys, GetFresh(c, k)
        PROVE  ListAgrees'
    BY <1>1, HitFacts
  <1>2. ASSUME NEW c \in Callers, NEW k \in Keys, GetExpired(c, k) \/ Delete(c, k)
        PROVE  ListAgrees'
    BY <1>2, RemovalFacts DEF GetExpired, Delete
  <1>3. ASSUME NEW c \in Callers, SetInsert(c)
        PROVE  ListAgrees'
    BY <1>3, InsertFacts
  <1>4. CASE UNCHANGED <<live, recency>>
    BY <1>4 DEF Inv, ListAgrees, Present, Lists, Distinct
  <1> QED
    BY <1>1, <1>2, <1>3, <1>4 DEF Next, vars, GetAbsent, SetStamp, Tick

\* A waiting Set's deadline stays allowed: the clock only moves it further into
\* the past (Set reads the clock before it locks, in cache.go).
LEMMA PendingStep == Inv /\ [Next]_vars => PendingHonored'
  <1> SUFFICES ASSUME Inv, [Next]_vars, NEW c \in Callers, ~Free(c)'
               PROVE  Contract!Honors(pending[c].value, pending[c].deadline)'
    BY DEF PendingHonored
  <1> USE DEF Contract!Honors, Contract!Never
  <1>0. TypeOK /\ PendingHonored
    BY DEF Inv
  <1>1. now \in Nat
    BY <1>0 DEF TypeOK, Contract!ContractTypeOK
  <1>2. CASE pending'[c] = pending[c] /\ now' \in {now, now + 1}
    <2>1. ~Free(c)
      BY <1>2 DEF Free
    <2>2. Ttl[pending[c].value] \in Nat /\ pending[c].deadline \in Int
      BY <1>0, <2>1, FieldFacts, TtlAssumption
    <2>3. IF Ttl[pending[c].value] <= 0 THEN pending[c].deadline = -1
          ELSE pending[c].deadline \in 0 .. now + Ttl[pending[c].value]
      BY <1>0, <2>1 DEF PendingHonored
    <2>4. IF Ttl[pending[c].value] <= 0 THEN pending[c].deadline = -1
          ELSE pending[c].deadline \in 0 .. now' + Ttl[pending[c].value]
      BY <1>1, <1>2, <2>2, <2>3
    <2> QED
      BY <1>2, <2>4
  <1>3. ASSUME NEW d \in Callers, NEW k \in Keys, NEW v \in Values, SetStamp(d, k, v)
        PROVE  Contract!Honors(pending[c].value, pending[c].deadline)'
    <2>1. CASE c = d
      <3>1. Ttl[v] \in Nat
        BY TtlAssumption
      <3>2. /\ pending'[c].value = v
            /\ pending'[c].deadline = IF Ttl[v] > 0 THEN now + Ttl[v] ELSE -1
            /\ now' = now
        BY <1>0, <1>3, <2>1 DEF TypeOK, SetStamp
      <3> QED
        BY <1>1, <3>1, <3>2
    <2>2. CASE c # d
      BY <1>0, <1>2, <1>3, <2>2 DEF TypeOK, SetStamp
    <2> QED
      BY <2>1, <2>2
  <1>4. ASSUME NEW d \in Callers, SetInsert(d)
        PROVE  Contract!Honors(pending[c].value, pending[c].deadline)'
    <2>1. c # d
      BY <1>0, <1>4 DEF TypeOK, SetInsert, Free
    <2> QED
      BY <1>0, <1>2, <1>4, <2>1 DEF TypeOK, SetInsert
  <1>5. CASE UNCHANGED pending /\ now' \in {now, now + 1}
    BY <1>2, <1>5
  <1> QED
    BY <1>3, <1>4, <1>5
    DEF Next, vars, GetFresh, Contract!GetHit, GetExpired, GetAbsent, Delete, Tick

\* What a full cache gives up for a new key: its oldest key, and only that.
LEMMA EvictionFacts ==
  ASSUME Inv, NEW k \in Keys, Overflow(k) # {}
  PROVE  /\ Overflow(k) = {recency[Len(recency)]}
         /\ Len(recency) = MaxSize /\ Len(recency) > 0
         /\ ~Lists(recency, k)
  <1>1. /\ Overflow(k) = {recency[Len(recency)]}
        /\ ~Present(k) /\ ~(Len(recency) < MaxSize)
    BY DEF Overflow
  <1>2. Len(recency) \in Nat /\ Len(recency) <= MaxSize /\ MaxSize \in Nat \ {0}
    BY MaxSizeAssumption DEF Inv, TypeOK, ListAgrees
  <1> QED
    BY <1>1, <1>2 DEF Inv, ListAgrees

\* The list stays the order of the last uses through hit, removal, update,
\* insertion and eviction alike.
LEMMA HistoryStep == Inv /\ [Next]_vars => HistoryIsOrder'
  <1> SUFFICES ASSUME Inv, [Next]_vars PROVE HistoryIsOrder'
    OBVIOUS
  <1>0. /\ recency \in Seq(Keys) /\ Distinct(recency)
        /\ usedAfter \subseteq Keys \X Keys
        /\ \A j \in Keys : live[j] # NoEntry <=> Lists(recency, j)
        /\ \A i, j \in Keys : <<i, j>> \in usedAfter <=> Ahead(recency, i, j)
    BY DEF Inv, TypeOK, ListAgrees, Present, HistoryIsOrder
  <1>1. \A i, j : Ahead(recency, i, j) => Lists(recency, i) /\ Lists(recency, j)
    BY DEF Ahead, Lists
  <1>2. ListAgrees'
    BY ListStep
  <1>3. \A j \in Keys : live'[j] # NoEntry <=> Lists(recency', j)
    BY <1>2 DEF ListAgrees, Present
  <1>4. ASSUME NEW c \in Callers, NEW k \in Keys, GetFresh(c, k)
        PROVE  HistoryIsOrder'
    <2>1. \A i, j : Ahead(recency', i, j) <=>
                      \/ Ahead(recency, i, j) /\ i # k /\ j # k
                      \/ i = k /\ Lists(recency, j) /\ j # k
      BY <1>0, <1>4, MoveFacts DEF GetFresh
    <2>2. live' = live /\ Used({k})
      BY <1>4 DEF GetFresh, Contract!GetHit
    <2>3. \A i, j \in Keys : <<i, j>> \in usedAfter' <=>
             \/ /\ <<i, j>> \in usedAfter /\ j \notin {k}
                /\ live'[i] # NoEntry /\ live'[j] # NoEntry
             \/ i \in {k} /\ live'[j] # NoEntry /\ j \notin {k}
      BY <1>0, <2>2, UsedFacts
    <2> QED
      BY <1>0, <1>1, <2>1, <2>2, <2>3 DEF HistoryIsOrder
  <1>5. ASSUME NEW c \in Callers, NEW k \in Keys, GetExpired(c, k) \/ Delete(c, k)
        PROVE  HistoryIsOrder'
    <2>1. recency' = Unlist(recency, k) /\ Used({})
      BY <1>5 DEF GetExpired, Delete
    <2>2. /\ \A i, j : Ahead(recency', i, j) <=> Ahead(recency, i, j) /\ i # k /\ j # k
          /\ \A j : Lists(recency', j) <=> Lists(recency, j) /\ j # k
      BY <1>0, <2>1, UnlistFacts
    <2>3. \A i, j \in Keys : <<i, j>> \in usedAfter' <=>
             \/ /\ <<i, j>> \in usedAfter /\ j \notin {}
                /\ live'[i] # NoEntry /\ live'[j] # NoEntry
             \/ i \in {} /\ live'[j] # NoEntry /\ j \notin {}
      BY <1>0, <2>1, UsedFacts
    <2> QED
      BY <1>0, <1>1, <1>3, <2>2, <2>3 DEF HistoryIsOrder
  <1>6. ASSUME NEW c \in Callers, SetInsert(c)
        PROVE  HistoryIsOrder'
    <2> DEFINE k    == pending[c].key
               lost == Overflow(k)
    <2>1. /\ k \in Keys /\ Used({k})
          /\ recency' = IF lost = {} THEN MoveToFront(recency, k)
                        ELSE <<k>> \o Front(recency)
      BY <1>6, FieldFacts DEF Inv, SetInsert
    <2>2. lost # {} => /\ lost = {recency[Len(recency)]}
                       /\ Len(recency) > 0 /\ ~Lists(recency, k)
      BY <2>1, EvictionFacts
    <2> HIDE DEF k, lost
    <2>3. \A i, j \in Keys : <<i, j>> \in usedAfter' <=>
             \/ /\ <<i, j>> \in usedAfter /\ j \notin {k}
                /\ live'[i] # NoEntry /\ live'[j] # NoEntry
             \/ i \in {k} /\ live'[j] # NoEntry /\ j \notin {k}
      BY <1>0, <2>1, UsedFacts
    <2>4. CASE lost = {}
      <3>1. /\ \A i, j : Ahead(recency', i, j) <=>
                            \/ Ahead(recency, i, j) /\ i # k /\ j # k
                            \/ i = k /\ Lists(recency, j) /\ j # k
            /\ \A j : Lists(recency', j) <=> Lists(recency, j) \/ j = k
        BY <1>0, <2>1, <2>4, MoveFacts
      <3> QED
        BY <1>0, <1>1, <1>3, <2>1, <2>3, <3>1 DEF HistoryIsOrder
    <2>5. CASE lost # {}
      <3> DEFINE f == Front(recency)
      <3>1. /\ f \in Seq(Keys) /\ Distinct(f)
            /\ \A j : Lists(f, j) <=> Lists(recency, j) /\ j # recency[Len(recency)]
            /\ \A i, j : Ahead(f, i, j) <=> Ahead(recency, i, j) /\ j # recency[Len(recency)]
            /\ \A j : ~Ahead(recency, recency[Len(recency)], j)
        BY <1>0, <2>2, <2>5, FrontFacts
      <3> HIDE DEF f
      <3>2. recency' = <<k>> \o f /\ ~Lists(f, k)
        BY <2>1, <2>2, <2>5, <3>1 DEF f
      <3>3. /\ \A j : Lists(recency', j) <=> Lists(f, j) \/ j = k
            /\ \A i, j : Ahead(recency', i, j) <=> Ahead(f, i, j) \/ (i = k /\ Lists(f, j))
        <4>1. /\ \A j : Lists(<<k>> \o f, j) <=> Lists(f, j) \/ j = k
              /\ \A i, j : Ahead(<<k>> \o f, i, j) <=> Ahead(f, i, j) \/ (i = k /\ Lists(f, j))
          BY <2>1, <3>1, <3>2, PushFacts
        <4> QED
          BY <3>2, <4>1
      <3> SUFFICES ASSUME NEW i \in Keys, NEW j \in Keys
                   PROVE  <<i, j>> \in usedAfter' <=> Ahead(recency', i, j)
        BY DEF HistoryIsOrder
      <3>4. <<i, j>> \in usedAfter' <=>
              \/ /\ Ahead(recency, i, j) /\ j # k
                 /\ Lists(recency', i) /\ Lists(recency', j)
              \/ i = k /\ Lists(recency', j) /\ j # k
        BY <1>0, <1>3, <2>3
      <3>5. CASE i = k
        BY <1>1, <2>2, <2>5, <3>1, <3>2, <3>3, <3>4, <3>5
      <3>6. CASE i # k
        <4>1. Ahead(recency', i, j) <=> Ahead(recency, i, j) /\ j # recency[Len(recency)]
          BY <3>1, <3>3, <3>6
        <4>2. Ahead(recency, i, j) =>
                /\ Lists(recency, i) /\ Lists(recency, j)
                /\ i # recency[Len(recency)] /\ j # k
          BY <1>1, <2>2, <2>5, <3>1
        <4> QED
          BY <2>2, <2>5, <3>1, <3>3, <3>4, <3>6, <4>1, <4>2
      <3> QED
        BY <3>5, <3>6
    <2> QED
      BY <2>4, <2>5
  <1>7. CASE UNCHANGED <<recency, usedAfter>>
    BY <1>0, <1>7 DEF HistoryIsOrder
  <1> QED
    BY <1>4, <1>5, <1>6, <1>7 DEF Next, vars, GetAbsent, SetStamp, Tick

\* The inductive invariant holds in every reachable state.
THEOREM Invariance == Spec => []Inv
  <1>1. Inv /\ [Next]_vars => Inv'
    BY TypeStep, ListStep, PendingStep, HistoryStep DEF Inv
  <1> QED
    BY InitInv, <1>1, PTL DEF Spec

----------------------------------------------------------------------------
(* The theorems. *)

\* The types of the cache's state, whatever the goroutines interleave
\* (lruCache in cache.go).
THEOREM TypeCorrect == Spec => []TypeOK
  <1>1. Inv => TypeOK
    BY DEF Inv
  <1> QED
    BY Invariance, <1>1, PTL

\* The list and the map of golang-lru agree and never exceed the capacity
\* (NewLRUCache, Get, Set and Delete of cache.go).
THEOREM BoundedHolds == Spec => []Bounded
  <1>1. Inv => Bounded
    <2> SUFFICES ASSUME Inv PROVE Bounded
      OBVIOUS
    <2>1. DOMAIN recency = 1 .. Len(recency)
      BY DEF Inv, TypeOK
    <2> QED
      BY <2>1 DEF Inv, ListAgrees, Lists, Distinct, Bounded
  <1> QED
    BY Invariance, <1>1, PTL

\* As many keys stand ahead of the last one as the list has others.
LEMMA AheadOfLast ==
  ASSUME NEW s \in Seq(Keys), Distinct(s), Len(s) > 0
  PROVE  Cardinality({j \in Keys : Ahead(s, j, s[Len(s)])}) = Len(s) - 1
  <1> DEFINE n == Len(s) - 1
             S == {j \in Keys : Ahead(s, j, s[Len(s)])}
             f == [i \in 1 .. n |-> s[i]]
  <1>1. n \in Nat /\ Len(s) = n + 1
    OBVIOUS
  <1>2. S = {s[i] : i \in 1 .. n}
    <2>1. ASSUME NEW j \in S PROVE j \in {s[i] : i \in 1 .. n}
      <3>1. PICK p, q \in 1 .. Len(s) : p < q /\ s[p] = j
        BY <2>1 DEF Ahead
      <3>2. p \in 1 .. n
        BY <1>1, <3>1
      <3> QED
        BY <3>1, <3>2
    <2>2. ASSUME NEW i \in 1 .. n PROVE s[i] \in S
      <3>1. i \in 1 .. Len(s) /\ Len(s) \in 1 .. Len(s) /\ i < Len(s)
        BY <1>1
      <3>2. Ahead(s, s[i], s[Len(s)])
        BY <3>1 DEF Ahead
      <3> QED
        BY <3>1, <3>2
    <2> QED
      BY <2>1, <2>2
  <1> HIDE DEF S
  <1>3. f \in Bijection(1 .. n, S)
    <2>1. f \in [1 .. n -> S]
      BY <1>2
    <2>2. \A a, b \in 1 .. n : f[a] = f[b] => a = b
      BY <1>1 DEF Distinct
    <2>3. \A j \in S : \E i \in 1 .. n : f[i] = j
      BY <1>2
    <2> QED
      BY <2>1, <2>2, <2>3 DEF Bijection, Injection, Surjection, IsInjective
  <1>4. ExistsBijection(1 .. n, S)
    BY <1>3 DEF ExistsBijection
  <1>5. IsFiniteSet(1 .. n) /\ Cardinality(1 .. n) = n
    BY <1>1, FS_Interval
  <1>6. Cardinality(S) = n
    BY <1>4, <1>5, FS_Bijection
  <1> QED
    BY <1>6 DEF S

\* An unexpired entry leaves only by a Delete of its key, or evicted after all the
\* MaxSize - 1 others were used since its own last use: no interleaving of
\* Gets, expiries, updates and Deletes makes golang-lru drop another key
\* (Get, Set and Delete of cache.go).
THEOREM WorkingSetIsKept == Spec => WorkingSetKept
  <1> DEFINE Step ==
        \A k \in Keys :
          (Contract!Readable(k) /\ live'[k] = NoEntry) =>
            \/ \E c \in Callers : Delete(c, k)
            \/ Cardinality({j \in Keys : <<j, k>> \in usedAfter}) = MaxSize - 1
  <1>1. Inv /\ [Next]_vars => [Step]_vars
    <2> SUFFICES ASSUME Inv, Next,
                        NEW k \in Keys, Contract!Readable(k), live'[k] = NoEntry
                 PROVE  \/ \E c \in Callers : Delete(c, k)
                        \/ Cardinality({j \in Keys : <<j, k>> \in usedAfter}) = MaxSize - 1
      OBVIOUS
    <2>1. live[k] # NoEntry /\ live \in [Keys -> Contract!Entries \cup {NoEntry}]
      BY DEF Contract!Readable, Inv, TypeOK, Contract!ContractTypeOK
    <2>2. ASSUME NEW c \in Callers, NEW i \in Keys, Delete(c, i)
          PROVE  Delete(c, k)
      <3>1. i = k
        BY <2>1, <2>2 DEF Delete
      <3> QED
        BY <2>2, <3>1
    <2>3. ASSUME NEW c \in Callers, NEW i \in Keys, GetExpired(c, i)
          PROVE  FALSE
      <3>1. i = k
        BY <2>1, <2>3 DEF GetExpired
      <3> QED
        BY <2>3, <3>1 DEF GetExpired, Contract!Readable
    <2>4. ASSUME NEW c \in Callers, SetInsert(c)
          PROVE  Cardinality({j \in Keys : <<j, k>> \in usedAfter}) = MaxSize - 1
      <3> DEFINE e == [value |-> pending[c].value, deadline |-> pending[c].deadline]
      <3>1. /\ pending[c].key \in Keys /\ e \in Contract!Entries
            /\ live' = [j \in Keys |-> IF j = pending[c].key THEN e
                          ELSE IF j \in Overflow(pending[c].key) THEN NoEntry ELSE live[j]]
        BY <2>4, FieldFacts DEF Inv, SetInsert, Contract!Entries
      <3> HIDE DEF e
      <3>2. k \in Overflow(pending[c].key)
        BY <2>1, <3>1, AbsenceAssumption
      <3>3. /\ k = recency[Len(recency)]
            /\ Len(recency) = MaxSize /\ Len(recency) > 0
        BY <3>1, <3>2, EvictionFacts
      <3>4. {j \in Keys : <<j, k>> \in usedAfter} = {j \in Keys : Ahead(recency, j, k)}
        BY DEF Inv, HistoryIsOrder
      <3> QED
        BY <3>3, <3>4, AheadOfLast DEF Inv, TypeOK, ListAgrees
    <2>5. CASE live' = live
      BY <2>1, <2>5
    <2> QED
      BY <2>2, <2>3, <2>4, <2>5
      DEF Next, GetFresh, Contract!GetHit, GetAbsent, SetStamp, Tick
  <1>2. ([][Step]_vars) <=> WorkingSetKept
    BY DEF WorkingSetKept
  <1> HIDE DEF Step
  <1> QED
    BY Invariance, <1>1, <1>2, PTL DEF Spec

\* Every step of the cache is a step of the contract or leaves the contract's
\* state alone: a stamped Set takes effect when it is inserted, an eviction is
\* an entry forgotten in the same step (Get, Set and Delete of cache.go).
LEMMA StepRefines ==
  Inv /\ [Next]_vars => [Contract!ContractNext]_(Contract!contractVars)
  <1> SUFFICES ASSUME Inv, [Next]_vars
               PROVE  [Contract!ContractNext]_(Contract!contractVars)
    OBVIOUS
  <1> USE DEF Contract!contractVars
  <1>1. ASSUME NEW c \in Callers, NEW k \in Keys,
               GetFresh(c, k) \/ GetExpired(c, k) \/ GetAbsent(c, k)
        PROVE  Contract!Get(c, k)
    BY <1>1 DEF GetFresh, GetExpired, GetAbsent, Present, Contract!Get,
                Contract!GetHit, Contract!GetMiss, Contract!Readable
  <1>2. ASSUME NEW c \in Callers, NEW k \in Keys, Delete(c, k)
        PROVE  Contract!Lose(k)
    BY <1>2 DEF Delete, Contract!Lose
  <1>3. ASSUME NEW c \in Callers, SetInsert(c)
        PROVE  Contract!ContractNext
    <2> DEFINE p == pending[c]
    <2>1. /\ p.key \in Keys /\ p.value \in Values /\ p.deadline \in Int
          /\ Contract!Honors(p.value, p.deadline)
      BY <1>3, FieldFacts DEF Inv, PendingHonored, SetInsert
    <2>2. Overflow(p.key) \in SUBSET (Keys \ {p.key})
      BY <2>1, OverflowFacts
    <2>3. Contract!Set(p.key, p.value, p.deadline, Overflow(p.key))
      BY <1>3, <2>1 DEF SetInsert, Contract!Set
    <2>4. p.deadline \in {Contract!Never} \cup 0 .. now + Ttl[p.value]
      BY <2>1 DEF Contract!Honors
    <2> HIDE DEF p
    <2> QED
      BY <2>1, <2>2, <2>3, <2>4 DEF Contract!ContractNext
  <1>4. CASE Tick
    BY <1>4 DEF Tick, Contract!Tick, Contract!ContractNext
  <1>5. CASE UNCHANGED <<now, live, reply>>
    BY <1>5
  <1> QED
    BY <1>1, <1>2, <1>3, <1>4, <1>5
    DEF Next, vars, SetStamp, Contract!ContractNext

\* The in-memory cache implements the Cache interface's contract: no Get ever
\* answers with a value past the ttl its writer asked for (the doc of the Cache
\* interface in cache.go).
THEOREM Refines == Spec => KeepsContract
  <1>1. Init => Contract!ContractInit
    BY DEF Init
  <1> QED
    BY Invariance, StepRefines, <1>1, PTL
    DEF Spec, KeepsContract, Contract!ContractSpec

=============================================================================
