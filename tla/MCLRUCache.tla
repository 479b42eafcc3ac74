----------------------------- MODULE MCLRUCache -----------------------------
(* LRUCache on three keys, a capacity of two and two goroutines. *)
EXTENDS LRUCache, TLC

CONSTANTS short, forever

\* One value with a ttl, one stored with ttl 0, "no expiry".
MCTtl == short :> 1 @@ forever :> 0

\* Keys and callers are interchangeable.
Symmetric == Permutations(Keys) \cup Permutations(Callers)
=============================================================================
