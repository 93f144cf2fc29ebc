------------------------------ MODULE LockSet ------------------------------
(***************************************************************************)
(* The resource-lock requests a session makes, as functions from the       *)
(* hashed lock keys, numbered in acquisition order, to the access wanted:  *)
(* 0 for none, 1 for Observe (shared) and 2 for Mutate (exclusive)         *)
(* (src/lock/acquire.rs). A set of held locks has the same form.           *)
(***************************************************************************)
EXTENDS Naturals

CONSTANT K
ASSUME KAssumption == K \in Nat \ {0}

Keys == 1..K
Access == 0..2
Observe == 1
Mutate == 2
Requests == [Keys -> Access]
NoLocks == [k \in Keys |-> 0]

\* extend_resources, sorted_requests: repeated requests fold to the strongest.
Union(q, r) == [k \in Keys |-> IF q[k] < r[k] THEN r[k] ELSE q[k]]

Held(h) == {k \in Keys : h[k] > 0}

\* What `h` does not satisfy (missing_requests).
Missing(h, r) == {k \in Keys : h[k] < r[k]}
HoldsAll(h, r) == Missing(h, r) = {}

First(keys) == CHOOSE k \in keys : \A l \in keys : k <= l

\* Satisfying `r` would move backwards in the global order, or strengthen a
\* key that is already held. (Mutant: only a promotion counts.)
PromotesOnly(h, r) == \E k \in Missing(h, r) : k \in Held(h)
RequiresReacquire(h, r) ==
    \E k \in Missing(h, r), l \in Held(h) : k <= l

Grant(h, k, r) == [h EXCEPT ![k] = r[k]]

\* Two accesses to one key that the operating system refuses to hold at once.
Conflict(a, b) == a > 0 /\ b > 0 /\ (a = Mutate \/ b = Mutate)
=============================================================================
