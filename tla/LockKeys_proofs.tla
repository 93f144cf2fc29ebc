-------------------------- MODULE LockKeys_proofs --------------------------
(***************************************************************************)
(* Two sessions that work at once never depend on one store unknown to     *)
(* each other, and each holds authority over every path it owns: theorems  *)
(* about LockKeys for any sessions, layouts, links and casts of adapters.  *)
(***************************************************************************)
EXTENDS LockKeys, SequenceTheorems, WellFoundedInduction, TLAPS

\* The key every session asks for that names `q`, and that of a directory in place.
EntryKey(q) == [kind |-> "entry", anchor |-> <<>>, suffix |-> SubSeq(q, 1, Len(q))]
PlaceKey(d) == [kind |-> "physical", anchor |-> d, suffix |-> <<>>]

\* A session whose plan is settled: it keeps its locks until it is over.
Settled(s) == pc[s] = "planned" \/ Using(s)

\* What the locks of a settled plan cover: its scopes by name and in place, and its
\* own store with the right to change it.
Covers(h, p) ==
    /\ \A q \in p.scopes : EntryKey(q) \in DOMAIN h
    /\ EntryKey(p.store) \in DOMAIN h /\ h[EntryKey(p.store)] = "mutate"
    /\ \A d \in p.found : PlaceKey(d) \in DOMAIN h
    /\ Canon(p.store) \in p.found => h[PlaceKey(Canon(p.store))] = "mutate"

Domains ==
    /\ DOMAIN pc = Session
    /\ DOMAIN held = Session
    /\ DOMAIN plan = Session

Exclusive == \A v, w \in Session : v # w => ~Conflict(held[v], held[w])

LocksInv ==
    /\ cast \in Casts
    /\ Domains
    /\ Exclusive
    /\ \A s \in Session : Settled(s) => Covers(held[s], plan[s])

----------------------------------------------------------------------------
(* What is asked for.                                                      *)

\* A name is described under the same key whatever the access.
LEMMA SameKey ==
  ASSUME NEW q, NEW access
  PROVE  /\ Logical(Shared("entry", access, q)) = EntryKey(q)
         /\ EntryKey(q) \in Keys(Shared("entry", access, q))
         /\ Shared("entry", access, q).access = access
         /\ Exists(q) => PlaceKey(Canon(q)) \in Keys(Shared("entry", access, q))
  BY DEF Shared, Describe, Logical, Keys, EntryKey, PlaceKey, Physical

\* A request asks for each key of each resource, and for the strongest access.
LEMMA Requested ==
  ASSUME NEW resources, NEW h, HoldsAll(h, Requests(resources)),
         NEW r \in resources, NEW k \in Keys(r)
  PROVE  k \in DOMAIN h /\ (r.access = "mutate" => h[k] = "mutate")
<1>1. /\ k \in DOMAIN Requests(resources)
      /\ r.access = "mutate" => Requests(resources)[k] = "mutate"
  BY DEF Requests
<1>. QED  BY <1>1 DEF HoldsAll, Satisfies

\* The store is the first of its scopes, whichever of them share a terminal.
LEMMA FirstIsKept ==
  ASSUME NEW q, NEW rest, NEW S, q \in S, rest \in Seq(S)
  PROVE  q \in OnePerTerminal(<<q>> \o rest)
<1>. DEFINE scopes == <<q>> \o rest
<1>1. scopes \in Seq(S) /\ Len(scopes) = 1 + Len(rest) /\ scopes[1] = q
  OBVIOUS
<1>2. 1 \in DOMAIN scopes
  BY <1>1
<1>3. \A k \in 1..(1 - 1) : Physical(scopes[k]) \cap Physical(scopes[1]) = {}
  OBVIOUS
<1>. QED  BY <1>1, <1>2, <1>3 DEF OnePerTerminal

\* Whatever the adapter, each scope is described under its name, and so is the store,
\* for mutation. (codex.rs, claude.rs, omp/mod.rs: lock_resources)
LEMMA ScopesAreAsked ==
  ASSUME cast \in Casts, NEW s \in Session, NEW q \in Scopes(s)
  PROVE  \E access : Shared("entry", access, q) \in Resources(s)
<1>. DEFINE access == IF q = Store(s) THEN "mutate" ELSE "observe"
<1>1. cast[s].adapter \in Adapters
  BY CastsHaveAdapters
<1>2. Shared("entry", access, q) \in ScopeResources(s)
  <2>1. Shared("entry", access, q) \in SharedAndLegacy(access, Root(s), q)
    BY DEF SharedAndLegacy
  <2>. QED  BY <2>1 DEF ScopeResources
<1>3. CASE cast[s].adapter = "codex"
  BY <1>2, <1>3 DEF Resources, CodexResources
<1>4. CASE cast[s].adapter = "claude"
  BY <1>2, <1>4 DEF Resources, ClaudeResources
<1>5. CASE cast[s].adapter = "staging"
  BY <1>2, <1>5 DEF Resources, StagingResources
<1>6. CASE cast[s].adapter = "omp"
  <2>1. Shared("entry", "observe", q) \in OmpResources(s)
    BY DEF OmpResources
  <2>. QED  BY <2>1, <1>6 DEF Resources
<1>. QED  BY <1>1, <1>3, <1>4, <1>5, <1>6 DEF Adapters

LEMMA StoreIsAScope ==
  ASSUME cast \in Casts, NEW s \in Session, cast[s].adapter # "omp"
  PROVE  Store(s) \in Scopes(s)
<1>1. cast[s].adapter \in Adapters /\ cast[s].outside \in Seq(Seq(STRING))
  BY CastsHaveAdapters
<1>2. CASE cast[s].adapter = "codex"
  BY <1>2 DEF Store, Scopes, CodexScopes
<1>3. CASE cast[s].adapter \in {"claude", "staging"}
  <2>. DEFINE project == IF ClaudeEntry(s) = Store(s) THEN <<>> ELSE <<ClaudeEntry(s)>>
              S == Seq(STRING) \cup {Store(s), ClaudeEntry(s)}
  <2>1. project \in Seq(S)
    OBVIOUS
  <2>2. cast[s].outside \in Seq(S)
    BY <1>1, SeqMonotonic
  <2>3. project \o cast[s].outside \in Seq(S)
    BY <2>1, <2>2, ConcatProperties
  <2>4. Store(s) \in ClaudeScopes(s)
    BY <2>3, FirstIsKept DEF ClaudeScopes
  <2>. QED  BY <2>4, <1>3 DEF Scopes
<1>. QED  BY <1>1, <1>2, <1>3 DEF Adapters

LEMMA StoreIsAsked ==
  ASSUME cast \in Casts, NEW s \in Session
  PROVE  Shared("entry", "mutate", Store(s)) \in Resources(s)
<1>1. CASE cast[s].adapter = "omp"
  BY <1>1 DEF Resources, OmpResources, Store
<1>2. CASE cast[s].adapter # "omp"
  <2>1. Store(s) \in Scopes(s)
    BY <1>2, StoreIsAScope
  <2>2. Shared("entry", "mutate", Store(s)) \in ScopeResources(s)
    <3>1. Shared("entry", "mutate", Store(s)) \in SharedAndLegacy("mutate", Root(s), Store(s))
      BY DEF SharedAndLegacy
    <3>. QED  BY <2>1, <3>1 DEF ScopeResources
  <2>3. cast[s].adapter \in {"codex", "claude", "staging"}
    BY <1>2, CastsHaveAdapters DEF Adapters
  <2>. QED
    BY <2>2, <2>3 DEF Resources, CodexResources, ClaudeResources, StagingResources
<1>. QED  BY <1>1, <1>2

\* The pass that ends stabilization leaves a session whose locks cover its plan.
LEMMA StablePlanIsCovered ==
  ASSUME cast \in Casts, NEW s \in Session, NEW h,
         HoldsAll(h, Requests(PlanOf(s).resources))
  PROVE  Covers(h, PlanOf(s))
<1>. DEFINE p == PlanOf(s)
            mine == Shared("entry", "mutate", Store(s))
<1>1. /\ p.scopes = Scopes(s) /\ p.store = Store(s)
      /\ p.found = {Canon(q) : q \in {r \in Scopes(s) : Exists(r)}}
      /\ Resources(s) \subseteq p.resources
  BY DEF PlanOf
<1>2. ASSUME NEW q \in Scopes(s)
      PROVE  EntryKey(q) \in DOMAIN h /\ (Exists(q) => PlaceKey(Canon(q)) \in DOMAIN h)
  <2>1. PICK access : Shared("entry", access, q) \in Resources(s)
    BY ScopesAreAsked
  <2>2. Shared("entry", access, q) \in p.resources
    BY <2>1, <1>1
  <2>. QED  BY <2>2, SameKey, Requested
<1>3. mine \in p.resources
  BY StoreIsAsked, <1>1
<1>4. EntryKey(Store(s)) \in DOMAIN h /\ h[EntryKey(Store(s))] = "mutate"
  BY <1>3, SameKey, Requested
<1>5. ASSUME Canon(Store(s)) \in p.found
      PROVE  h[PlaceKey(Canon(Store(s)))] = "mutate"
  <2>1. PICK q \in Scopes(s) : Exists(q) /\ Canon(q) = Canon(Store(s))
    BY <1>5, <1>1
  <2>2. Exists(Store(s))
    BY <2>1 DEF Exists
  <2>. QED  BY <2>2, <1>3, SameKey, Requested
<1>6. \A d \in p.found : PlaceKey(d) \in DOMAIN h
  BY <1>1, <1>2
<1>. QED  BY <1>1, <1>2, <1>4, <1>5, <1>6 DEF Covers

----------------------------------------------------------------------------
(* The invariant.                                                          *)

LEMMA InitLocks == Init => LocksInv
<1>. SUFFICES ASSUME Init PROVE LocksInv
  OBVIOUS
<1>1. Domains
  BY DEF Init, Domains
<1>2. Exclusive
  BY DEF Init, Exclusive, Conflict, NoRequests
<1>3. \A s \in Session : ~Settled(s)
  BY DEF Init, Settled, Using
<1>. QED  BY <1>1, <1>2, <1>3 DEF LocksInv, Init

\* A step that gives a session the locks `h` and leaves the others alone.
LEMMA StillExclusive ==
  ASSUME LocksInv, NEW s \in Session, NEW h, held' = [held EXCEPT ![s] = h],
         \A v \in Session \ {s} : ~Conflict(h, held[v])
  PROVE  Exclusive'
<1>1. held'[s] = h /\ \A v \in Session \ {s} : held'[v] = held[v]
  BY DEF LocksInv, Domains
<1>2. \A v, w \in Session : v # w => ~Conflict(held[v], held[w])
  BY DEF LocksInv, Exclusive
<1>3. \A v \in Session \ {s} : ~Conflict(held[v], h)
  BY DEF Conflict
<1>. QED  BY <1>1, <1>2, <1>3 DEF Exclusive

LEMMA NothingConflicts == \A h : ~Conflict(NoRequests, h)
  BY DEF Conflict, NoRequests

\* What is settled stays covered: the plan and the locks are kept, and links are fixed.
LEMMA StillCovered ==
  ASSUME LocksInv, NEW v \in Session, Settled(v),
         held'[v] = held[v], plan'[v] = plan[v], links' = links
  PROVE  Covers(held[v], plan[v])'
  BY DEF LocksInv, Covers, Canon

\* A step of one session that changes no locks and settles nothing.
LEMMA StepKeepsLocks ==
  ASSUME LocksInv, NEW s \in Session, cast' = cast, links' = links,
         held' = held, plan' = plan, pc' = pc \/ \E to : pc' = [pc EXCEPT ![s] = to],
         Settled(s)' => Settled(s)
  PROVE  LocksInv'
<1>1. Domains' /\ cast' \in Casts
  BY DEF LocksInv, Domains
<1>2. Exclusive'
  BY DEF LocksInv, Exclusive
<1>3. \A v \in Session : Settled(v)' => Settled(v)
  BY DEF Settled, Using, LocksInv, Domains
<1>4. ASSUME NEW v \in Session, Settled(v)' PROVE Covers(held[v], plan[v])'
  BY <1>3, <1>4, StillCovered
<1>. QED  BY <1>1, <1>2, <1>4 DEF LocksInv

\* A step of a session that is not settled and comes to hold `h`.
LEMMA StepChangesLocks ==
  ASSUME LocksInv, NEW s \in Session, cast' = cast, links' = links, plan' = plan,
         NEW h, held' = [held EXCEPT ![s] = h],
         \A v \in Session \ {s} : ~Conflict(h, held[v]),
         NEW to, pc' = [pc EXCEPT ![s] = to], ~Settled(s)'
  PROVE  LocksInv'
<1>1. Domains' /\ cast' \in Casts
  BY DEF LocksInv, Domains
<1>2. Exclusive'
  BY StillExclusive
<1>3. \A v \in Session \ {s} : held'[v] = held[v] /\ (Settled(v)' => Settled(v))
  BY DEF Settled, Using, LocksInv, Domains
<1>4. ASSUME NEW v \in Session, Settled(v)' PROVE Covers(held[v], plan[v])'
  BY <1>3, <1>4, StillCovered
<1>. QED  BY <1>1, <1>2, <1>4 DEF LocksInv

LEMMA StabilizeKeeps ==
  ASSUME LocksInv, NEW s \in Session, Stabilize(s)
  PROVE  LocksInv'
<1>. USE DEF Stabilize, At, files
<1>1. Domains' /\ cast' \in Casts
  BY DEF LocksInv, Domains
<1>2. Exclusive'
  BY DEF LocksInv, Exclusive
<1>3. plan'[s] = PlanOf(s) /\ held'[s] = held[s] /\ links' = links
  BY DEF LocksInv, Domains
<1>4. Covers(held[s], PlanOf(s))
  BY StablePlanIsCovered DEF LocksInv
<1>5. Covers(held[s], plan[s])'
  BY <1>3, <1>4 DEF Covers, Canon
<1>6. \A v \in Session \ {s} :
        held'[v] = held[v] /\ plan'[v] = plan[v] /\ (Settled(v)' => Settled(v))
  BY DEF Settled, Using, LocksInv, Domains
<1>7. ASSUME NEW v \in Session, Settled(v)' PROVE Covers(held[v], plan[v])'
  BY <1>3, <1>5, <1>6, <1>7, StillCovered
<1>. QED  BY <1>1, <1>2, <1>7 DEF LocksInv

LEMMA NextKeepsLocks ==
  ASSUME LocksInv, [Next]_vars
  PROVE  LocksInv'
<1>. USE DEF At, files
<1>1. CASE UNCHANGED vars
  BY <1>1 DEF vars, LocksInv, Domains, Exclusive, Settled, Using, Covers, Canon
<1>2. ASSUME NEW s \in Session, \/ Prepare(s) \/ Inspect(s)
      PROVE  LocksInv'
  <2>1. ~Settled(s)'
    BY <1>2 DEF Prepare, Inspect, Settled, Using, LocksInv, Domains
  <2>. QED  BY <1>2, <2>1, StepKeepsLocks DEF Prepare, Inspect
<1>3. ASSUME NEW s \in Session, Acquire(s) PROVE LocksInv'
  <2>1. ~Settled(s)'
    BY <1>3 DEF Acquire, Settled, Using, LocksInv, Domains
  <2>. QED  BY <1>3, <2>1, StepChangesLocks DEF Acquire
<1>4. ASSUME NEW s \in Session, Expand(s) PROVE LocksInv'
  <2>1. ~Settled(s)'
    BY <1>4 DEF Expand, Settled, Using, LocksInv, Domains
  <2>2. CASE held' = held
    BY <1>4, <2>1, <2>2, StepKeepsLocks DEF Expand
  <2>3. CASE held' = [held EXCEPT ![s] = NoRequests]
    BY <1>4, <2>1, <2>3, StepChangesLocks, NothingConflicts DEF Expand
  <2>. QED  BY <1>4, <2>2, <2>3 DEF Expand
<1>5. ASSUME NEW s \in Session, Stabilize(s) PROVE LocksInv'
  BY <1>5, StabilizeKeeps
<1>6. ASSUME NEW s \in Session, Refuse(s) \/ Release(s) PROVE LocksInv'
  <2>1. ~Settled(s)'
    BY <1>6 DEF Refuse, Release, Settled, Using, LocksInv, Domains
  <2>. QED  BY <1>6, <2>1, StepChangesLocks, NothingConflicts DEF Refuse, Release
<1>7. ASSUME NEW s \in Session, Open(s) PROVE LocksInv'
  <2>1. Settled(s)
    BY <1>7 DEF Open, Settled
  <2>. QED  BY <1>7, <2>1, StepKeepsLocks DEF Open
<1>8. ASSUME NEW s \in Session, CreateDirectory(s) \/ RemoveDirectory(s)
      PROVE  LocksInv'
  <2>1. Settled(s)
    BY <1>8 DEF CreateDirectory, RemoveDirectory, Settled, Using
  <2>. QED  BY <1>8, <2>1, StepKeepsLocks DEF CreateDirectory, RemoveDirectory
<1>9. ASSUME NEW s \in Session, Mount(s) \/ Roll(s) \/ Unmount(s) PROVE LocksInv'
  <2>1. Settled(s)
    BY <1>9 DEF Mount, Roll, Unmount, Settled, Using
  <2>. QED  BY <1>9, <2>1, StepKeepsLocks DEF Mount, Roll, Unmount
<1>. QED
  BY <1>1, <1>2, <1>3, <1>4, <1>5, <1>6, <1>7, <1>8, <1>9 DEF Next

LEMMA LocksInvariant == Spec => []LocksInv
<1>1. LocksInv /\ [Next]_vars => LocksInv'
  BY NextKeepsLocks
<1>. QED  BY <1>1, InitLocks, PTL DEF Spec

\* For any sessions, casts, directories and links, and however sessions create and
\* remove directories between the inspections of others: of two sessions at work, none
\* depends on the store of the other by its name, nor on one that both found in place.
\* (lock_keys, lock/mod.rs:356; describe_shared_and_legacy_entry, lock/mod.rs:222)
THEOREM StoresAreContended == Spec => []UsersOfAStoreContend
<1>1. LocksInv => UsersOfAStoreContend
  <2>. SUFFICES ASSUME LocksInv, NEW v \in Session, NEW w \in Session, v # w,
                       Using(v), Using(w),
                       NEW q \in plan[v].scopes, Canon(q) = Canon(plan[w].store)
                PROVE  /\ q # plan[w].store
                       /\ Canon(q) \notin plan[v].found \cap plan[w].found
    BY DEF UsersOfAStoreContend
  <2>1. Covers(held[v], plan[v]) /\ Covers(held[w], plan[w])
    BY DEF LocksInv, Settled
  <2>2. \A k \in DOMAIN held[v] \cap DOMAIN held[w] : held[w][k] # "mutate"
    BY DEF LocksInv, Exclusive, Conflict
  <2>3. q # plan[w].store
    BY <2>1, <2>2 DEF Covers
  <2>4. Canon(q) \notin plan[v].found \cap plan[w].found
    BY <2>1, <2>2 DEF Covers
  <2>. QED  BY <2>3, <2>4
<1>. QED  BY <1>1, LocksInvariant, PTL

----------------------------------------------------------------------------
(* Canonical paths.                                                        *)

\* A set of naturals that is not empty has a least element.
LEMMA LeastNatural ==
  ASSUME NEW T, T \subseteq Nat, T # {}
  PROVE  \E m \in T : \A n \in T : m <= n
<1>. DEFINE less == OpToRel(<, Nat)
<1>1. IsWellFoundedOn(less, Nat)
  BY NatLessThanWellFounded
<1>2. \A i, j \in Nat : i < j => <<i, j>> \in less
  BY DEF OpToRel
<1>. HIDE DEF less
<1>3. PICK i \in T : \A j \in T : ~(<<j, i>> \in less)
  BY <1>1, WFMin
<1>4. ASSUME NEW j \in T PROVE i <= j
  <2>1. i \in Nat /\ j \in Nat /\ ~(j < i)
    BY <1>2, <1>3
  <2>. QED  BY <2>1
<1>. QED  BY <1>4

Chain(f, entries, q, m) ==
    f = [n \in 0..m |-> IF n = 0 THEN <<>> ELSE Follow(entries, f[n - 1], q[n])]

LEMMA ChainsExist ==
  ASSUME NEW entries, NEW q, Len(q) \in Nat
  PROVE  \E f : Chain(f, entries, q, Len(q))
<1>. DEFINE Has(m) == \E f : Chain(f, entries, q, m)
            bad == {m \in Nat : ~Has(m)}
<1>. HIDE DEF Has
<1>. SUFFICES ASSUME bad # {} PROVE FALSE
  BY DEF Has
<1>1. PICK m \in bad : \A n \in bad : m <= n
  BY LeastNatural
<1>2. m # 0
  <2>1. Chain([n \in 0..0 |-> <<>>], entries, q, 0)
    BY DEF Chain
  <2>. QED  BY <2>1 DEF Has
<1>3. m - 1 \in Nat /\ m - 1 \notin bad
  BY <1>1, <1>2
<1>4. PICK f : Chain(f, entries, q, m - 1)
  BY <1>3 DEF Has
<1>. DEFINE g == [n \in 0..m |-> IF n = m THEN Follow(entries, f[m - 1], q[m]) ELSE f[n]]
<1>5. Chain(g, entries, q, m)
  <2>1. f = [n \in 0..(m - 1) |-> IF n = 0 THEN <<>> ELSE Follow(entries, f[n - 1], q[n])]
    BY <1>4 DEF Chain
  <2>2. \A n \in 0..m : g[n] = IF n = 0 THEN <<>> ELSE Follow(entries, g[n - 1], q[n])
    <3>1. ASSUME NEW n \in 0..m, n # m, n # 0 PROVE g[n] = Follow(entries, g[n - 1], q[n])
      <4>1. n \in 0..(m - 1) /\ n - 1 \in 0..m /\ n - 1 # m
        BY <3>1, <1>3
      <4>. QED  BY <2>1, <4>1, <3>1
    <3>2. m - 1 \in 0..m /\ m - 1 # m /\ 0 \in 0..(m - 1) /\ 0 \in 0..m
      BY <1>3
    <3>3. g[m] = Follow(entries, g[m - 1], q[m])
      BY <3>2, <1>3
    <3>4. g[0] = <<>>
      BY <2>1, <3>2, <1>2
    <3>. QED  BY <3>1, <3>3, <3>4, <1>2
  <2>. QED  BY <2>2 DEF Chain
<1>. QED  BY <1>5 DEF Has

\* Following starts at the root and takes one component at a time.
LEMMA FollowedStepwise ==
  ASSUME NEW entries, NEW q, Len(q) \in Nat
  PROVE  /\ Followed(entries, q)[0] = <<>>
         /\ \A n \in 1..Len(q) :
                Followed(entries, q)[n] = Follow(entries, Followed(entries, q)[n - 1], q[n])
<1>1. PICK f : f = [n \in 0..Len(q) |-> IF n = 0 THEN <<>> ELSE Follow(entries, f[n - 1], q[n])]
  BY ChainsExist DEF Chain
<1>2. Chain(Followed(entries, q), entries, q, Len(q))
  BY <1>1 DEF Followed, Chain
<1>. QED  BY <1>2 DEF Chain

\* What paths are made of; that a literal is a string is nothing the provers know.
Component == STRING \cup {"root", ".agents", ".claude", ".codex", "skills"}

LEMMA StringsAreComponents ==
  ASSUME NEW q \in Seq(STRING)
  PROVE  q \in Seq(Component)
  BY SeqMonotonic DEF Component

LEMMA FollowedIsAPath ==
  ASSUME NEW entries, \A d \in DOMAIN entries : entries[d] \in Seq(Component),
         NEW q \in Seq(Component)
  PROVE  \A n \in 0..Len(q) : Followed(entries, q)[n] \in Seq(Component)
<1>. DEFINE F == Followed(entries, q)
            bad == {n \in 0..Len(q) : F[n] \notin Seq(Component)}
<1>0. Len(q) \in Nat
  OBVIOUS
<1>1. F[0] = <<>> /\ \A n \in 1..Len(q) : F[n] = Follow(entries, F[n - 1], q[n])
  BY <1>0, FollowedStepwise
<1>. HIDE DEF F
<1>. SUFFICES ASSUME bad # {} PROVE FALSE
  BY DEF F
<1>. bad \subseteq Nat
  BY <1>0
<1>2. PICK m \in bad : \A n \in bad : m <= n
  BY LeastNatural
<1>3. m \in 1..Len(q)
  <2>1. m # 0
    BY <1>1, <1>2, EmptySeq
  <2>. QED  BY <1>0, <1>2, <2>1
<1>4. F[m - 1] \in Seq(Component)
  BY <1>2, <1>3
<1>5. Append(F[m - 1], q[m]) \in Seq(Component)
  BY <1>3, <1>4
<1>. QED  BY <1>1, <1>3, <1>5 DEF Follow

\* The way to a prefix of a path is a prefix of the way.
LEMMA PrefixFollowed ==
  ASSUME NEW entries, NEW q \in Seq(Component), NEW n \in 0..Len(q)
  PROVE  CanonBy(entries, Prefix(q, n)) = Followed(entries, q)[n]
<1>. DEFINE p == Prefix(q, n)
            F == Followed(entries, q)
            G == Followed(entries, p)
            bad == {k \in 0..n : G[k] # F[k]}
<1>0. Len(q) \in Nat /\ Len(p) = n /\ n \in Nat /\ \A k \in 1..n : p[k] = q[k]
  BY SubSeqProperties DEF Prefix
<1>1. F[0] = <<>> /\ \A k \in 1..Len(q) : F[k] = Follow(entries, F[k - 1], q[k])
  BY <1>0, FollowedStepwise
<1>2. G[0] = <<>> /\ \A k \in 1..n : G[k] = Follow(entries, G[k - 1], p[k])
  BY <1>0, FollowedStepwise
<1>. HIDE DEF F, G, p
<1>3. bad = {}
  <2>. SUFFICES ASSUME bad # {} PROVE FALSE
    OBVIOUS
  <2>. bad \subseteq Nat
    BY <1>0
  <2>1. PICK m \in bad : \A k \in bad : m <= k
    BY LeastNatural
  <2>2. m \in 1..n /\ m \in 1..Len(q)
    BY <1>0, <1>1, <1>2
  <2>3. G[m - 1] = F[m - 1]
    BY <1>0, <2>1, <2>2
  <2>. QED  BY <1>0, <1>1, <1>2, <2>2, <2>3
<1>4. G[n] = F[n]
  BY <1>0, <1>3
<1>. QED  BY <1>0, <1>4 DEF CanonBy, F, G, p

\* One more component of a path.
LEMMA OneMore ==
  ASSUME NEW U, NEW p \in Seq(U), NEW q \in Seq(U), NEW k \in Nat, NEW n \in 1..Len(q), k < n
  PROVE  Append(p \o SubSeq(q, k + 1, n - 1), q[n]) = p \o SubSeq(q, k + 1, n)
<1>. DEFINE t == SubSeq(q, k + 1, n - 1)
<1>1. t \in Seq(U) /\ q[n] \in U /\ <<q[n]>> \in Seq(U)
  BY SubSeqProperties
<1>2. SubSeq(q, k + 1, n) = t \o <<q[n]>>
  BY SubSeqRecursiveSecond
<1>3. p \o t \in Seq(U)
  BY <1>1
<1>. HIDE DEF t
<1>4. Append(p \o t, q[n]) = (p \o t) \o <<q[n]>>
  BY <1>1, <1>3, AppendIsConcat
<1>5. (p \o t) \o <<q[n]>> = p \o (t \o <<q[n]>>)
  BY <1>1, ConcatAssociative
<1>. QED  BY <1>2, <1>4, <1>5 DEF t

\* Where no further link is met, the rest of a path is kept as it is spelled.
LEMMA StraightOn ==
  ASSUME NEW entries, \A d \in DOMAIN entries : entries[d] \in Seq(Component),
         NEW q \in Seq(Component), NEW k \in 0..Len(q),
         \A n \in (k + 1)..Len(q) :
             Followed(entries, q)[n - 1] = Followed(entries, q)[k] \o SubSeq(q, k + 1, n - 1)
                 => Append(Followed(entries, q)[n - 1], q[n]) \notin DOMAIN entries
  PROVE  \A n \in k..Len(q) :
             Followed(entries, q)[n] = Followed(entries, q)[k] \o SubSeq(q, k + 1, n)
<1>. DEFINE F == Followed(entries, q)
            spelled(n) == F[k] \o SubSeq(q, k + 1, n)
            bad == {n \in k..Len(q) : F[n] # spelled(n)}
<1>0. Len(q) \in Nat /\ k \in Nat /\ k <= Len(q)
  OBVIOUS
<1>1. /\ \A n \in 1..Len(q) : F[n] = Follow(entries, F[n - 1], q[n])
      /\ F[k] \in Seq(Component)
  BY <1>0, FollowedStepwise, FollowedIsAPath
<1>2. \A n \in (k + 1)..Len(q) :
          F[n - 1] = spelled(n - 1) => Append(F[n - 1], q[n]) \notin DOMAIN entries
  OBVIOUS
<1>4. F[k] = spelled(k)
  BY <1>1, SubSeqEmpty, ConcatEmptySeq
<1>5. ASSUME NEW n \in (k + 1)..Len(q) PROVE Append(spelled(n - 1), q[n]) = spelled(n)
  <2>1. n \in 1..Len(q) /\ k < n
    BY <1>0
  <2>. HIDE DEF F
  <2>2. F[k] \in Seq(Component) /\ k \in Nat
    BY <1>0, <1>1
  <2>3. Append(F[k] \o SubSeq(q, k + 1, n - 1), q[n]) = F[k] \o SubSeq(q, k + 1, n)
    BY <2>1, <2>2, OneMore
  <2>. QED  BY <2>3
<1>. HIDE DEF F, spelled
<1>3. bad = {}
  <2>. SUFFICES ASSUME bad # {} PROVE FALSE
    OBVIOUS
  <2>. bad \subseteq Nat
    BY <1>0
  <2>1. PICK m \in bad : \A n \in bad : m <= n
    BY LeastNatural
  <2>2. m \in (k + 1)..Len(q) /\ m \in 1..Len(q)
    BY <1>0, <1>4, <2>1
  <2>3. F[m - 1] = spelled(m - 1)
    <3>1. m - 1 \in k..Len(q) /\ ~(m <= m - 1)
      BY <1>0, <2>2
    <3>. QED  BY <2>1, <3>1
  <2>4. F[m] = Append(F[m - 1], q[m])
    BY <1>1, <1>2, <2>2, <2>3 DEF Follow
  <2>. QED  BY <1>5, <2>1, <2>2, <2>3, <2>4
<1>. QED  BY <1>3 DEF F, spelled

\* Some ancestor exists, the root at least, so there is a deepest one.
LEMMA DeepestExists ==
  ASSUME <<>> \in dirs, NEW q \in Seq(Component)
  PROVE  /\ Deepest(q) \in 0..Len(q)
         /\ Exists(Prefix(q, Deepest(q)))
         /\ \A m \in (Deepest(q) + 1)..Len(q) : ~Exists(Prefix(q, m))
<1>. DEFINE rest == {k \in 0..Len(q) : Exists(Prefix(q, Len(q) - k))}
<1>0. Len(q) \in Nat
  OBVIOUS
<1>1. Exists(Prefix(q, 0))
  <2>1. Prefix(q, 0) = <<>> /\ Len(<<>>) = 0
    BY SubSeqEmpty DEF Prefix
  <2>2. CanonBy(links, <<>>) = <<>>
    BY <2>1, FollowedStepwise DEF CanonBy
  <2>. QED  BY <2>1, <2>2 DEF Exists, Canon
<1>2. Len(q) \in rest /\ rest \subseteq Nat
  BY <1>0, <1>1
<1>3. PICK k \in rest : \A j \in rest : k <= j
  BY <1>2, LeastNatural
<1>. DEFINE n == Len(q) - k
<1>4. n \in 0..Len(q) /\ Exists(Prefix(q, n))
  BY <1>0, <1>3
<1>5. ASSUME NEW m \in (n + 1)..Len(q) PROVE ~Exists(Prefix(q, m))
  <2>1. Len(q) - m \in 0..Len(q) /\ Len(q) - (Len(q) - m) = m /\ ~(k <= Len(q) - m)
    BY <1>0, <1>3, <1>4
  <2>. QED  BY <1>3, <2>1
<1>. QED  BY <1>4, <1>5 DEF Deepest

\* A path on which every link leads to a directory is spelled canonically by its
\* deepest directory and the rest.
LEMMA SpellingIsCanonical ==
  ASSUME <<>> \in dirs, \A d \in DOMAIN links : links[d] \in Seq(Component),
         NEW q \in Seq(Component),
         \A n \in 1..Len(q) :
             LET d == Append(CanonBy(links, Prefix(q, n - 1)), q[n])
             IN d \in DOMAIN links => links[d] \in dirs
  PROVE  AnchorOf(q) \o SuffixOf(q) = Canon(q)
<1>. DEFINE F == Followed(links, q)
            k == Deepest(q)
<1>0. Len(q) \in Nat /\ k \in 0..Len(q)
  BY DeepestExists
<1>1. \A n \in 0..Len(q) : CanonBy(links, Prefix(q, n)) = F[n]
  BY PrefixFollowed
<1>2. ASSUME NEW n \in (k + 1)..Len(q)
      PROVE  Append(F[n - 1], q[n]) \notin DOMAIN links
  <2>. DEFINE d == Append(F[n - 1], q[n])
  <2>. SUFFICES ASSUME d \in DOMAIN links PROVE FALSE
    OBVIOUS
  <2>1. n \in 1..Len(q) /\ n - 1 \in 0..Len(q) /\ n \in 0..Len(q)
    BY <1>0
  <2>2. links[d] \in dirs
    BY <1>1, <2>1
  <2>3. F[n] = links[d]
    BY <1>0, <2>1, FollowedStepwise DEF Follow
  <2>4. Exists(Prefix(q, n))
    BY <1>1, <2>1, <2>2, <2>3 DEF Exists, Canon
  <2>. QED  BY <2>4, DeepestExists
<1>3. F[Len(q)] = F[k] \o SubSeq(q, k + 1, Len(q))
  <2>1. Len(q) \in k..Len(q)
    BY <1>0
  <2>. QED  BY <1>0, <1>2, <2>1, StraightOn
<1>. QED  BY <1>0, <1>1, <1>3 DEF AnchorOf, SuffixOf, Canon, CanonBy

----------------------------------------------------------------------------
(* The spelling of what a staging session owns.                            *)

\* The directories of the layout stay: sessions remove only what they created.
LayoutInv ==
    \E l \in Layouts :
        /\ links = l.links
        /\ l.dirs \subseteq dirs
        /\ \A s \in Session : own[s] \cap l.dirs = {}

LEMMA LayoutFacts ==
  ASSUME LayoutInv
  PROVE  <<>> \in dirs /\ \A d \in DOMAIN links : links[d] \in Seq(Component)
<1>1. PICK l \in Layouts : links = l.links /\ l.dirs \subseteq dirs
  BY DEF LayoutInv
<1>2. <<>> \in dirs
  BY <1>1, LayoutsHangTogether
<1>3. ASSUME NEW d \in DOMAIN links PROVE links[d] \in Seq(Component)
  BY <1>1, PathsAreTyped, StringsAreComponents
<1>. QED  BY <1>2, <1>3

\* The private directory of a session and what lies below it.
IsPrivate(s, q) ==
    /\ q \in Seq(Component)
    /\ Len(Private(s)) <= Len(q)
    /\ \A i \in 1..Len(Private(s)) : q[i] = Private(s)[i]

\* Their canonical spelling, whether they exist or not.
Canonical(q) == Canon(SessionBase) \o SubSeq(q, Len(SessionBase) + 1, Len(q))

LEMMA PrivateFacts ==
  ASSUME NEW s \in Session
  PROVE  /\ SessionBase \in Seq(Component) /\ Len(SessionBase) \in Nat
         /\ s \in Component
         /\ Private(s) \in Seq(Component) /\ Len(Private(s)) = Len(SessionBase) + 1
         /\ \A i \in 1..Len(SessionBase) : Private(s)[i] = SessionBase[i]
         /\ Private(s)[Len(SessionBase) + 1] = s
         /\ IsPrivate(s, Private(s))
<1>1. SessionBase \in Seq(Component) /\ Len(SessionBase) \in Nat /\ s \in Component
  BY PathsAreTyped, StringsAreComponents DEF Component
<1>2. /\ Private(s) \in Seq(Component) /\ Len(Private(s)) = Len(SessionBase) + 1
      /\ \A i \in 1..Len(SessionBase) : Private(s)[i] = SessionBase[i]
      /\ Private(s)[Len(SessionBase) + 1] = s
  BY <1>1, AppendProperties DEF Private
<1>3. IsPrivate(s, Private(s))
  BY <1>1, <1>2 DEF IsPrivate
<1>. QED  BY <1>1, <1>2, <1>3

LEMMA BaseIsAPath ==
  ASSUME LayoutInv
  PROVE  Canon(SessionBase) \in Seq(Component)
<1>1. SessionBase \in Seq(Component) /\ Len(SessionBase) \in Nat
  BY PathsAreTyped, StringsAreComponents
<1>2. Len(SessionBase) \in 0..Len(SessionBase)
  BY <1>1
<1>. QED  BY <1>1, <1>2, LayoutFacts, FollowedIsAPath DEF Canon, CanonBy

\* The canonical spelling starts with that of the private directory.
LEMMA CanonicalIsBelow ==
  ASSUME LayoutInv, NEW s \in Session, NEW q, IsPrivate(s, q)
  PROVE  /\ Canonical(q) \in Seq(Component)
         /\ IsPrefix(Append(Canon(SessionBase), s), Canonical(q))
<1>. DEFINE c == Canon(SessionBase)
            b == Len(SessionBase)
            t == SubSeq(q, b + 1, Len(q))
            a == Append(c, s)
<1>1. c \in Seq(Component) /\ b \in Nat /\ s \in Component /\ Len(c) \in Nat
  BY BaseIsAPath, PrivateFacts
<1>2. q \in Seq(Component) /\ Len(q) \in Nat /\ b + 1 <= Len(q) /\ q[b + 1] = s
  BY PrivateFacts, <1>1 DEF IsPrivate
<1>3. t \in Seq(Component) /\ Len(t) >= 1 /\ t[1] = s /\ Len(t) \in Nat
  BY <1>1, <1>2, SubSeqProperties
<1>. HIDE DEF c, b, t
<1>4. a \in Seq(Component) /\ Len(a) = Len(c) + 1 /\ a[Len(c) + 1] = s
      /\ \A i \in 1..Len(c) : a[i] = c[i]
  BY <1>1, AppendProperties
<1>5. c \o t \in Seq(Component) /\ Len(c \o t) = Len(c) + Len(t)
      /\ \A i \in 1..(Len(c) + Len(t)) : (c \o t)[i] = IF i <= Len(c) THEN c[i] ELSE t[i - Len(c)]
  BY <1>1, <1>3, ConcatProperties
<1>. HIDE DEF a
<1>. DEFINE whole == c \o t
<1>6. Len(a) <= Len(whole) /\ \A i \in 1..Len(a) : a[i] = whole[i]
  <2>1. \A i \in 1..Len(a) : i \in 1..(Len(c) + Len(t)) /\ (i <= Len(c) \/ i = Len(c) + 1)
    BY <1>1, <1>3, <1>4
  <2>. QED  BY <1>1, <1>3, <1>4, <1>5, <2>1
<1>. HIDE DEF whole
<1>7. SubSeq(whole, 1, Len(a)) = SubSeq(a, 1, Len(a))
  <2>1. whole \in Seq(Component) /\ Len(a) \in Nat /\ Len(whole) \in Nat
    BY <1>4, <1>5 DEF whole
  <2>2. SubSeq(whole, 1, Len(a)) \in Seq(Component) /\ Len(SubSeq(whole, 1, Len(a))) = Len(a)
        /\ \A i \in 1..Len(a) : SubSeq(whole, 1, Len(a))[i] = whole[i]
    BY <1>6, <2>1, SubSeqProperties
  <2>3. SubSeq(a, 1, Len(a)) = a
    BY <1>4, SubSeqFull
  <2>. QED  BY <1>4, <1>6, <2>1, <2>2, <2>3, SeqEqual
<1>8. IsPrefix(a, whole)
  BY <1>6, <1>7 DEF IsPrefix
<1>. QED  BY <1>5, <1>8 DEF Canonical, whole, a, c, b, t

\* Sequences that agree from one place to another have that part in common.
LEMMA SamePart ==
  ASSUME NEW U, NEW p \in Seq(U), NEW q \in Seq(U), NEW k \in Nat, NEW n \in Nat,
         n <= Len(p), n <= Len(q), \A i \in (k + 1)..n : p[i] = q[i]
  PROVE  SubSeq(p, k + 1, n) = SubSeq(q, k + 1, n)
<1>1. \A i \in (k + 1)..n : p[i] = q[i] /\ p[i] \in U /\ q[i] \in U
  OBVIOUS
<1>2. k + 1 \in Int /\ n \in Int
  OBVIOUS
<1>3. /\ SubSeq(p, k + 1, n) \in Seq(U) /\ SubSeq(q, k + 1, n) \in Seq(U)
      /\ Len(SubSeq(p, k + 1, n)) = Len(SubSeq(q, k + 1, n))
      /\ Len(SubSeq(p, k + 1, n)) = IF k + 1 <= n THEN n - k ELSE 0
      /\ \A i \in 1..(n - k) : SubSeq(p, k + 1, n)[i] = p[k + i]
      /\ \A i \in 1..(n - k) : SubSeq(q, k + 1, n)[i] = q[k + i]
  BY <1>1, <1>2, SubSeqProperties
<1>4. \A i \in 1..(n - k) : p[k + i] = q[k + i]
  BY <1>1
<1>5. \A i \in 1..Len(SubSeq(p, k + 1, n)) : i \in 1..(n - k)
  BY <1>3
<1>. QED  BY <1>3, <1>4, <1>5, SeqEqual

\* No link stands at a private path, and those on the way to the state directory lead
\* to directories of the layout; so the canonical path keeps what follows as it is spelled.
LEMMA PrivateIsCanonical ==
  ASSUME LayoutInv, NEW s \in Session, NEW q \in Seq(Component),
         q = SessionBase \/ IsPrivate(s, q)
  PROVE  /\ Canon(q) = Canonical(q)
         /\ AnchorOf(q) \o SuffixOf(q) = Canonical(q)
<1>. DEFINE b == Len(SessionBase)
            F == Followed(links, q)
            next(n) == Append(CanonBy(links, Prefix(q, n - 1)), q[n])
<1>0. /\ SessionBase \in Seq(Component) /\ b \in Nat /\ Len(q) \in Nat /\ b <= Len(q)
      /\ \A i \in 1..b : q[i] = SessionBase[i]
  BY PrivateFacts DEF IsPrivate
<1>1. ASSUME NEW n \in 0..b PROVE Prefix(q, n) = Prefix(SessionBase, n)
  <2>1. \A i \in 1..n : q[i] \in Component /\ SessionBase[i] \in Component /\ q[i] = SessionBase[i]
    BY <1>0
  <2>2. n \in Int /\ 1 \in Int
    BY <1>0
  <2>3. /\ SubSeq(q, 1, n) \in Seq(Component) /\ SubSeq(SessionBase, 1, n) \in Seq(Component)
        /\ Len(SubSeq(q, 1, n)) = n /\ Len(SubSeq(SessionBase, 1, n)) = n
        /\ \A i \in 1..n : SubSeq(q, 1, n)[i] = q[i]
        /\ \A i \in 1..n : SubSeq(SessionBase, 1, n)[i] = SessionBase[i]
    BY <1>0, <2>1, <2>2, SubSeqProperties
  <2>. QED  BY <2>1, <2>3, SeqEqual DEF Prefix
<1>2. Prefix(SessionBase, b) = SessionBase
  BY <1>0, SubSeqFull DEF Prefix
<1>3. \A n \in 0..Len(q) : CanonBy(links, Prefix(q, n)) = F[n]
  BY PrefixFollowed
<1>4. F[b] = Canon(SessionBase)
  <2>1. b \in 0..b /\ b \in 0..Len(q)
    BY <1>0
  <2>2. CanonBy(links, Prefix(q, b)) = CanonBy(links, SessionBase)
    BY <1>1, <1>2, <2>1
  <2>. QED  BY <1>3, <2>1, <2>2 DEF Canon
<1>5. ASSUME NEW n \in (b + 1)..Len(q),
             F[n - 1] = F[b] \o SubSeq(q, b + 1, n - 1)
      PROVE  Append(F[n - 1], q[n]) \notin DOMAIN links
  <2>. DEFINE p == Prefix(q, n)
  <2>0. n \in 1..Len(q) /\ b < n /\ IsPrivate(s, q)
    BY <1>0, <1>5
  <2>1. Append(F[n - 1], q[n]) = F[b] \o SubSeq(q, b + 1, n)
    <3>1. F[b] \in Seq(Component)
      BY <1>4, BaseIsAPath
    <3>. HIDE DEF F
    <3>2. Append(F[b] \o SubSeq(q, b + 1, n - 1), q[n]) = F[b] \o SubSeq(q, b + 1, n)
      BY <1>0, <2>0, <3>1, OneMore
    <3>. QED  BY <1>5, <3>2
  <2>2. p \in Seq(Component) /\ Len(p) = n /\ \A i \in 1..n : p[i] = q[i]
    BY <1>0, <2>0, SubSeqProperties DEF Prefix
  <2>3. IsPrivate(s, p)
    BY <1>0, <2>0, <2>2, PrivateFacts DEF IsPrivate
  <2>4. SubSeq(p, b + 1, n) = SubSeq(q, b + 1, n)
    <3>1. n \in Nat /\ n <= Len(p) /\ n <= Len(q) /\ \A i \in (b + 1)..n : p[i] = q[i]
      BY <1>0, <2>0, <2>2
    <3>. QED  BY <1>0, <2>2, <3>1, SamePart
  <2>5. Append(F[n - 1], q[n]) = Canonical(p)
    BY <1>4, <2>1, <2>2, <2>4 DEF Canonical
  <2>6. IsPrefix(Append(Canon(SessionBase), s), Canonical(p))
    BY <2>3, CanonicalIsBelow
  <2>. QED  BY <2>5, <2>6, PrivateIsFresh DEF LayoutInv, Canon
<1>6. \A n \in b..Len(q) : F[n] = F[b] \o SubSeq(q, b + 1, n)
  <2>1. b \in 0..Len(q)
    BY <1>0
  <2>. QED  BY <1>5, <2>1, LayoutFacts, StraightOn
<1>7. Canon(q) = Canonical(q)
  <2>1. Len(q) \in b..Len(q)
    BY <1>0
  <2>. QED  BY <1>4, <1>6, <2>1 DEF Canon, CanonBy, Canonical
<1>8. ASSUME NEW n \in 1..Len(q), next(n) \in DOMAIN links PROVE links[next(n)] \in dirs
  <2>1. n - 1 \in 0..Len(q) /\ CanonBy(links, Prefix(q, n - 1)) = F[n - 1]
    BY <1>0, <1>3
  <2>2. CASE n <= b
    <3>1. n - 1 \in 0..b /\ n \in 1..b /\ q[n] = SessionBase[n]
      BY <1>0, <2>2
    <3>2. next(n) = Append(CanonBy(links, Prefix(SessionBase, n - 1)), SessionBase[n])
      BY <1>1, <3>1
    <3>. QED  BY <1>8, <3>1, <3>2, StateIsInPlace DEF LayoutInv
  <2>3. CASE n > b
    <3>1. n \in (b + 1)..Len(q) /\ n - 1 \in b..Len(q)
      BY <1>0, <2>3
    <3>. QED  BY <1>5, <1>6, <1>8, <2>1, <3>1
  <2>. QED  BY <1>0, <2>2, <2>3
<1>9. AnchorOf(q) \o SuffixOf(q) = Canon(q)
  BY <1>8, LayoutFacts, SpellingIsCanonical
<1>. QED  BY <1>7, <1>9

\* What authority is compared with, at any time, is this spelling.
LEMMA NoFollowIsCanonical ==
  ASSUME LayoutInv, NEW s \in Session, NEW q, IsPrivate(s, q)
  PROVE  NoFollowSpelling(q) = Canonical(q)
<1>. DEFINE b == Len(SessionBase)
            n == Len(q)
            p == Front(q)
            c == Canon(SessionBase)
<1>0. /\ q \in Seq(Component) /\ b \in Nat /\ n \in Nat /\ b + 1 <= n
      /\ \A i \in 1..b : q[i] = SessionBase[i]
      /\ SessionBase \in Seq(Component) /\ c \in Seq(Component)
  BY PrivateFacts, BaseIsAPath DEF IsPrivate
<1>1. p \in Seq(Component) /\ Len(p) = n - 1 /\ \A i \in 1..(n - 1) : p[i] = q[i]
  <2>1. \A i \in 1..(n - 1) : q[i] \in Component
    BY <1>0
  <2>. HIDE DEF b, n
  <2>2. n - 1 \in Int /\ 1 \in Int /\ 0 <= n - 1
    BY <1>0
  <2>3. /\ SubSeq(q, 1, n - 1) \in Seq(Component) /\ Len(SubSeq(q, 1, n - 1)) = n - 1
        /\ \A i \in 1..(n - 1) : SubSeq(q, 1, n - 1)[i] = q[i]
    BY <1>0, <2>1, <2>2, SubSeqProperties
  <2>. QED  BY <2>3 DEF Front, n
<1>2. p = SessionBase \/ IsPrivate(s, p)
  <2>1. CASE n = b + 1
    <3>1. Len(p) = Len(SessionBase) /\ \A i \in 1..Len(p) : p[i] = SessionBase[i]
      BY <1>0, <1>1, <2>1
    <3>. QED  BY <1>0, <1>1, <3>1, SeqEqual
  <2>2. CASE n > b + 1
    <3>1. Len(Private(s)) = b + 1 /\ Len(Private(s)) <= Len(p)
      BY <1>0, <1>1, <2>2, PrivateFacts
    <3>2. \A i \in 1..Len(Private(s)) : q[i] = Private(s)[i] /\ p[i] = q[i]
      BY <1>0, <1>1, <2>2, <3>1 DEF IsPrivate
    <3>. QED  BY <1>1, <3>1, <3>2 DEF IsPrivate
  <2>. QED  BY <1>0, <2>1, <2>2
<1>3. AnchorOf(p) \o SuffixOf(p) = c \o SubSeq(p, b + 1, n - 1)
  BY <1>1, <1>2, PrivateIsCanonical DEF Canonical
<1>4. SubSeq(p, b + 1, n - 1) = SubSeq(q, b + 1, n - 1)
  <2>1. n - 1 \in Nat /\ n - 1 <= Len(p) /\ n - 1 <= Len(q) /\ \A i \in (b + 1)..(n - 1) : p[i] = q[i]
    BY <1>0, <1>1
  <2>. HIDE DEF p
  <2>. QED  BY <1>0, <1>1, <2>1, SamePart
<1>5. Append(c \o SubSeq(q, b + 1, n - 1), q[n]) = c \o SubSeq(q, b + 1, n)
  <2>1. n \in 1..Len(q) /\ b < n
    BY <1>0
  <2>. QED  BY <1>0, <2>1, OneMore
<1>6. c \o SubSeq(q, b + 1, n - 1) \in Seq(Component) /\ q[n] \in Component
  <2>1. \A i \in (b + 1)..(n - 1) : q[i] \in Component
    BY <1>0
  <2>2. SubSeq(q, b + 1, n - 1) \in Seq(Component)
    BY <1>0, <2>1, SubSeqProperties
  <2>. QED  BY <1>0, <2>2, ConcatProperties
<1>. HIDE DEF c, b, n, p
<1>7. (c \o SubSeq(q, b + 1, n - 1)) \o <<q[n]>> = c \o SubSeq(q, b + 1, n)
  BY <1>5, <1>6, AppendIsConcat
<1>. QED  BY <1>3, <1>4, <1>7 DEF NoFollowSpelling, Canonical, Last, c, b, n, p

----------------------------------------------------------------------------
(* What a plan grants.                                                     *)

\* The spelling under which a plan grants a path, whenever it is asked for.
Spelling(s, q) == IF cast[s].adapter = "staging" THEN Canonical(q) ELSE q

Grants(r, s, q) == r.access = "mutate" /\ IsPrefix(r.anchor \o r.suffix, Spelling(s, q))

\* A plan grants its entry, its store, and everything it will create, and under the
\* key of any observer what it will stage.
Granted(s, p) ==
    /\ \A q \in {p.entry, p.store} \cup Range(p.finals) :
           q \in Seq(Component) /\ (cast[s].adapter = "staging" => IsPrivate(s, q))
    /\ \E r \in p.resources : r.kind = "entry" /\ Grants(r, s, p.entry)
    /\ \E r \in p.resources : r.kind = "store" /\ Grants(r, s, p.store)
    /\ \A q \in Range(p.finals) :
           /\ \E r \in p.resources : Grants(r, s, q)
           /\ \E r \in p.resources :
                  r.access = "mutate" /\ Logical(r) = EntryKey(Temporary(s, q))

LEMMA PrefixOfItself ==
  ASSUME NEW U, NEW q \in Seq(U)
  PROVE  IsPrefix(q, q)
  BY DEF IsPrefix

\* What an absolute or a project's description spells is the path that is described.
LEMMA DescribedAsGiven ==
  ASSUME NEW U, NEW a \in Seq(U), NEW t \in Seq(U)
  PROVE  a \o SubSeq(a \o t, Len(a) + 1, Len(a \o t)) = a \o t
<1>. DEFINE q == a \o t
<1>1. q \in Seq(U) /\ Len(q) = Len(a) + Len(t) /\ Len(a) \in Nat /\ Len(t) \in Nat
      /\ \A i \in 1..Len(t) : q[Len(a) + i] = t[i]
  OBVIOUS
<1>2. SubSeq(q, Len(a) + 1, Len(q)) = t
  <2>. HIDE DEF q
  <2>1. \A i \in (Len(a) + 1)..Len(q) : q[i] \in U
    BY <1>1
  <2>2. Len(a) + 1 \in Int /\ Len(q) \in Int
    BY <1>1
  <2>3. /\ SubSeq(q, Len(a) + 1, Len(q)) \in Seq(U)
        /\ Len(SubSeq(q, Len(a) + 1, Len(q))) = Len(t)
        /\ \A i \in 1..Len(t) : SubSeq(q, Len(a) + 1, Len(q))[i] = q[Len(a) + i]
    BY <1>1, <2>1, <2>2, SubSeqProperties
  <2>. QED  BY <1>1, <2>3, SeqEqual
<1>. QED  BY <1>2

LEMMA SharedAsGiven ==
  ASSUME NEW U, NEW q \in Seq(U)
  PROVE  <<>> \o SubSeq(q, Len(<<>>) + 1, Len(q)) = q
<1>1. SubSeq(q, 1, Len(q)) = q /\ <<>> \o q = q /\ Len(<<>>) + 1 = 1
  BY SubSeqFull, ConcatEmptySeq
<1>. QED  BY <1>1

\* Such a plan is authorized whatever directories have come or gone.
LEMMA GrantedIsAuthorized ==
  ASSUME LayoutInv, NEW s \in Session, NEW p, Granted(s, p)
  PROVE  Decodes(s, p)
<1>. DEFINE owned == {p.entry, p.store} \cup Range(p.finals)
<1>1. ASSUME NEW q \in owned, NEW r \in p.resources, Grants(r, s, q)
      PROVE  r \in Authorities(p, q)
  <2>1. Spelling(s, q) = q \/ Spelling(s, q) = NoFollowSpelling(q)
    BY NoFollowIsCanonical DEF Spelling, Granted
  <2>. QED  BY <1>1, <2>1 DEF Grants, Authorities
<1>2. ASSUME NEW q \in Range(p.finals)
      PROVE  \E r \in ExactAuthorities(p, Temporary(s, q)) : r.kind = "entry"
  <2>. DEFINE t == Temporary(s, q)
              U == Component \cup {"." \o s}
  <2>1. q \in Seq(Component)
    BY DEF Granted
  <2>2. Front(q) \in Seq(U)
    <3>1. \A i \in 1..(Len(q) - 1) : q[i] \in U
      BY <2>1
    <3>2. Len(q) - 1 \in Int
      BY <2>1
    <3>. HIDE DEF U
    <3>. QED  BY <3>1, <3>2, SubSeqProperties DEF Front
  <2>3. t \in Seq(U)
    BY <2>2, AppendProperties DEF Temporary
  <2>4. PICK r \in p.resources : r.access = "mutate" /\ Logical(r) = EntryKey(t)
    BY DEF Granted
  <2>. HIDE DEF t, U
  <2>5. r.kind = "entry" /\ r.anchor = <<>> /\ r.suffix = SubSeq(t, 1, Len(t))
    BY <2>4 DEF Logical, EntryKey
  <2>6. r.anchor \o r.suffix = t
    BY <2>3, <2>5, SubSeqFull, ConcatEmptySeq
  <2>7. r \in Authorities(p, t)
    BY <2>3, <2>4, <2>6, PrefixOfItself DEF Authorities
  <2>8. Logical(Shared(r.kind, "mutate", t)) = EntryKey(t)
    BY <2>5 DEF Logical, Shared, Describe, EntryKey
  <2>. QED  BY <2>4, <2>5, <2>7, <2>8 DEF ExactAuthorities, t
<1>3. Authorized(s, p)
  BY <1>1, <1>2 DEF Authorized, Granted
<1>. QED  BY <1>3 DEF Decodes, Granted, Grants

----------------------------------------------------------------------------
(* What the adapters ask for grants what they plan.                        *)

LEMMA PrefixByComponents ==
  ASSUME NEW U, NEW p \in Seq(U), NEW q \in Seq(U), Len(p) <= Len(q),
         \A i \in 1..Len(p) : p[i] = q[i]
  PROVE  IsPrefix(p, q)
<1>1. 0 + 1 = 1 /\ Len(p) \in Nat /\ Len(p) <= Len(p)
  OBVIOUS
<1>2. SubSeq(p, 0 + 1, Len(p)) = SubSeq(q, 0 + 1, Len(p))
  BY <1>1, SamePart
<1>. QED  BY <1>1, <1>2 DEF IsPrefix

LEMMA CastFacts ==
  ASSUME cast \in Casts, NEW s \in Session
  PROVE  /\ cast[s].adapter \in Adapters
         /\ Root(s) \in Seq(Component)
         /\ s \in Component
         /\ {"root", ".agents", ".claude", "skills"} \subseteq Component
<1>1. cast[s].adapter \in Adapters /\ Root(s) \in Seq(Component)
  BY CastsHaveAdapters, StringsAreComponents DEF Root
<1>2. s \in Component
  BY PathsAreTyped DEF Component
<1>3. {"root", ".agents", ".claude", "skills"} \subseteq Component
  BY DEF Component
<1>. QED  BY <1>1, <1>2, <1>3

LEMMA FinalsAre ==
  ASSUME NEW s \in Session, Creates(s) \in Seq(Seq(Component)),
         Mounted(s) \in Seq(Component), NEW q \in Range(PlanOf(s).finals)
  PROVE  /\ q \in Seq(Component)
         /\ q = Mounted(s) \/ \E i \in 1..Len(Creates(s)) : q = Creates(s)[i]
         /\ \E r \in PlanOf(s).resources :
                r.access = "mutate" /\ Logical(r) = EntryKey(Temporary(s, q))
<1>. DEFINE finals == Append(Creates(s), Mounted(s))
<1>1. PlanOf(s).finals = finals
  BY DEF PlanOf
<1>2. PICK i \in DOMAIN finals : q = finals[i]
  BY <1>1 DEF Range
<1>3. Shared("entry", "mutate", Temporary(s, q)) \in PlanOf(s).resources
  BY <1>1 DEF PlanOf
<1>4. /\ q \in Seq(Component)
      /\ q = Mounted(s) \/ \E j \in 1..Len(Creates(s)) : q = Creates(s)[j]
  BY <1>2
<1>. QED  BY <1>3, <1>4, SameKey

LEMMA MountedAfterStore ==
  ASSUME NEW s \in Session, s \in Component, Store(s) \in Seq(Component)
  PROVE  /\ Mounted(s) \in Seq(Component)
         /\ Len(Mounted(s)) = Len(Store(s)) + 1
         /\ \A i \in 1..Len(Store(s)) : Mounted(s)[i] = Store(s)[i]
  BY AppendProperties DEF Mounted

LEMMA CodexGrants ==
  ASSUME cast \in Casts, LayoutInv, NEW s \in Session, cast[s].adapter = "codex"
  PROVE  Granted(s, PlanOf(s))
<1>. DEFINE p == PlanOf(s)
            agents == Front(CodexEntry(s))
            mine == Shared("entry", "mutate", Store(s))
            parent == Shared("entry", "mutate", agents)
            backing == Describe("store", "mutate", Root(s), Store(s))
<1>1. /\ Entry(s) = CodexEntry(s) /\ Store(s) = CodexEntry(s)
      /\ Root(s) \in Seq(Component) /\ <<".agents", "skills">> \in Seq(Component)
      /\ Store(s) \in Seq(Component) /\ s \in Component
  BY CastFacts DEF Entry, Store, CodexEntry
<1>2. agents \in Seq(Component)
  <2>1. \A i \in 1..(Len(CodexEntry(s)) - 1) : CodexEntry(s)[i] \in Component
    BY <1>1
  <2>2. Len(CodexEntry(s)) - 1 \in Int
    BY <1>1
  <2>. QED  BY <2>1, <2>2, SubSeqProperties DEF Front
<1>3. {mine, parent, backing} \subseteq p.resources
  <2>1. {parent, backing} \subseteq Resources(s)
    BY DEF Resources, CodexResources, ParentResources
  <2>. QED  BY <2>1, StoreIsAsked DEF PlanOf
<1>4. /\ mine.kind = "entry" /\ mine.access = "mutate" /\ mine.anchor \o mine.suffix = Store(s)
      /\ parent.kind = "entry" /\ parent.access = "mutate" /\ parent.anchor \o parent.suffix = agents
      /\ backing.kind = "store" /\ backing.access = "mutate"
      /\ backing.anchor \o backing.suffix = Store(s)
  <2>1. mine.kind = "entry" /\ mine.access = "mutate" /\ mine.anchor \o mine.suffix = Store(s)
    BY <1>1, SharedAsGiven DEF Shared, Describe
  <2>2. parent.kind = "entry" /\ parent.access = "mutate" /\ parent.anchor \o parent.suffix = agents
    BY <1>2, SharedAsGiven DEF Shared, Describe
  <2>3. Root(s) \o SubSeq(Store(s), Len(Root(s)) + 1, Len(Store(s))) = Store(s)
    BY <1>1, DescribedAsGiven DEF CodexEntry
  <2>. QED  BY <2>1, <2>2, <2>3 DEF Describe
<1>. HIDE DEF mine, parent, backing, agents
<1>5. \A q : Spelling(s, q) = q
  BY DEF Spelling
<1>6. Grants(mine, s, Store(s)) /\ Grants(backing, s, Store(s)) /\ Grants(parent, s, agents)
  BY <1>1, <1>2, <1>4, <1>5, PrefixOfItself DEF Grants
<1>7. Mounted(s) \in Seq(Component) /\ Grants(mine, s, Mounted(s))
  <2>1. IsPrefix(Store(s), Mounted(s)) /\ Mounted(s) \in Seq(Component)
    BY <1>1, MountedAfterStore, PrefixByComponents
  <2>. QED  BY <2>1, <1>4, <1>5 DEF Grants
<1>8. Creates(s) \in Seq(Seq(Component)) /\ \A i \in 1..Len(Creates(s)) : Creates(s)[i] \in {agents, Store(s)}
  <2>1. Creates(s) \in {<<>>, <<agents, Store(s)>>, <<Store(s)>>}
    BY <1>1 DEF Creates, CodexCreates, agents
  <2>2. CASE Creates(s) = <<>>
    BY <2>2
  <2>3. CASE Creates(s) = <<agents, Store(s)>>
    BY <1>1, <1>2, <2>3
  <2>4. CASE Creates(s) = <<Store(s)>>
    BY <1>1, <2>4
  <2>. QED  BY <2>1, <2>2, <2>3, <2>4
<1>9. p.entry = Store(s) /\ p.store = Store(s)
  BY <1>1 DEF PlanOf
<1>. HIDE DEF p
<1>10. ASSUME NEW q \in Range(p.finals)
       PROVE  q \in Seq(Component) /\ \E r \in p.resources : Grants(r, s, q)
  <2>1. q \in Seq(Component) /\ q \in {Mounted(s), agents, Store(s)}
    BY <1>7, <1>8, FinalsAre DEF p
  <2>. QED  BY <1>3, <1>6, <1>7, <2>1
<1>11. \A q \in Range(p.finals) :
          \E r \in p.resources : r.access = "mutate" /\ Logical(r) = EntryKey(Temporary(s, q))
  BY <1>7, <1>8, FinalsAre DEF p
<1>12. Granted(s, p)
  BY <1>1, <1>3, <1>4, <1>6, <1>9, <1>10, <1>11 DEF Granted
<1>. QED  BY <1>12 DEF p

LEMMA PrefixFacts ==
  ASSUME NEW q \in Seq(Component), NEW m \in 0..Len(q)
  PROVE  /\ Prefix(q, m) \in Seq(Component) /\ Len(Prefix(q, m)) = m
         /\ \A i \in 1..m : Prefix(q, m)[i] = q[i]
<1>1. \A i \in 1..m : q[i] \in Component
  OBVIOUS
<1>2. m \in Int /\ 1 \in Int /\ 0 <= m
  OBVIOUS
<1>. QED  BY <1>1, <1>2, SubSeqProperties DEF Prefix

\* What is missing are ancestors below the boundary.
LEMMA MissingChainIs ==
  ASSUME LayoutInv, NEW leaf \in Seq(Component), NEW boundary \in Seq(Component),
         Len(boundary) <= Len(leaf)
  PROVE  /\ MissingChain(leaf, boundary) \in Seq(Seq(Component))
         /\ \A i \in 1..Len(MissingChain(leaf, boundary)) :
                \E m \in (Len(boundary) + 1)..Len(leaf) :
                    MissingChain(leaf, boundary)[i] = Prefix(leaf, m)
<1>. DEFINE n == IF Deepest(leaf) > Len(boundary) THEN Deepest(leaf) ELSE Len(boundary)
            chain == [i \in 1..(Len(leaf) - n) |-> Prefix(leaf, n + i)]
<1>1. Len(leaf) \in Nat /\ Len(boundary) \in Nat /\ Deepest(leaf) \in 0..Len(leaf)
  BY LayoutFacts, DeepestExists
<1>2. n \in Nat /\ Len(boundary) <= n /\ n <= Len(leaf)
  BY <1>1
<1>. HIDE DEF n
<1>3. Len(leaf) - n \in Nat
  BY <1>1, <1>2
<1>4. ASSUME NEW i \in 1..(Len(leaf) - n)
      PROVE  /\ n + i \in (Len(boundary) + 1)..Len(leaf)
             /\ Prefix(leaf, n + i) \in Seq(Component)
  <2>1. n + i \in (Len(boundary) + 1)..Len(leaf) /\ n + i \in 0..Len(leaf)
    BY <1>1, <1>2
  <2>. QED  BY <2>1, PrefixFacts
<1>5. chain \in Seq(Seq(Component)) /\ Len(chain) = Len(leaf) - n
  <2>. DEFINE k == Len(leaf) - n
              Paths == Seq(Component)
  <2>1. k \in Nat /\ \A i \in 1..k : chain[i] \in Paths
    BY <1>3, <1>4
  <2>2. chain = [i \in 1..k |-> chain[i]]
    OBVIOUS
  <2>. HIDE DEF chain, k, Paths
  <2>3. chain \in Seq(Paths) /\ Len(chain) = k
    BY <2>1, <2>2
  <2>. QED  BY <2>3 DEF k, Paths
<1>6. ASSUME NEW i \in 1..Len(chain)
      PROVE  \E m \in (Len(boundary) + 1)..Len(leaf) : chain[i] = Prefix(leaf, m)
  BY <1>4, <1>5
<1>. QED  BY <1>5, <1>6 DEF MissingChain, n

LEMMA ClaudeGrants ==
  ASSUME cast \in Casts, LayoutInv, NEW s \in Session, cast[s].adapter = "claude"
  PROVE  Granted(s, PlanOf(s))
<1>. DEFINE p == PlanOf(s)
            root == Root(s)
            entry == Shared("entry", "mutate", root)
            backing == Describe("store", "mutate", root, Store(s))
<1>1. /\ Entry(s) = root /\ Store(s) = root \o <<".claude", "skills">>
      /\ root \in Seq(Component) /\ <<".claude", "skills">> \in Seq(Component)
      /\ Store(s) \in Seq(Component) /\ s \in Component
      /\ Len(Store(s)) = Len(root) + 2 /\ Len(root) \in Nat
      /\ \A i \in 1..Len(root) : Store(s)[i] = root[i]
  BY CastFacts DEF Entry, Store, ClaudeEntry
<1>2. {entry, backing} \subseteq p.resources
  <2>1. {entry, backing} \subseteq Resources(s)
    BY <1>1 DEF Resources, ClaudeResources
  <2>. QED  BY <2>1 DEF PlanOf
<1>3. /\ entry.kind = "entry" /\ entry.access = "mutate" /\ entry.anchor \o entry.suffix = root
      /\ backing.kind = "store" /\ backing.access = "mutate"
      /\ backing.anchor \o backing.suffix = Store(s)
  <2>1. entry.kind = "entry" /\ entry.access = "mutate" /\ entry.anchor \o entry.suffix = root
    BY <1>1, SharedAsGiven DEF Shared, Describe
  <2>2. root \o SubSeq(Store(s), Len(root) + 1, Len(Store(s))) = Store(s)
    BY <1>1, DescribedAsGiven
  <2>. QED  BY <2>1, <2>2 DEF Describe
<1>. HIDE DEF entry, backing
<1>4. \A q : Spelling(s, q) = q
  BY DEF Spelling
<1>5. Grants(entry, s, root) /\ Grants(backing, s, Store(s))
  BY <1>1, <1>3, <1>4, PrefixOfItself DEF Grants
<1>6. ASSUME NEW q \in Seq(Component), Len(root) <= Len(q),
             \A i \in 1..Len(root) : q[i] = root[i]
      PROVE  Grants(entry, s, q)
  <2>1. IsPrefix(root, q)
    BY <1>1, <1>6, PrefixByComponents
  <2>. QED  BY <1>3, <1>4, <2>1 DEF Grants
<1>7. Mounted(s) \in Seq(Component) /\ Grants(entry, s, Mounted(s))
  <2>1. /\ Mounted(s) \in Seq(Component) /\ Len(Mounted(s)) = Len(Store(s)) + 1
        /\ \A i \in 1..Len(Store(s)) : Mounted(s)[i] = Store(s)[i]
    BY <1>1, MountedAfterStore
  <2>2. Len(root) <= Len(Mounted(s)) /\ \A i \in 1..Len(root) : Mounted(s)[i] = root[i]
    BY <1>1, <2>1
  <2>. QED  BY <1>6, <2>1, <2>2
<1>8. /\ Creates(s) \in Seq(Seq(Component))
      /\ \A i \in 1..Len(Creates(s)) : Grants(entry, s, Creates(s)[i])
  <2>1. Creates(s) = MissingChain(Store(s), root) /\ Len(root) <= Len(Store(s))
    BY <1>1 DEF Creates
  <2>2. ASSUME NEW i \in 1..Len(Creates(s)) PROVE Grants(entry, s, Creates(s)[i])
    <3>1. PICK m \in (Len(root) + 1)..Len(Store(s)) : Creates(s)[i] = Prefix(Store(s), m)
      <4>1. i \in 1..Len(MissingChain(Store(s), root))
        BY <2>1
      <4>. QED  BY <1>1, <2>1, <4>1, MissingChainIs
    <3>2. m \in 0..Len(Store(s)) /\ Len(root) <= m
      BY <1>1
    <3>3. /\ Prefix(Store(s), m) \in Seq(Component) /\ Len(Prefix(Store(s), m)) = m
          /\ \A j \in 1..m : Prefix(Store(s), m)[j] = Store(s)[j]
      BY <1>1, <3>2, PrefixFacts
    <3>4. \A j \in 1..Len(root) : Prefix(Store(s), m)[j] = root[j]
      BY <1>1, <3>2, <3>3
    <3>. QED  BY <1>6, <3>1, <3>2, <3>3, <3>4
  <2>. QED  BY <1>1, <2>1, <2>2, MissingChainIs
<1>9. p.entry = root /\ p.store = Store(s)
  BY <1>1 DEF PlanOf
<1>. HIDE DEF p
<1>10. ASSUME NEW q \in Range(p.finals)
       PROVE  q \in Seq(Component) /\ \E r \in p.resources : Grants(r, s, q)
  <2>1. /\ q \in Seq(Component)
        /\ q = Mounted(s) \/ \E i \in 1..Len(Creates(s)) : q = Creates(s)[i]
    BY <1>7, <1>8, FinalsAre DEF p
  <2>. QED  BY <1>2, <1>7, <1>8, <2>1
<1>11. \A q \in Range(p.finals) :
          \E r \in p.resources : r.access = "mutate" /\ Logical(r) = EntryKey(Temporary(s, q))
  BY <1>7, <1>8, FinalsAre DEF p
<1>12. Granted(s, p)
  BY <1>1, <1>2, <1>3, <1>5, <1>9, <1>10, <1>11 DEF Granted
<1>. QED  BY <1>12 DEF p

LEMMA CanonicalPrivate ==
  ASSUME LayoutInv, NEW s \in Session
  PROVE  Canonical(Private(s)) = Append(Canon(SessionBase), s)
<1>. DEFINE b == Len(SessionBase)
            c == Canon(SessionBase)
<1>1. /\ c \in Seq(Component) /\ b \in Nat /\ Private(s) \in Seq(Component)
      /\ Len(Private(s)) = b + 1 /\ Private(s)[b + 1] = s
  BY BaseIsAPath, PrivateFacts
<1>. HIDE DEF c, b
<1>2. b + 1 \in 1..Len(Private(s)) /\ b < b + 1 /\ (b + 1) - 1 = b
  BY <1>1
<1>3. Append(c \o SubSeq(Private(s), b + 1, (b + 1) - 1), Private(s)[b + 1])
        = c \o SubSeq(Private(s), b + 1, b + 1)
  BY <1>1, <1>2, OneMore
<1>4. SubSeq(Private(s), b + 1, b) = <<>> /\ c \o <<>> = c
  BY <1>1, SubSeqEmpty, ConcatEmptySeq
<1>. QED  BY <1>1, <1>2, <1>3, <1>4 DEF Canonical, c, b

\* A path that starts as a private one is private.
LEMMA StillPrivate ==
  ASSUME NEW s \in Session, NEW p, IsPrivate(s, p), NEW q \in Seq(Component),
         NEW m \in Nat, m <= Len(q), Len(Private(s)) <= m, \A i \in 1..m : q[i] = p[i]
  PROVE  IsPrivate(s, q)
  BY PrivateFacts DEF IsPrivate

LEMMA StagingGrants ==
  ASSUME cast \in Casts, LayoutInv, NEW s \in Session, cast[s].adapter = "staging"
  PROVE  Granted(s, PlanOf(s))
<1>. DEFINE p == PlanOf(s)
            b == Len(SessionBase)
            private == Unanchored("entry", "mutate", Private(s))
            backing == Unanchored("store", "mutate", Store(s))
<1>1. /\ Entry(s) = Append(Private(s), "root")
      /\ Store(s) = Private(s) \o <<"root", ".claude", "skills">>
      /\ Private(s) \in Seq(Component) /\ b \in Nat /\ Len(Private(s)) = b + 1
      /\ IsPrivate(s, Private(s)) /\ s \in Component
  BY CastFacts, PrivateFacts DEF Entry, Store
<1>2. /\ Store(s) \in Seq(Component) /\ Len(Store(s)) = b + 4 /\ IsPrivate(s, Store(s))
      /\ \A i \in 1..(b + 1) : Store(s)[i] = Private(s)[i]
  <2>1. <<"root", ".claude", "skills">> \in Seq(Component)
    BY CastFacts
  <2>2. Store(s) \in Seq(Component) /\ Len(Store(s)) = b + 4
        /\ \A i \in 1..(b + 1) : Store(s)[i] = Private(s)[i]
    BY <1>1, <2>1, ConcatProperties
  <2>. HIDE DEF b
  <2>3. b + 1 \in Nat /\ b + 1 <= Len(Store(s)) /\ Len(Private(s)) <= b + 1
    BY <1>1, <2>2
  <2>. QED  BY <1>1, <2>2, <2>3, StillPrivate
<1>3. Entry(s) \in Seq(Component) /\ IsPrivate(s, Entry(s))
  <2>1. Entry(s) \in Seq(Component) /\ Len(Entry(s)) = b + 2
        /\ \A i \in 1..(b + 1) : Entry(s)[i] = Private(s)[i]
    BY <1>1, CastFacts, AppendProperties
  <2>. HIDE DEF b
  <2>2. b + 1 \in Nat /\ b + 1 <= Len(Entry(s)) /\ Len(Private(s)) <= b + 1
    BY <1>1, <2>1
  <2>. QED  BY <1>1, <2>1, <2>2, StillPrivate
<1>4. {private, backing} \subseteq p.resources
  <2>1. {private, backing} \subseteq Resources(s)
    BY DEF Resources, StagingResources
  <2>. QED  BY <2>1 DEF PlanOf
<1>5. /\ private.kind = "entry" /\ private.access = "mutate"
      /\ private.anchor \o private.suffix = Append(Canon(SessionBase), s)
      /\ backing.kind = "store" /\ backing.access = "mutate"
      /\ backing.anchor \o backing.suffix = Canonical(Store(s))
  <2>1. AnchorOf(Private(s)) \o SuffixOf(Private(s)) = Append(Canon(SessionBase), s)
    BY <1>1, PrivateIsCanonical, CanonicalPrivate
  <2>2. AnchorOf(Store(s)) \o SuffixOf(Store(s)) = Canonical(Store(s))
    BY <1>2, PrivateIsCanonical
  <2>. QED  BY <2>1, <2>2 DEF Unanchored
<1>. HIDE DEF private, backing
<1>6. ASSUME NEW q, IsPrivate(s, q) PROVE Grants(private, s, q)
  BY <1>5, <1>6, CanonicalIsBelow DEF Grants, Spelling
<1>7. Grants(backing, s, Store(s))
  <2>1. IsPrefix(Canonical(Store(s)), Canonical(Store(s)))
    BY <1>2, CanonicalIsBelow, PrefixOfItself
  <2>. QED  BY <1>5, <2>1 DEF Grants, Spelling
<1>8. Mounted(s) \in Seq(Component) /\ IsPrivate(s, Mounted(s))
  <2>1. /\ Mounted(s) \in Seq(Component) /\ Len(Mounted(s)) = Len(Store(s)) + 1
        /\ \A i \in 1..Len(Store(s)) : Mounted(s)[i] = Store(s)[i]
    BY <1>1, <1>2, MountedAfterStore
  <2>. HIDE DEF b
  <2>2. /\ Len(Store(s)) \in Nat /\ Len(Store(s)) <= Len(Mounted(s))
        /\ Len(Private(s)) <= Len(Store(s))
    BY <1>1, <1>2, <2>1
  <2>. QED  BY <1>1, <1>2, <2>1, <2>2, StillPrivate
<1>9. /\ Creates(s) \in Seq(Seq(Component))
      /\ \A i \in 1..Len(Creates(s)) : IsPrivate(s, Creates(s)[i])
  <2>1. /\ Creates(s) = MissingChain(Store(s), SessionBase)
        /\ b <= Len(Store(s)) /\ SessionBase \in Seq(Component)
    BY <1>1, <1>2, PrivateFacts DEF Creates
  <2>2. ASSUME NEW i \in 1..Len(Creates(s)) PROVE IsPrivate(s, Creates(s)[i])
    <3>1. PICK m \in (b + 1)..Len(Store(s)) : Creates(s)[i] = Prefix(Store(s), m)
      <4>1. i \in 1..Len(MissingChain(Store(s), SessionBase))
        BY <2>1
      <4>. QED  BY <1>2, <2>1, <4>1, MissingChainIs
    <3>2. m \in 0..Len(Store(s)) /\ m \in Nat /\ Len(Private(s)) <= m
      BY <1>1, <1>2
    <3>3. /\ Prefix(Store(s), m) \in Seq(Component) /\ Len(Prefix(Store(s), m)) = m
          /\ \A j \in 1..m : Prefix(Store(s), m)[j] = Store(s)[j]
      BY <1>2, <3>2, PrefixFacts
    <3>4. m <= Len(Prefix(Store(s), m))
      BY <3>2, <3>3
    <3>5. IsPrivate(s, Prefix(Store(s), m))
      BY <1>2, <3>2, <3>3, <3>4, StillPrivate
    <3>. QED  BY <3>1, <3>5
  <2>. QED  BY <1>2, <2>1, <2>2, MissingChainIs
<1>10. p.entry = Entry(s) /\ p.store = Store(s)
  BY DEF PlanOf
<1>. HIDE DEF p
<1>11. ASSUME NEW q \in Range(p.finals)
       PROVE  q \in Seq(Component) /\ IsPrivate(s, q)
  <2>1. /\ q \in Seq(Component)
        /\ q = Mounted(s) \/ \E i \in 1..Len(Creates(s)) : q = Creates(s)[i]
    BY <1>8, <1>9, FinalsAre DEF p
  <2>. QED  BY <1>8, <1>9, <2>1
<1>12. \A q \in Range(p.finals) :
          \E r \in p.resources : r.access = "mutate" /\ Logical(r) = EntryKey(Temporary(s, q))
  BY <1>8, <1>9, FinalsAre DEF p
<1>13. Granted(s, p)
  BY <1>2, <1>3, <1>4, <1>5, <1>6, <1>7, <1>10, <1>11, <1>12 DEF Granted
<1>. QED  BY <1>13 DEF p

LEMMA OmpGrants ==
  ASSUME cast \in Casts, LayoutInv, NEW s \in Session, cast[s].adapter = "omp"
  PROVE  Granted(s, PlanOf(s))
<1>. DEFINE p == PlanOf(s)
            private == Private(s)
            entry == Shared("entry", "mutate", private)
            backing == Shared("store", "mutate", private)
<1>1. /\ Entry(s) = private /\ Store(s) = private /\ Creates(s) = <<private>>
      /\ private \in Seq(Component) /\ s \in Component
  BY CastFacts, PrivateFacts DEF Entry, Store, Creates
<1>2. {entry, backing} \subseteq p.resources
  <2>1. {entry, backing} \subseteq Resources(s)
    BY DEF Resources, OmpResources
  <2>. QED  BY <2>1 DEF PlanOf
<1>. HIDE DEF private
<1>3. /\ entry.kind = "entry" /\ entry.access = "mutate" /\ entry.anchor \o entry.suffix = private
      /\ backing.kind = "store" /\ backing.access = "mutate"
      /\ backing.anchor \o backing.suffix = private
  BY <1>1, SharedAsGiven DEF Shared, Describe
<1>. HIDE DEF entry, backing
<1>4. \A q : Spelling(s, q) = q
  BY DEF Spelling
<1>5. Grants(entry, s, private) /\ Grants(backing, s, private)
  BY <1>1, <1>3, <1>4, PrefixOfItself DEF Grants
<1>6. Mounted(s) \in Seq(Component) /\ Grants(entry, s, Mounted(s))
  <2>1. IsPrefix(private, Mounted(s)) /\ Mounted(s) \in Seq(Component)
    BY <1>1, MountedAfterStore, PrefixByComponents
  <2>. QED  BY <2>1, <1>3, <1>4 DEF Grants
<1>7. Creates(s) \in Seq(Seq(Component)) /\ \A i \in 1..Len(Creates(s)) : Creates(s)[i] = private
  BY <1>1
<1>8. p.entry = private /\ p.store = private
  BY <1>1 DEF PlanOf
<1>. HIDE DEF p
<1>9. ASSUME NEW q \in Range(p.finals)
      PROVE  q \in Seq(Component) /\ \E r \in p.resources : Grants(r, s, q)
  <2>1. q \in Seq(Component) /\ q \in {Mounted(s), private}
    BY <1>6, <1>7, FinalsAre DEF p
  <2>. QED  BY <1>2, <1>5, <1>6, <2>1
<1>10. \A q \in Range(p.finals) :
          \E r \in p.resources : r.access = "mutate" /\ Logical(r) = EntryKey(Temporary(s, q))
  BY <1>6, <1>7, FinalsAre DEF p
<1>11. Granted(s, p)
  BY <1>1, <1>2, <1>3, <1>5, <1>8, <1>9, <1>10 DEF Granted
<1>. QED  BY <1>11 DEF p

LEMMA PlansGrant ==
  ASSUME cast \in Casts, LayoutInv, NEW s \in Session
  PROVE  Granted(s, PlanOf(s))
  BY CastFacts, CodexGrants, ClaudeGrants, StagingGrants, OmpGrants DEF Adapters

----------------------------------------------------------------------------
(* The invariant of plans.                                                 *)

PlanInv ==
    /\ cast \in Casts
    /\ DOMAIN pc = Session /\ DOMAIN plan = Session /\ DOMAIN own = Session
    /\ LayoutInv
    /\ \A s \in Session : pc[s] # "internal error"
    /\ \A s \in Session : Settled(s) => Granted(s, plan[s])

LEMMA InitPlans == Init => PlanInv
<1>. SUFFICES ASSUME Init PROVE PlanInv
  OBVIOUS
<1>1. LayoutInv
  BY DEF Init, LayoutInv
<1>. QED  BY <1>1 DEF Init, PlanInv, Settled, Using

\* What a plan grants depends on the links and the adapters, which are fixed.
LEMMA GrantsLast ==
  ASSUME NEW s \in Session, Granted(s, plan[s]), cast' = cast, links' = links,
         plan'[s] = plan[s]
  PROVE  Granted(s, plan[s])'
  BY DEF Granted, Grants, Spelling, Canonical, Canon, IsPrivate

\* No session errs, and only a settled one is settled afterwards.
Continues ==
    \A s \in Session : pc'[s] # "internal error" /\ (Settled(s)' => Settled(s))

LEMMA StepKeepsPlans ==
  ASSUME PlanInv, cast' = cast, links' = links, plan' = plan,
         LayoutInv', DOMAIN own' = Session, DOMAIN pc' = Session, Continues
  PROVE  PlanInv'
<1>1. /\ cast' \in Casts /\ DOMAIN pc' = Session /\ DOMAIN plan' = Session
      /\ \A v \in Session : pc'[v] # "internal error"
  BY DEF PlanInv, Continues
<1>2. ASSUME NEW v \in Session, Settled(v)' PROVE Settled(v)
  BY <1>2 DEF Continues
<1>3. ASSUME NEW v \in Session, Settled(v)' PROVE Granted(v, plan[v])'
  BY <1>2, <1>3, GrantsLast DEF PlanInv
<1>. QED  BY <1>1, <1>3 DEF PlanInv

LEMMA LayoutStays ==
  ASSUME PlanInv, UNCHANGED <<links, own>>, dirs \subseteq dirs'
  PROVE  LayoutInv' /\ DOMAIN own' = Session
  BY DEF PlanInv, LayoutInv

LEMMA NextKeepsPlans ==
  ASSUME PlanInv, [Next]_vars
  PROVE  PlanInv'
<1>. USE DEF At, files
<1>1. CASE UNCHANGED vars
  <2>1. LayoutInv'
    BY <1>1, LayoutStays DEF vars
  <2>2. \A s \in Session : Settled(s)' => Granted(s, plan[s])'
    BY <1>1, GrantsLast DEF vars, PlanInv, Settled, Using
  <2>. QED  BY <1>1, <2>1, <2>2 DEF vars, PlanInv
<1>2. ASSUME NEW s \in Session, Prepare(s) PROVE PlanInv'
  <2>1. LayoutInv' /\ DOMAIN own' = Session
    BY <1>2, LayoutStays DEF Prepare
  <2>2. DOMAIN pc' = Session /\ Continues
    BY <1>2 DEF Prepare, PlanInv, Continues, Settled, Using
  <2>. QED  BY <1>2, <2>1, <2>2, StepKeepsPlans DEF Prepare
<1>3. ASSUME NEW s \in Session,
             Inspect(s) \/ Acquire(s) \/ Expand(s) \/ Refuse(s) \/ Release(s)
      PROVE  PlanInv'
  <2>1. LayoutInv' /\ DOMAIN own' = Session
    BY <1>3, LayoutStays DEF Inspect, Acquire, Expand, Refuse, Release
  <2>2. PICK to \in {"waiting", "inspecting", "ended"} : pc' = [pc EXCEPT ![s] = to]
    BY <1>3 DEF Inspect, Acquire, Expand, Refuse, Release
  <2>3. DOMAIN pc' = Session /\ Continues
    BY <2>2 DEF PlanInv, Continues, Settled, Using
  <2>4. cast' = cast /\ links' = links /\ plan' = plan
    BY <1>3 DEF Inspect, Acquire, Expand, Refuse, Release
  <2>. QED  BY <2>1, <2>3, <2>4, StepKeepsPlans
<1>4. ASSUME NEW s \in Session, Stabilize(s) PROVE PlanInv'
  <2>1. LayoutInv' /\ DOMAIN own' = Session
    BY <1>4, LayoutStays DEF Stabilize
  <2>2. /\ cast' = cast /\ links' = links
        /\ DOMAIN pc' = Session /\ DOMAIN plan' = Session
        /\ \A v \in Session : pc'[v] # "internal error"
        /\ plan'[s] = PlanOf(s)
        /\ \A v \in Session \ {s} : plan'[v] = plan[v] /\ (Settled(v)' => Settled(v))
    BY <1>4 DEF Stabilize, PlanInv, Settled, Using
  <2>3. Granted(s, PlanOf(s))
    BY PlansGrant DEF PlanInv
  <2>4. Granted(s, plan[s])'
    BY <2>2, <2>3 DEF Granted, Grants, Spelling, Canonical, Canon, IsPrivate
  <2>5. ASSUME NEW v \in Session, Settled(v)' PROVE Granted(v, plan[v])'
    BY <2>2, <2>4, <2>5, GrantsLast DEF PlanInv
  <2>. QED  BY <2>1, <2>2, <2>5 DEF PlanInv
<1>5. ASSUME NEW s \in Session, Open(s) PROVE PlanInv'
  <2>1. LayoutInv' /\ DOMAIN own' = Session
    BY <1>5, LayoutStays DEF Open
  <2>2. Settled(s)
    BY <1>5 DEF Open, Settled
  <2>3. Authorized(s, plan[s])
    BY <2>2, GrantedIsAuthorized DEF PlanInv, Decodes
  <2>4. DOMAIN pc' = Session /\ Continues
    BY <1>5, <2>2, <2>3 DEF Open, PlanInv, Continues, Settled, Using
  <2>. QED  BY <1>5, <2>1, <2>4, StepKeepsPlans DEF Open
<1>6. ASSUME NEW s \in Session, CreateDirectory(s) PROVE PlanInv'
  <2>. DEFINE d == Place(NextFinal(s))
  <2>1. d \notin dirs /\ dirs' = dirs \cup {d} /\ own' = [own EXCEPT ![s] = @ \cup {d}]
        /\ UNCHANGED <<cast, links, pc, plan>>
    BY <1>6 DEF CreateDirectory, Applicable, Occupied
  <2>. HIDE DEF d
  <2>2. LayoutInv' /\ DOMAIN own' = Session
    BY <2>1 DEF PlanInv, LayoutInv
  <2>3. DOMAIN pc' = Session /\ Continues
    BY <2>1 DEF PlanInv, Continues, Settled, Using
  <2>. QED  BY <2>1, <2>2, <2>3, StepKeepsPlans
<1>7. ASSUME NEW s \in Session, RemoveDirectory(s) PROVE PlanInv'
  <2>1. PICK d \in own[s] :
          /\ own' = [own EXCEPT ![s] = @ \ {d}]
          /\ dirs' = dirs \/ dirs' = dirs \ {d}
          /\ UNCHANGED <<cast, links, pc, plan>>
    BY <1>7 DEF RemoveDirectory
  <2>2. LayoutInv' /\ DOMAIN own' = Session
    BY <2>1 DEF PlanInv, LayoutInv
  <2>3. DOMAIN pc' = Session /\ Continues
    BY <2>1 DEF PlanInv, Continues, Settled, Using
  <2>. QED  BY <2>1, <2>2, <2>3, StepKeepsPlans
<1>8. ASSUME NEW s \in Session, Mount(s) \/ Roll(s) \/ Unmount(s) PROVE PlanInv'
  <2>1. LayoutInv' /\ DOMAIN own' = Session
    BY <1>8, LayoutStays DEF Mount, Roll, Unmount
  <2>2. Settled(s)
    BY <1>8 DEF Mount, Roll, Unmount, Settled, Using
  <2>3. DOMAIN pc' = Session /\ Continues
    BY <1>8, <2>2 DEF Mount, Roll, Unmount, PlanInv, Continues, Settled, Using
  <2>. QED  BY <1>8, <2>1, <2>3, StepKeepsPlans DEF Mount, Roll, Unmount
<1>. QED
  BY <1>1, <1>2, <1>3, <1>4, <1>5, <1>6, <1>7, <1>8 DEF Next

\* For any sessions, casts, directories and links: opening never ends in the internal
\* error, and what a session at work recorded covers every path it owns, whatever
\* directories appear and go after it planned. (required_mutation_resources,
\* transaction/mod.rs:325; validate, journal/mod.rs:755)
THEOREM EveryPathIsCovered == Spec => []EveryOwnedPathIsCovered
<1>1. PlanInv /\ [Next]_vars => PlanInv'
  BY NextKeepsPlans
<1>2. PlanInv => EveryOwnedPathIsCovered
  BY GrantedIsAuthorized DEF PlanInv, Settled, EveryOwnedPathIsCovered
<1>. QED  BY <1>1, <1>2, InitPlans, PTL DEF Spec
=============================================================================
