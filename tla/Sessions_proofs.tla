-------------------------- MODULE Sessions_proofs --------------------------
(***************************************************************************)
(* For any number of processes, keys, layouts, passes and crashes: only    *)
(* the journals of dead sessions are recovered, each by one process at a   *)
(* time; no plan is stale when a session acts on it; and nobody waits for  *)
(* a lock while it holds a later one.                                      *)
(***************************************************************************)
EXTENDS Sessions, WellFoundedInduction, TLAPS

Labels == {"preflight", "preload", "acquire", "list", "load", "claim", "probe", "try", "reload",
           "retake", "recover", "plan", "check", "open", "session", "cleanup", "release",
           "done", "refused", "crashed"}

TypeInv ==
    /\ role \in [Ids -> Roles]
    /\ pc \in [Ids -> Labels]
    /\ held \in [Ids -> Requests] /\ extra \in [Ids -> Requests]
    /\ goal \in [Ids -> Requests] /\ required \in [Ids -> Requests]
    /\ need \in [Ids -> Requests] /\ again \in [Ids -> Requests]
    /\ listed \in [Ids -> SUBSET Ids] /\ claimed \in [Ids -> SUBSET Ids]
    /\ expected \in [Ids -> SUBSET Ids] /\ refusing \in [Ids -> BOOLEAN]
    /\ journal \in [Ids -> JournalStatus] /\ recorded \in [Ids -> Requests]
    /\ dirty \in [Ids -> SUBSET Keys]

\* The operating system never grants two processes what excludes each other.
Exclusive ==
    \A s, t \in Ids, k \in Keys : s # t =>
        /\ ~Conflict(held[s][k], held[t][k])
        /\ ~Conflict(extra[s][k], held[t][k])
        /\ ~Conflict(extra[s][k], extra[t][k])

\* Where a session is from the moment others can list its journal.
Launched == {"session", "cleanup", "release", "done", "crashed"}

\* A journal belongs to a session that is dead, or that works under locks which
\* satisfy what the journal recorded.
OwnInv(s) ==
    /\ journal[s] # "none" =>
        pc[s] \in {"session", "cleanup", "crashed"} /\ CoversOwned(recorded[s])
    /\ pc[s] \in {"check", "open"} => need[s] \in Layouts[s]
    /\ pc[s] \in {"open", "session", "cleanup"} => HoldsAll(held[s], need[s])
    /\ pc[s] \in {"session", "cleanup"} => recorded[s] = need[s]

\* What a scan listed has been launched, so that its recorded locks are settled;
\* a candidate is reloaded only under them all.
ScanInv(s) ==
    /\ \A t \in listed[s] : pc[t] \in Launched
    /\ pc[s] \in {"probe", "try", "reload", "retake"} => listed[s] # {}
    /\ pc[s] = "reload" => HoldsAll(held[s], Wanted(s))
    /\ pc[s] = "retake" => HoldsAll(goal[s], Wanted(s))
    /\ pc[s] = "try" => \A k \in Missing(held[s], Wanted(s)) : held[s][k] = 0
    /\ pc[s] \notin {"probe", "try"} => extra[s] = NoLocks
    /\ pc[s] \in {"probe", "try"} => \A k \in Keys : extra[s][k] \in {0, Wanted(s)[k]}

Claiming == {"claim", "probe", "try", "reload", "recover"}

\* What is claimed is dead for good, and while it may be recovered all its locks
\* are held; across the gap of an operator they are what it takes again.
ClaimInv(s) ==
    /\ \A t \in claimed[s] : pc[t] = "crashed"
    /\ pc[s] \in Claiming =>
        \A t \in claimed[s] : HoldsAll(held[s], recorded[t]) /\ journal[t] # "none"
    /\ pc[s] = "retake" => \A t \in claimed[s] : HoldsAll(goal[s], recorded[t])
    /\ role[s] = "operator" => \A t \in claimed[s] : HoldsAll(required[s], recorded[t])

\* Nobody changed a resource that is locked since the session planned.
PlanInv(s) ==
    pc[s] \in {"check", "open", "session", "cleanup"} => \A k \in dirty[s] : held[s][k] = 0

OrderInv(s) ==
    /\ pc[s] \in {"preflight", "preload"} => held[s] = NoLocks /\ claimed[s] = {}
    /\ pc[s] = "acquire" => \A k \in Lacking(s), l \in Held(held[s]) : l < k

Process(s) == OwnInv(s) /\ ScanInv(s) /\ ClaimInv(s) /\ PlanInv(s) /\ OrderInv(s)

SessionsInv == TypeInv /\ Exclusive /\ \A s \in Ids : Process(s)

-----------------------------------------------------------------------------
(* What the helpers return.                                                *)

LEMMA FirstIsLeast ==
  ASSUME NEW T, T \subseteq Nat, T # {}
  PROVE  First(T) \in T /\ \A l \in T : First(T) <= l
<1> DEFINE less == OpToRel(<, Nat)
<1>1. IsWellFoundedOn(less, Nat)
  BY NatLessThanWellFounded
<1>2. \A x, y \in Nat : x < y => <<x, y>> \in less
  BY DEF OpToRel
<1> HIDE DEF less
<1>3. PICK x \in T : \A y \in T : ~(<<y, x>> \in less)
  BY <1>1, WFMin
<1>4. ASSUME NEW y \in T PROVE x <= y
  <2>1. x \in Nat /\ y \in Nat
    OBVIOUS
  <2>2. ~(y < x)
    BY <1>2, <1>3, <2>1
  <2>. QED
    BY <2>1, <2>2
<1>. QED
  BY <1>4 DEF First

LEMMA UnionIsRequest ==
  ASSUME NEW q \in Requests, NEW r \in Requests
  PROVE  /\ Union(q, r) \in Requests
         /\ \A k \in Keys : Union(q, r)[k] \in {q[k], r[k]}
         /\ HoldsAll(Union(q, r), q) /\ HoldsAll(Union(q, r), r)
<1>1. \A k \in Keys : /\ q[k] \in Access /\ r[k] \in Access
                     /\ Union(q, r)[k] = IF q[k] < r[k] THEN r[k] ELSE q[k]
  BY DEF Union, Requests
<1>2. Union(q, r) \in Requests
  BY <1>1 DEF Union, Requests
<1>. QED
  BY <1>1, <1>2 DEF HoldsAll, Missing, Access

LEMMA HoldsAllIsTransitive ==
  ASSUME NEW p \in Requests, NEW q \in Requests, NEW r \in Requests,
         HoldsAll(p, q), HoldsAll(q, r)
  PROVE  HoldsAll(p, r)
  BY DEF Requests, Access, HoldsAll, Missing

LEMMA GrantIsRequest ==
  ASSUME NEW h \in Requests, NEW r \in Requests, NEW k \in Keys
  PROVE  /\ Grant(h, k, r) \in Requests
         /\ \A l \in Keys : Grant(h, k, r)[l] = IF l = k THEN r[k] ELSE h[l]
  BY DEF Grant, Requests

LEMMA NoLocksIsRequest == NoLocks \in Requests /\ \A k \in Keys : NoLocks[k] = 0
  BY DEF NoLocks, Requests, Access

\* Two processes that both hold what a journal recorded would exclude each other.
LEMMA OwnedIsHeldOnce ==
  ASSUME TypeInv, Exclusive, NEW s \in Ids, NEW t \in Ids, s # t,
         NEW r \in Requests, CoversOwned(r), HoldsAll(held[s], r)
  PROVE  ~HoldsAll(held[t], r)
<1>1. PICK k \in Keys : r[k] = Mutate
  BY DEF CoversOwned
<1>2. held[s][k] \in Access /\ held[t][k] \in Access
  BY DEF TypeInv, Requests
<1>3. held[s][k] = Mutate
  BY <1>1, <1>2 DEF HoldsAll, Missing, Access, Mutate
<1>. QED
  BY <1>1, <1>2, <1>3 DEF Exclusive, Conflict, HoldsAll, Missing, Access, Mutate

-----------------------------------------------------------------------------
(* What a step of one process leaves to the others.                        *)

Others(s) ==
    \A t \in Ids \ {s} :
        /\ pc'[t] = pc[t] /\ held'[t] = held[t] /\ extra'[t] = extra[t]
        /\ goal'[t] = goal[t] /\ required'[t] = required[t] /\ need'[t] = need[t]
        /\ listed'[t] = listed[t] /\ claimed'[t] = claimed[t]

\* A step of one process preserves the invariant when what it changes under the
\* others' feet, a journal or a resource, is locked: all they know of it still holds.
LEMMA StepPreserves ==
  ASSUME SessionsInv, NEW s \in Ids, Others(s), pc[s] # "crashed",
         pc[s] \in Launched => pc'[s] \in Launched,
         TypeInv', Exclusive', Process(s)', role' = role,
         \A u \in Ids \ {s} :
            \/ journal'[u] = journal[u]
            \/ journal'[u] = "none" /\ HoldsAll(held[s], recorded[u]),
         \A u \in Ids \ {s} : recorded'[u] = recorded[u],
         recorded'[s] = recorded[s] \/ pc[s] \notin Launched,
         \A u \in Ids \ {s} : \A k \in dirty'[u] \ dirty[u] : held[u][k] = 0
  PROVE  SessionsInv'
<1>1. SUFFICES ASSUME NEW t \in Ids, t # s PROVE Process(t)'
  BY DEF SessionsInv
<1>2. /\ pc'[t] = pc[t] /\ held'[t] = held[t] /\ extra'[t] = extra[t]
      /\ goal'[t] = goal[t] /\ required'[t] = required[t] /\ need'[t] = need[t]
      /\ listed'[t] = listed[t] /\ claimed'[t] = claimed[t]
  BY <1>1 DEF Others
<1>3. /\ \A u \in Ids : pc[u] \in Launched => pc'[u] \in Launched
      /\ \A u \in Ids : pc[u] = "crashed" => pc'[u] = "crashed"
  BY DEF Others
<1>4. Process(t) /\ listed[t] \subseteq Ids /\ claimed[t] \subseteq Ids
  BY DEF SessionsInv, TypeInv
<1>5. OwnInv(t)'
  BY <1>1, <1>2, <1>4 DEF Process, OwnInv
<1>6. ScanInv(t)'
  <2>1. \A u \in listed[t] : pc[u] \in Launched /\ recorded'[u] = recorded[u]
    BY <1>4 DEF Process, ScanInv
  <2>2. listed[t] # {} => Candidate(t) \in listed[t] /\ Candidate(t)' = Candidate(t)
    BY <1>2, <1>4, FirstIsLeast DEF Candidate, Ids
  <2>3. listed[t] # {} => Wanted(t)' = Wanted(t)
    BY <2>1, <2>2 DEF Wanted
  <2>4. /\ \A u \in listed'[t] : pc'[u] \in Launched
        /\ pc'[t] \in {"probe", "try", "reload", "retake"} => listed'[t] # {}
    BY <1>2, <1>3, <1>4 DEF Process, ScanInv
  <2>5. CASE pc[t] \in {"probe", "try", "reload", "retake"}
    BY <1>2, <1>4, <2>3, <2>4, <2>5 DEF Process, ScanInv
  <2>6. CASE pc[t] \notin {"probe", "try", "reload", "retake"}
    BY <1>2, <1>4, <2>4, <2>6 DEF Process, ScanInv
  <2>. QED
    BY <2>5, <2>6
<1>7. ClaimInv(t)'
  <2>1. \A u \in claimed[t] : u \in Ids \ {s} /\ pc[u] = "crashed" /\ recorded'[u] = recorded[u]
    BY <1>4 DEF Process, ClaimInv
  <2>2. ASSUME NEW u \in claimed[t], pc[t] \in Claiming PROVE journal'[u] # "none"
    <3>1. /\ u \in Ids \ {s} /\ recorded[u] \in Requests
          /\ HoldsAll(held[t], recorded[u]) /\ journal[u] # "none"
      BY <1>4, <2>1, <2>2 DEF Process, ClaimInv, SessionsInv, TypeInv
    <3>2. CoversOwned(recorded[u])
      BY <3>1 DEF SessionsInv, Process, OwnInv
    <3>3. ~HoldsAll(held[s], recorded[u])
      BY <1>1, <3>1, <3>2, OwnedIsHeldOnce DEF SessionsInv
    <3>. QED
      BY <3>1, <3>3
  <2>. QED
    BY <1>2, <1>3, <1>4, <2>1, <2>2 DEF Process, ClaimInv
<1>8. PlanInv(t)' /\ OrderInv(t)'
  BY <1>1, <1>2, <1>4 DEF Process, PlanInv, OrderInv, Lacking
<1>. QED
  BY <1>5, <1>6, <1>7, <1>8 DEF Process

\* Giving locks up, or folding the immediate ones into the held, excludes nobody.
LEMMA KeepsExclusive ==
  ASSUME TypeInv, Exclusive, NEW s \in Ids, Others(s),
         \A k \in Keys : /\ held'[s][k] \in {0, held[s][k], extra[s][k]}
                        /\ extra'[s][k] \in {0, extra[s][k]}
  PROVE  Exclusive'
<1>1. SUFFICES ASSUME NEW t \in Ids, NEW u \in Ids, NEW k \in Keys, t # u
               PROVE  /\ ~Conflict(held'[t][k], held'[u][k])
                      /\ ~Conflict(extra'[t][k], held'[u][k])
                      /\ ~Conflict(extra'[t][k], extra'[u][k])
  BY DEF Exclusive
<1>2. \A v \in Ids : /\ held'[v][k] \in {0, held[v][k], extra[v][k]}
                    /\ extra'[v][k] \in {0, extra[v][k]}
  BY DEF Others
<1>3. /\ ~Conflict(held[t][k], held[u][k])
      /\ ~Conflict(extra[t][k], held[u][k])
      /\ ~Conflict(extra[u][k], held[t][k])
      /\ ~Conflict(extra[t][k], extra[u][k])
  BY <1>1 DEF Exclusive
<1>. QED
  BY <1>2, <1>3 DEF Conflict

\* A lock is granted only where nobody else's excludes it.
LEMMA GrantKeepsExclusive ==
  ASSUME TypeInv, Exclusive, NEW s \in Ids, Others(s),
         NEW key \in Keys, NEW a \in Access, Free(s, key, a),
         \A k \in Keys \ {key} : held'[s][k] = held[s][k] /\ extra'[s][k] = extra[s][k],
         held'[s][key] \in {held[s][key], a}, extra'[s][key] \in {extra[s][key], a}
  PROVE  Exclusive'
<1>1. SUFFICES ASSUME NEW t \in Ids, NEW u \in Ids, NEW k \in Keys, t # u
               PROVE  /\ ~Conflict(held'[t][k], held'[u][k])
                      /\ ~Conflict(extra'[t][k], held'[u][k])
                      /\ ~Conflict(extra'[t][k], extra'[u][k])
  BY DEF Exclusive
<1>2. /\ ~Conflict(held[t][k], held[u][k])
      /\ ~Conflict(extra[t][k], held[u][k])
      /\ ~Conflict(extra[u][k], held[t][k])
      /\ ~Conflict(extra[t][k], extra[u][k])
  BY <1>1 DEF Exclusive
<1>3. \A v \in Ids \ {s} : held'[v][k] = held[v][k] /\ extra'[v][k] = extra[v][k]
  BY DEF Others
<1>4. \A v \in Ids \ {s} : ~Conflict(a, held[v][key]) /\ ~Conflict(a, extra[v][key])
  BY DEF Free
<1>5. CASE k # key
  BY <1>2, <1>3, <1>5
<1>6. CASE k = key /\ t = s
  BY <1>1, <1>2, <1>3, <1>4, <1>6 DEF Conflict
<1>7. CASE k = key /\ u = s
  BY <1>1, <1>2, <1>3, <1>4, <1>7 DEF Conflict
<1>8. CASE k = key /\ t # s /\ u # s
  BY <1>2, <1>3, <1>8
<1>. QED
  BY <1>5, <1>6, <1>7, <1>8

\* A process that ends before it launched, whatever it was doing.
LEMMA RefusalPreserves ==
  ASSUME SessionsInv, NEW s \in Ids, pc[s] \notin Launched, Refuse(s),
         UNCHANGED <<role, plans, control, durable, dirty>>
  PROVE  SessionsInv'
<1> USE DEF Refuse, To, Drop, plans, control, durable
<1>1. TypeInv'
  BY NoLocksIsRequest DEF SessionsInv, TypeInv, Labels
<1>2. Others(s) /\ pc'[s] = "refused" /\ held'[s] = NoLocks /\ extra'[s] = NoLocks
  BY DEF Others, SessionsInv, TypeInv
<1>3. Exclusive'
  BY <1>2, NoLocksIsRequest, KeepsExclusive DEF SessionsInv
<1>4. Process(s)'
  <2>1. Process(s) /\ listed[s] \subseteq Ids /\ claimed[s] \subseteq Ids
    BY DEF SessionsInv, TypeInv
  <2>2. OwnInv(s)'
    BY <1>2, <2>1 DEF Process, OwnInv, Launched
  <2>3. ScanInv(s)' /\ ClaimInv(s)'
    BY <1>2, <2>1 DEF Process, ScanInv, ClaimInv, Others, Claiming, Launched
  <2>. QED
    BY <1>2, <2>2, <2>3 DEF Process, PlanInv, OrderInv
<1>. QED
  BY <1>1, <1>2, <1>3, <1>4, StepPreserves DEF Launched

LEMMA CrashPreserves ==
  ASSUME SessionsInv, NEW s \in Ids, Crash(s), UNCHANGED role
  PROVE  SessionsInv'
<1> USE DEF Crash, To, Drop, plans, control, durable
<1>1. TypeInv'
  BY NoLocksIsRequest DEF SessionsInv, TypeInv, Labels
<1>2. /\ Others(s) /\ pc'[s] = "crashed" /\ held'[s] = NoLocks /\ extra'[s] = NoLocks
      /\ pc[s] # "crashed"
  BY DEF Others, SessionsInv, TypeInv, Ended
<1>3. Exclusive'
  BY <1>2, NoLocksIsRequest, KeepsExclusive DEF SessionsInv
<1>4. Process(s)'
  <2>1. Process(s) /\ listed[s] \subseteq Ids /\ claimed[s] \subseteq Ids
    BY DEF SessionsInv, TypeInv
  <2>2. OwnInv(s)'
    BY <1>2, <2>1 DEF Process, OwnInv
  <2>3. ScanInv(s)' /\ ClaimInv(s)'
    BY <1>2, <2>1 DEF Process, ScanInv, ClaimInv, Others, Claiming, Launched
  <2>. QED
    BY <1>2, <2>2, <2>3 DEF Process, PlanInv, OrderInv
<1>. QED
  BY <1>1, <1>2, <1>3, <1>4, StepPreserves DEF Launched

-----------------------------------------------------------------------------
(* One lemma per action.                                                   *)

LEMMA InitEstablishes == Init => SessionsInv
<1> SUFFICES ASSUME Init PROVE SessionsInv
  OBVIOUS
<1> USE NoLocksIsRequest DEF Init, All
<1>1. \A s \in Ids : \A r \in Layouts[s] : r \in Requests /\ CoversOwned(r)
  BY RequestAssumption
<1>2. TypeInv
  <2>1. role \in [Ids -> Roles] /\ pc \in [Ids -> Labels]
    BY SAssumption DEF Labels
  <2>2. goal \in [Ids -> Requests] /\ required \in [Ids -> Requests]
    BY RequestAssumption
  <2>3. recorded \in [Ids -> Requests]
    BY <1>1
  <2>. QED
    BY <2>1, <2>2, <2>3 DEF TypeInv
<1>3. Exclusive
  BY DEF Exclusive, Conflict
<1>4. ASSUME NEW s \in Ids PROVE Process(s)
  <2>1. pc[s] = IF role[s] = "dead" THEN "crashed"
                ELSE IF role[s] = "finished" THEN "done" ELSE "preflight"
    OBVIOUS
  <2>2. OwnInv(s)
    BY <1>1, <2>1 DEF OwnInv
  <2>. QED
    BY <2>1, <2>2 DEF Process, ScanInv, ClaimInv, PlanInv, OrderInv, Claiming
<1>. QED
  BY <1>2, <1>3, <1>4 DEF SessionsInv

LEMMA TakeNextPreserves ==
  ASSUME SessionsInv, NEW s \in Ids, TakeNext(s), UNCHANGED role
  PROVE  SessionsInv'
<1> USE DEF TakeNext, plans, control, durable
<1> DEFINE k == First(Lacking(s))
<1>1. /\ held[s] \in Requests /\ goal[s] \in Requests /\ Process(s)
      /\ Lacking(s) \subseteq Keys
  BY DEF SessionsInv, TypeInv, Lacking, Missing
<1>2. k \in Lacking(s) /\ \A l \in Lacking(s) : k <= l
  BY <1>1, FirstIsLeast DEF Keys
<1>3. held'[s] = Grant(held[s], k, goal[s]) /\ Free(s, k, goal[s][k])
  BY DEF SessionsInv, TypeInv
<1> HIDE DEF k
<1>4. /\ held'[s] \in Requests
      /\ \A l \in Keys : held'[s][l] = IF l = k THEN goal[s][k] ELSE held[s][l]
  <2>1. k \in Keys
    BY <1>1, <1>2
  <2>2. Grant(held[s], k, goal[s]) \in Requests
    BY <1>1, <2>1, GrantIsRequest
  <2>3. \A l \in Keys : Grant(held[s], k, goal[s])[l] = IF l = k THEN goal[s][k] ELSE held[s][l]
    BY <1>1, <2>1, GrantIsRequest
  <2>. QED
    BY <1>3, <2>2, <2>3
<1>5. TypeInv'
  BY <1>4 DEF SessionsInv, TypeInv
<1>6. Others(s)
  BY DEF SessionsInv, TypeInv, Others
<1>7. Exclusive'
  BY <1>1, <1>2, <1>3, <1>4, <1>6, GrantKeepsExclusive DEF SessionsInv, Requests
<1>8. OrderInv(s)'
  <2>1. Lacking(s)' = Lacking(s) \ {k}
    BY <1>1, <1>2, <1>4 DEF Lacking, Missing, Requests, Access
  <2>2. \A l \in Held(held'[s]) : l = k \/ l \in Held(held[s])
    BY <1>1, <1>4 DEF Held
  <2>3. \A l \in Lacking(s), o \in Held(held[s]) : o < l
    BY <1>1 DEF Process, OrderInv
  <2>4. ASSUME NEW l \in Lacking(s) \ {k}, NEW o \in Held(held'[s]) PROVE o < l
    <3>1. k \in Nat /\ l \in Nat /\ k # l /\ k <= l
      BY <1>1, <1>2 DEF Keys
    <3>. QED
      BY <2>2, <2>3, <3>1
  <2>. QED
    BY <2>1, <2>4 DEF OrderInv
<1>9. Process(s)'
  BY <1>1, <1>6, <1>8 DEF Process, OwnInv, ScanInv, ClaimInv, PlanInv, Claiming, Others,
                          Launched
<1>. QED
  BY <1>5, <1>6, <1>7, <1>9, StepPreserves DEF Launched

LEMMA AcquiredPreserves ==
  ASSUME SessionsInv, NEW s \in Ids, Acquired(s), UNCHANGED role
  PROVE  SessionsInv'
<1>1. CASE Refuse(s)
  BY <1>1, RefusalPreserves DEF Acquired, Launched
<1>2. CASE To(s, "list") /\ UNCHANGED locks
  <2> USE <1>2 DEF Acquired, To, locks, plans, control, durable
  <2>1. TypeInv' /\ Exclusive'
    BY DEF SessionsInv, TypeInv, Labels, Exclusive
  <2>2. Others(s) /\ pc'[s] = "list"
    BY DEF SessionsInv, TypeInv, Others
  <2>3. Process(s) /\ claimed[s] \subseteq Ids /\ listed[s] \subseteq Ids
    BY DEF SessionsInv, TypeInv
  <2>4. Process(s)'
    BY <2>2, <2>3 DEF Process, OwnInv, ScanInv, ClaimInv, PlanInv, OrderInv, Claiming, Others,
                      Launched
  <2>. QED
    BY <2>1, <2>2, <2>4, StepPreserves DEF Launched
<1>. QED
  BY <1>1, <1>2 DEF Acquired

LEMMA ListPreserves ==
  ASSUME SessionsInv, NEW s \in Ids, List(s), UNCHANGED role
  PROVE  SessionsInv'
<1> USE DEF List, To, locks, plans, durable
<1>1. TypeInv' /\ Exclusive'
  BY DEF SessionsInv, TypeInv, Labels, Exclusive, Present
<1>2. /\ Others(s) /\ listed'[s] = Present
      /\ pc'[s] = IF pc[s] = "preflight" THEN "preload" ELSE "load"
  BY DEF SessionsInv, TypeInv, Others
<1>3. Process(s) /\ claimed[s] \subseteq Ids
  BY DEF SessionsInv, TypeInv
<1>4. \A t \in Present : pc[t] \in Launched
  BY DEF Present, SessionsInv, Process, OwnInv, Launched
<1>5. ScanInv(s)'
  BY <1>2, <1>3, <1>4 DEF Process, ScanInv, Others, Launched, Present
<1>6. Process(s)'
  BY <1>2, <1>3, <1>5 DEF Process, OwnInv, ClaimInv, PlanInv, OrderInv, Claiming, Others
<1>. QED
  BY <1>1, <1>2, <1>6, StepPreserves DEF Launched

LEMMA LoadPreserves ==
  ASSUME SessionsInv, NEW s \in Ids, Load(s), UNCHANGED role
  PROVE  SessionsInv'
<1> USE DEF Load, plans, durable
<1>1. CASE Unreadable(s)
  BY <1>1, RefusalPreserves DEF control, Launched
<1>2. CASE ~Unreadable(s)
  <2> USE <1>2 DEF To, locks
  <2>1. TypeInv' /\ Exclusive'
    <3>1. pc' \in [Ids -> Labels]
      BY DEF SessionsInv, TypeInv, Labels
    <3>2. again' \in [Ids -> Requests]
      BY NoLocksIsRequest DEF SessionsInv, TypeInv
    <3>3. /\ claimed' \in [Ids -> SUBSET Ids] /\ expected' \in [Ids -> SUBSET Ids]
          /\ refusing' \in [Ids -> BOOLEAN]
      BY DEF SessionsInv, TypeInv
    <3>. QED
      BY <3>1, <3>2, <3>3 DEF SessionsInv, TypeInv, Exclusive
  <2>2. /\ Others(s) /\ claimed'[s] = {}
        /\ pc'[s] = IF pc[s] = "preload" THEN "acquire" ELSE "claim"
    BY DEF SessionsInv, TypeInv, Others
  <2>3. Process(s) /\ listed[s] \subseteq Ids
    BY DEF SessionsInv, TypeInv
  <2>4. ScanInv(s)' /\ ClaimInv(s)'
    BY <2>2, <2>3 DEF Process, ScanInv, ClaimInv, Others, Launched
  <2>5. OrderInv(s)'
    BY <2>2, <2>3, NoLocksIsRequest DEF Process, OrderInv, Held
  <2>6. Process(s)'
    BY <2>2, <2>3, <2>4, <2>5 DEF Process, OwnInv, PlanInv
  <2>. QED
    BY <2>1, <2>2, <2>6, StepPreserves DEF Launched
<1>. QED
  BY <1>1, <1>2

LEMMA CandidateIsListed ==
  ASSUME SessionsInv, NEW s \in Ids, listed[s] # {}
  PROVE  /\ Candidate(s) \in listed[s] /\ Candidate(s) \in Ids
         /\ pc[Candidate(s)] \in Launched
         /\ Wanted(s) \in Requests
<1>1. listed[s] \subseteq Ids /\ Ids \subseteq Nat
  BY DEF SessionsInv, TypeInv, Ids
<1>2. Candidate(s) \in listed[s]
  BY <1>1, FirstIsLeast DEF Candidate
<1>. QED
  BY <1>1, <1>2 DEF SessionsInv, Process, ScanInv, TypeInv, Wanted

\* Whoever holds all that a journal of someone else recorded deals with the dead.
LEMMA HolderMeetsTheDead ==
  ASSUME SessionsInv, NEW s \in Ids, NEW t \in Ids, s # t, journal[t] # "none",
         HoldsAll(held[s], recorded[t])
  PROVE  pc[t] = "crashed"
<1>1. OwnInv(t) /\ recorded[t] \in Requests
  BY DEF SessionsInv, TypeInv, Process
<1>2. SUFFICES ASSUME pc[t] \in {"session", "cleanup"} PROVE FALSE
  BY <1>1 DEF OwnInv
<1>3. HoldsAll(held[t], recorded[t]) /\ CoversOwned(recorded[t])
  BY <1>1, <1>2 DEF OwnInv
<1>. QED
  BY <1>1, <1>3, OwnedIsHeldOnce DEF SessionsInv

LEMMA ClaimPreserves ==
  ASSUME SessionsInv, NEW s \in Ids, Claim(s), UNCHANGED role
  PROVE  SessionsInv'
<1> USE DEF Claim, To, locks, plans, control, durable
<1>1. TypeInv' /\ Exclusive'
  BY DEF SessionsInv, TypeInv, Labels, Exclusive
<1>2. /\ Others(s) /\ UNCHANGED <<Wanted(s), held[s], extra[s], claimed[s], listed[s]>>
      /\ pc'[s] = IF HoldsAll(held[s], Wanted(s)) THEN "reload"
                  ELSE IF RequiresReacquire(held[s], Wanted(s)) THEN "probe" ELSE "try"
  BY DEF SessionsInv, TypeInv, Others, Wanted, Candidate
<1>3. Process(s) /\ listed[s] \subseteq Ids /\ claimed[s] \subseteq Ids
  BY DEF SessionsInv, TypeInv
<1>4. ASSUME ~RequiresReacquire(held[s], Wanted(s)), NEW k \in Missing(held[s], Wanted(s))
      PROVE  held[s][k] = 0
  <2>1. k \in Keys /\ k \in Nat /\ held[s][k] \in Access
    <3>1. held[s] \in Requests
      BY DEF SessionsInv, TypeInv
    <3>2. k \in Keys
      BY DEF Missing
    <3>3. held[s][k] \in Access
      BY <3>1, <3>2 DEF Requests
    <3>4. Keys \subseteq Nat
      BY DEF Keys
    <3>. QED
      BY <3>2, <3>3, <3>4
  <2>2. k \notin Held(held[s])
    BY <1>4, <2>1 DEF RequiresReacquire
  <2>. QED
    BY <2>1, <2>2 DEF Held, Access
<1>5. ScanInv(s)'
  <2>1. \A t \in listed'[s] : pc'[t] \in Launched
    BY <1>2, <1>3 DEF Process, ScanInv, Others, Launched
  <2>2. extra[s] = NoLocks
    BY <1>3 DEF Process, ScanInv
  <2>3. \A k \in Keys : extra'[s][k] = 0
    BY <1>2, <2>2, NoLocksIsRequest
  <2>4. pc'[s] = "try" => \A k \in Missing(held[s], Wanted(s)) : held[s][k] = 0
    BY <1>2, <1>4
  <2>5. pc'[s] = "reload" => HoldsAll(held[s], Wanted(s))
    BY <1>2
  <2>. QED
    BY <1>2, <2>1, <2>2, <2>3, <2>4, <2>5 DEF ScanInv
<1>6. Process(s)'
  BY <1>2, <1>3, <1>5 DEF Process, OwnInv, ClaimInv, PlanInv, OrderInv, Claiming, Others
<1>. QED
  BY <1>1, <1>2, <1>6, StepPreserves DEF Launched

LEMMA TakeImmediatelyPreserves ==
  ASSUME SessionsInv, NEW s \in Ids, TakeImmediately(s), UNCHANGED role
  PROVE  SessionsInv'
<1> USE DEF TakeImmediately, plans, control, durable
<1> DEFINE k == First(ToTake(s))
<1>1. /\ extra[s] \in Requests /\ Process(s) /\ ToTake(s) \subseteq Keys
      /\ listed[s] # {} /\ listed[s] \subseteq Ids /\ claimed[s] \subseteq Ids
  BY DEF SessionsInv, TypeInv, ToTake, Missing, Process, ScanInv
<1>2. k \in Keys
  BY <1>1, FirstIsLeast DEF Keys
<1>3. extra'[s] = Grant(extra[s], k, Wanted(s)) /\ Free(s, k, Wanted(s)[k])
  BY DEF SessionsInv, TypeInv
<1> HIDE DEF k
<1>4. Wanted(s) \in Requests /\ Wanted(s)' = Wanted(s)
  BY <1>1, CandidateIsListed DEF Wanted, Candidate
<1>5. /\ Grant(extra[s], k, Wanted(s)) \in Requests
      /\ \A l \in Keys :
             Grant(extra[s], k, Wanted(s))[l] = IF l = k THEN Wanted(s)[k] ELSE extra[s][l]
  BY <1>1, <1>2, <1>4, GrantIsRequest
<1>6. TypeInv'
  BY <1>3, <1>5 DEF SessionsInv, TypeInv
<1>7. Others(s)
  BY DEF SessionsInv, TypeInv, Others
<1>8. Exclusive'
  <2>1. Wanted(s)[k] \in Access
    BY <1>2, <1>4 DEF Requests
  <2>. QED
    BY <1>2, <1>3, <1>5, <1>7, <2>1, GrantKeepsExclusive DEF SessionsInv
<1>9. ScanInv(s)'
  <2>1. \A l \in Keys : extra'[s][l] \in {0, Wanted(s)[l]}
    BY <1>1, <1>3, <1>5 DEF Process, ScanInv
  <2>. QED
    BY <1>1, <1>4, <1>7, <2>1 DEF Process, ScanInv, Others
<1>10. Process(s)'
  BY <1>1, <1>7, <1>9 DEF Process, OwnInv, ClaimInv, PlanInv, OrderInv, Claiming, Others
<1>. QED
  BY <1>6, <1>7, <1>8, <1>10, StepPreserves DEF Launched

\* What a process settles leaves the list; the rest of the claims stands.
LEMMA BackToClaims ==
  ASSUME SessionsInv, NEW s \in Ids, Others(s), UNCHANGED <<held, journal, recorded>>,
         pc[s] \in {"probe", "try", "reload"}, pc'[s] = "claim",
         listed'[s] \subseteq listed[s], extra'[s] = NoLocks,
         UNCHANGED <<claimed, role, required>>
  PROVE  Process(s)'
<1>1. Process(s) /\ listed[s] \subseteq Ids /\ claimed[s] \subseteq Ids
  BY DEF SessionsInv, TypeInv
<1>2. OwnInv(s)' /\ PlanInv(s)' /\ OrderInv(s)'
  BY <1>1 DEF Process, OwnInv, PlanInv, OrderInv
<1>3. ScanInv(s)'
  BY <1>1 DEF Process, ScanInv, Others, Launched
<1>4. ClaimInv(s)'
  BY <1>1 DEF Process, ClaimInv, Others, Claiming
<1>. QED
  BY <1>2, <1>3, <1>4 DEF Process

LEMMA ContendedPreserves ==
  ASSUME SessionsInv, NEW s \in Ids, Contended(s), UNCHANGED role
  PROVE  SessionsInv'
<1> USE DEF Contended, Settled, To, plans, durable
<1>1. TypeInv'
  BY NoLocksIsRequest DEF SessionsInv, TypeInv, Labels
<1>2. /\ Others(s) /\ pc'[s] = "claim" /\ listed'[s] \subseteq listed[s]
      /\ extra'[s] = NoLocks
  BY DEF SessionsInv, TypeInv, Others
<1>3. Exclusive'
  BY <1>2, NoLocksIsRequest, KeepsExclusive DEF SessionsInv
<1>4. Process(s)'
  BY <1>2, BackToClaims
<1>. QED
  BY <1>1, <1>2, <1>3, <1>4, StepPreserves DEF Launched

LEMMA ProbedPreserves ==
  ASSUME SessionsInv, NEW s \in Ids, Probed(s), UNCHANGED role
  PROVE  SessionsInv'
<1> USE DEF Probed, Settled, To, plans, durable
<1>1. listed[s] # {} /\ again[s] \in Requests
  BY DEF SessionsInv, TypeInv, Process, ScanInv
<1>2. Union(again[s], Wanted(s)) \in Requests /\ Candidate(s) \in Ids
  BY <1>1, CandidateIsListed, UnionIsRequest
<1>3. TypeInv'
  <2>1. again' \in [Ids -> Requests] /\ expected' \in [Ids -> SUBSET Ids]
    BY <1>2 DEF SessionsInv, TypeInv
  <2>. QED
    BY <2>1, NoLocksIsRequest DEF SessionsInv, TypeInv, Labels
<1>4. /\ Others(s) /\ pc'[s] = "claim" /\ listed'[s] \subseteq listed[s]
      /\ extra'[s] = NoLocks
  BY DEF SessionsInv, TypeInv, Others
<1>5. Exclusive'
  BY <1>4, NoLocksIsRequest, KeepsExclusive DEF SessionsInv
<1>6. Process(s)'
  BY <1>4, BackToClaims
<1>. QED
  BY <1>3, <1>4, <1>5, <1>6, StepPreserves DEF Launched

LEMMA BlocksPreserves ==
  ASSUME SessionsInv, NEW s \in Ids, Blocks(s), UNCHANGED role
  PROVE  SessionsInv'
<1> USE DEF Blocks, Settled, To, plans, durable
<1>1. TypeInv'
  BY NoLocksIsRequest DEF SessionsInv, TypeInv, Labels
<1>2. /\ Others(s) /\ pc'[s] = "claim" /\ listed'[s] \subseteq listed[s]
      /\ extra'[s] = NoLocks
  BY DEF SessionsInv, TypeInv, Others
<1>3. Exclusive'
  BY <1>2, NoLocksIsRequest, KeepsExclusive DEF SessionsInv
<1>4. Process(s)'
  BY <1>2, BackToClaims
<1>. QED
  BY <1>1, <1>2, <1>3, <1>4, StepPreserves DEF Launched

LEMMA AbsorbPreserves ==
  ASSUME SessionsInv, NEW s \in Ids, Absorb(s), UNCHANGED role
  PROVE  SessionsInv'
<1> USE DEF Absorb, To, plans, control, durable
<1>1. /\ held[s] \in Requests /\ extra[s] \in Requests /\ Process(s)
      /\ listed[s] # {} /\ listed[s] \subseteq Ids /\ claimed[s] \subseteq Ids
  BY DEF SessionsInv, TypeInv, Process, ScanInv
<1>2. /\ Union(held[s], extra[s]) \in Requests
      /\ \A k \in Keys : Union(held[s], extra[s])[k] \in {held[s][k], extra[s][k]}
      /\ HoldsAll(Union(held[s], extra[s]), held[s])
      /\ HoldsAll(Union(held[s], extra[s]), extra[s])
  BY <1>1, UnionIsRequest
<1>3. /\ Others(s) /\ held'[s] = Union(held[s], extra[s]) /\ extra'[s] = NoLocks
      /\ pc'[s] = "reload"
  BY DEF SessionsInv, TypeInv, Others
<1>4. TypeInv'
  BY <1>2, NoLocksIsRequest DEF SessionsInv, TypeInv, Labels
<1>5. Exclusive'
  BY <1>2, <1>3, NoLocksIsRequest, KeepsExclusive DEF SessionsInv
<1>6. Wanted(s) \in Requests /\ Wanted(s)' = Wanted(s)
  BY <1>1, CandidateIsListed DEF Wanted, Candidate
<1>7. HoldsAll(held'[s], Wanted(s))
  <2>1. SUFFICES ASSUME NEW k \in Keys PROVE ~(held'[s][k] < Wanted(s)[k])
    BY DEF HoldsAll, Missing
  <2>2. /\ held[s][k] \in Access /\ extra[s][k] \in Access /\ Wanted(s)[k] \in Access
        /\ held'[s][k] \in Access
    BY <1>1, <1>2, <1>3, <1>6 DEF Requests
  <2>3. ~(held'[s][k] < held[s][k]) /\ ~(held'[s][k] < extra[s][k])
    BY <1>2, <1>3 DEF HoldsAll, Missing
  <2>4. CASE k \in Missing(held[s], Wanted(s))
    <3>1. extra[s][k] # 0 /\ extra[s][k] \in {0, Wanted(s)[k]}
      BY <1>1, <2>4 DEF Process, ScanInv, ToTake
    <3>. QED
      BY <2>3, <3>1
  <2>5. CASE k \notin Missing(held[s], Wanted(s))
    <3>1. ~(held[s][k] < Wanted(s)[k])
      BY <2>5 DEF Missing
    <3>. QED
      BY <2>2, <2>3, <3>1 DEF Access
  <2>. QED
    BY <2>4, <2>5
<1>8. ScanInv(s)'
  <2>1. \A t \in listed'[s] : pc'[t] \in Launched
    BY <1>1, <1>3 DEF Process, ScanInv, Others, Launched
  <2>. QED
    BY <1>1, <1>3, <1>6, <1>7, <2>1 DEF ScanInv
<1>9. ClaimInv(s)'
  <2>1. \A t \in claimed[s] : HoldsAll(held'[s], recorded[t])
    BY <1>1, <1>2, <1>3, HoldsAllIsTransitive DEF Process, ClaimInv, Claiming, SessionsInv,
                                                  TypeInv
  <2>. QED
    BY <1>1, <1>3, <2>1 DEF Process, ClaimInv, Claiming, Others
<1>10. Process(s)'
  BY <1>1, <1>3, <1>8, <1>9 DEF Process, OwnInv, PlanInv, OrderInv
<1>. QED
  BY <1>3, <1>4, <1>5, <1>10, StepPreserves DEF Launched

LEMMA ReloadPreserves ==
  ASSUME SessionsInv, NEW s \in Ids, Reload(s), UNCHANGED role
  PROVE  SessionsInv'
<1> USE DEF Reload, Settled, To, locks, plans, durable
<1> DEFINE c == Candidate(s)
<1>1. Process(s) /\ listed[s] # {} /\ listed[s] \subseteq Ids /\ claimed[s] \subseteq Ids
  BY DEF SessionsInv, TypeInv, Process, ScanInv
<1>2. /\ c \in listed[s] /\ c \in Ids /\ pc[c] \in Launched /\ c # s
      /\ HoldsAll(held[s], recorded[c])
  BY <1>1, CandidateIsListed DEF Process, ScanInv, Wanted, Launched
<1>3. journal[c] = "applied" => pc[c] = "crashed"
  BY <1>2, HolderMeetsTheDead
<1>4. /\ Others(s) /\ pc'[s] = "claim" /\ listed'[s] \subseteq listed[s]
      /\ extra' = extra /\ held' = held
      /\ claimed'[s] = IF journal[c] = "applied" THEN claimed[s] \cup {c} ELSE claimed[s]
  BY DEF SessionsInv, TypeInv, Others
<1> HIDE DEF c
<1>5. TypeInv' /\ Exclusive'
  <2>1. claimed' \in [Ids -> SUBSET Ids]
    BY <1>2 DEF SessionsInv, TypeInv, c
  <2>2. refusing' \in [Ids -> BOOLEAN]
    BY DEF SessionsInv, TypeInv
  <2>3. pc' \in [Ids -> Labels] /\ listed' \in [Ids -> SUBSET Ids]
    BY DEF SessionsInv, TypeInv, Labels
  <2>. QED
    BY <2>1, <2>2, <2>3 DEF SessionsInv, TypeInv, Exclusive
<1>6. ScanInv(s)'
  BY <1>1, <1>4 DEF Process, ScanInv, Others, Launched
<1>7. ClaimInv(s)'
  BY <1>1, <1>2, <1>3, <1>4 DEF Process, ClaimInv, Claiming, Others
<1>8. Process(s)'
  BY <1>1, <1>4, <1>6, <1>7 DEF Process, OwnInv, PlanInv, OrderInv
<1>. QED
  BY <1>4, <1>5, <1>8, StepPreserves DEF Launched

LEMMA LoadScopePreserves ==
  ASSUME SessionsInv, NEW s \in Ids, LoadScope(s), UNCHANGED role
  PROVE  SessionsInv'
<1> USE DEF LoadScope, plans, durable
<1>1. CASE Unreadable(s)
  BY <1>1, RefusalPreserves DEF control, Launched
<1>2. CASE ~Unreadable(s)
  <2> USE <1>2 DEF To, locks
  <2>1. PICK scope \in SUBSET listed[s] : listed' = [listed EXCEPT ![s] = scope]
    OBVIOUS
  <2>2. TypeInv' /\ Exclusive'
    BY <2>1 DEF SessionsInv, TypeInv, Labels, Exclusive
  <2>3. Others(s) /\ listed'[s] \subseteq listed[s] /\ pc'[s] = "claim"
    BY <2>1 DEF SessionsInv, TypeInv, Others
  <2>4. Process(s) /\ listed[s] \subseteq Ids /\ claimed[s] = {}
    BY DEF SessionsInv, TypeInv, Process, OrderInv
  <2>5. ScanInv(s)' /\ ClaimInv(s)'
    BY <2>3, <2>4 DEF Process, ScanInv, ClaimInv, Others, Launched
  <2>6. Process(s)'
    BY <2>3, <2>4, <2>5 DEF Process, OwnInv, PlanInv, OrderInv
  <2>. QED
    BY <2>2, <2>3, <2>6, StepPreserves DEF Launched
<1>. QED
  BY <1>1, <1>2

LEMMA DropClaimsPreserves ==
  ASSUME SessionsInv, NEW s \in Ids, DropClaims(s), UNCHANGED role
  PROVE  SessionsInv'
<1> USE DEF DropClaims, Drop, To, control, durable
<1>1. /\ Process(s) /\ listed[s] # {} /\ listed[s] \subseteq Ids /\ claimed[s] \subseteq Ids
      /\ required[s] \in Requests
  BY DEF SessionsInv, TypeInv, Process, ScanInv
<1>2. Wanted(s) \in Requests /\ Wanted(s)' = Wanted(s)
  BY <1>1, CandidateIsListed DEF Wanted, Candidate
<1>3. /\ Union(required[s], Wanted(s)) \in Requests
      /\ HoldsAll(Union(required[s], Wanted(s)), required[s])
      /\ HoldsAll(Union(required[s], Wanted(s)), Wanted(s))
  BY <1>1, <1>2, UnionIsRequest
<1>4. /\ Others(s) /\ goal'[s] = Union(required[s], Wanted(s)) /\ pc'[s] = "retake"
      /\ held'[s] = NoLocks /\ extra'[s] = NoLocks
  BY DEF SessionsInv, TypeInv, Others
<1>5. TypeInv'
  BY <1>3, NoLocksIsRequest DEF SessionsInv, TypeInv, Labels
<1>6. Exclusive'
  BY <1>4, NoLocksIsRequest, KeepsExclusive DEF SessionsInv
<1>7. ScanInv(s)'
  BY <1>1, <1>2, <1>3, <1>4 DEF Process, ScanInv, Others, Launched
<1>8. ClaimInv(s)'
  <2>1. \A t \in claimed[s] : HoldsAll(goal'[s], recorded[t])
    BY <1>1, <1>3, <1>4, HoldsAllIsTransitive DEF Process, ClaimInv, SessionsInv, TypeInv
  <2>. QED
    BY <1>1, <1>4, <2>1 DEF Process, ClaimInv, Claiming, Others
<1>9. Process(s)'
  BY <1>1, <1>4, <1>7, <1>8 DEF Process, OwnInv, PlanInv, OrderInv
<1>. QED
  BY <1>4, <1>5, <1>6, <1>9, StepPreserves DEF Launched

LEMMA RetakePreserves ==
  ASSUME SessionsInv, NEW s \in Ids, Retake(s), UNCHANGED role
  PROVE  SessionsInv'
<1> USE DEF Retake
<1> DEFINE k == First(Lacking(s))
<1>1. CASE ~Free(s, k, goal[s][k])
  BY <1>1, RefusalPreserves DEF Launched
<1>2. CASE Free(s, k, goal[s][k])
  <2> USE DEF plans, control, durable
  <2>1. /\ held[s] \in Requests /\ goal[s] \in Requests /\ Process(s)
        /\ Lacking(s) \subseteq Keys /\ listed[s] # {}
    BY DEF SessionsInv, TypeInv, Lacking, Missing, Process, ScanInv
  <2>2. k \in Keys
    BY <2>1, FirstIsLeast DEF Keys
  <2>3. /\ held' = [held EXCEPT ![s] = Grant(held[s], k, goal[s])]
        /\ UNCHANGED <<pc, extra>>
    BY <1>2
  <2> HIDE DEF k
  <2>4. /\ Grant(held[s], k, goal[s]) \in Requests
        /\ \A l \in Keys :
               Grant(held[s], k, goal[s])[l] = IF l = k THEN goal[s][k] ELSE held[s][l]
    <3>1. Grant(held[s], k, goal[s]) \in Requests
      BY <2>1, <2>2, GrantIsRequest
    <3>2. \A l \in Keys :
              Grant(held[s], k, goal[s])[l] = IF l = k THEN goal[s][k] ELSE held[s][l]
      BY <2>1, <2>2, GrantIsRequest
    <3>. QED
      BY <3>1, <3>2
  <2>5. TypeInv'
    BY <2>3, <2>4 DEF SessionsInv, TypeInv
  <2>6. Others(s) /\ held'[s] = Grant(held[s], k, goal[s])
    BY <2>3 DEF SessionsInv, TypeInv, Others
  <2>7. Exclusive'
    <3>1. goal[s][k] \in Access
      BY <2>1, <2>2 DEF Requests
    <3>. QED
      BY <1>2, <2>2, <2>3, <2>4, <2>6, <3>1, GrantKeepsExclusive DEF SessionsInv
  <2>8. Wanted(s)' = Wanted(s)
    BY DEF Wanted, Candidate
  <2>9. Process(s)'
    BY <2>1, <2>3, <2>6, <2>8 DEF Process, OwnInv, ScanInv, ClaimInv, PlanInv, OrderInv,
                                  Claiming, Others, Launched
  <2>. QED
    BY <2>3, <2>5, <2>6, <2>7, <2>9, StepPreserves DEF Launched
<1>. QED
  BY <1>1, <1>2

LEMMA RefreshPreserves ==
  ASSUME SessionsInv, NEW s \in Ids, Refresh(s), UNCHANGED role
  PROVE  SessionsInv'
<1> USE DEF Refresh
<1>1. CASE ~(claimed[s] \subseteq Present)
  BY <1>1, RefusalPreserves DEF Launched
<1>2. CASE claimed[s] \subseteq Present
  <2> USE <1>2 DEF To, locks, plans, control, durable
  <2>1. TypeInv' /\ Exclusive'
    BY DEF SessionsInv, TypeInv, Labels, Exclusive
  <2>2. Others(s) /\ pc'[s] = "reload" /\ Wanted(s)' = Wanted(s)
    BY DEF SessionsInv, TypeInv, Others, Wanted, Candidate
  <2>3. /\ Process(s) /\ listed[s] # {} /\ listed[s] \subseteq Ids /\ claimed[s] \subseteq Ids
        /\ held[s] \in Requests /\ goal[s] \in Requests /\ HoldsAll(held[s], goal[s])
    BY DEF SessionsInv, TypeInv, Process, ScanInv, Lacking, HoldsAll
  <2>4. HoldsAll(held[s], Wanted(s))
    BY <2>3, CandidateIsListed, HoldsAllIsTransitive DEF Process, ScanInv
  <2>5. \A t \in claimed[s] : HoldsAll(held[s], recorded[t]) /\ journal[t] # "none"
    BY <2>3, HoldsAllIsTransitive DEF Process, ClaimInv, SessionsInv, TypeInv, Present
  <2>6. ScanInv(s)'
    BY <2>2, <2>3, <2>4 DEF Process, ScanInv, Others, Launched
  <2>7. ClaimInv(s)'
    BY <2>2, <2>3, <2>5 DEF Process, ClaimInv, Others
  <2>8. Process(s)'
    BY <2>2, <2>3, <2>6, <2>7 DEF Process, OwnInv, PlanInv, OrderInv
  <2>. QED
    BY <2>1, <2>2, <2>8, StepPreserves DEF Launched
<1>. QED
  BY <1>1, <1>2

LEMMA ReloadForOperatorPreserves ==
  ASSUME SessionsInv, NEW s \in Ids, ReloadForOperator(s), UNCHANGED role
  PROVE  SessionsInv'
<1> USE DEF ReloadForOperator, Settled, To, locks, durable
<1> DEFINE c == Candidate(s)
<1>1. /\ Process(s) /\ listed[s] # {} /\ listed[s] \subseteq Ids /\ claimed[s] \subseteq Ids
      /\ required[s] \in Requests
  BY DEF SessionsInv, TypeInv, Process, ScanInv
<1>2. /\ c \in listed[s] /\ c \in Ids /\ pc[c] \in Launched /\ c # s
      /\ HoldsAll(held[s], recorded[c]) /\ Wanted(s) = recorded[c] /\ recorded[c] \in Requests
  BY <1>1, CandidateIsListed DEF Process, ScanInv, Wanted, Launched
<1>3. c \in Present => journal[c] # "none" /\ pc[c] = "crashed"
  BY <1>2, HolderMeetsTheDead DEF Present
<1>4. /\ Union(required[s], recorded[c]) \in Requests
      /\ HoldsAll(Union(required[s], recorded[c]), required[s])
      /\ HoldsAll(Union(required[s], recorded[c]), recorded[c])
  BY <1>1, <1>2, UnionIsRequest
<1>5. /\ Others(s) /\ pc'[s] = "claim" /\ listed'[s] \subseteq listed[s]
      /\ extra' = extra /\ held' = held /\ goal' = goal /\ need' = need
      /\ required'[s] = Union(required[s], recorded[c])
      /\ claimed'[s] = IF c \in Present THEN claimed[s] \cup {c} ELSE claimed[s]
  BY <1>2 DEF SessionsInv, TypeInv, Others
<1> HIDE DEF c
<1>6. TypeInv' /\ Exclusive'
  <2>1. claimed' \in [Ids -> SUBSET Ids]
    BY <1>2 DEF SessionsInv, TypeInv, c
  <2>2. refusing' \in [Ids -> BOOLEAN]
    BY DEF SessionsInv, TypeInv
  <2>3. pc' \in [Ids -> Labels] /\ listed' \in [Ids -> SUBSET Ids]
    BY DEF SessionsInv, TypeInv, Labels
  <2>4. required' \in [Ids -> Requests]
    BY <1>2, <1>4 DEF SessionsInv, TypeInv
  <2>. QED
    BY <2>1, <2>2, <2>3, <2>4 DEF SessionsInv, TypeInv, Exclusive
<1>7. ScanInv(s)'
  BY <1>1, <1>5 DEF Process, ScanInv, Others, Launched
<1>8. ClaimInv(s)'
  <2>1. \A t \in claimed[s] : HoldsAll(required'[s], recorded[t])
    BY <1>1, <1>4, <1>5, HoldsAllIsTransitive DEF Process, ClaimInv, SessionsInv, TypeInv
  <2>2. ASSUME NEW t \in claimed'[s]
        PROVE  /\ pc'[t] = "crashed" /\ HoldsAll(held[s], recorded[t])
               /\ journal[t] # "none" /\ HoldsAll(required'[s], recorded[t])
    <3>1. CASE t \in claimed[s]
      BY <1>1, <1>5, <2>1, <3>1 DEF Process, ClaimInv, Claiming, Others
    <3>2. CASE t = c /\ c \in Present
      BY <1>2, <1>3, <1>4, <1>5, <3>2 DEF Others
    <3>. QED
      BY <1>5, <3>1, <3>2
  <2>. QED
    BY <1>5, <2>2 DEF ClaimInv
<1>9. Process(s)'
  BY <1>1, <1>5, <1>7, <1>8 DEF Process, OwnInv, PlanInv, OrderInv
<1>. QED
  BY <1>5, <1>6, <1>9, StepPreserves DEF Launched

\* Everything is dropped and the union is acquired from the start.
LEMMA ReacquirePreserves ==
  ASSUME SessionsInv, NEW s \in Ids, NEW r \in Requests, Reacquire(s, r),
         pc[s] \in {"claim", "check"},
         UNCHANGED <<role, need, control, durable, dirty>>
  PROVE  SessionsInv'
<1> USE DEF Reacquire, Drop, To, control, durable
<1>1. /\ Process(s) /\ listed[s] \subseteq Ids /\ claimed[s] \subseteq Ids
      /\ required[s] \in Requests
  BY DEF SessionsInv, TypeInv
<1>2. Union(required[s], r) \in Requests /\ HoldsAll(Union(required[s], r), required[s])
  BY <1>1, UnionIsRequest
<1>3. /\ Others(s) /\ pc'[s] = "acquire" /\ held'[s] = NoLocks /\ extra'[s] = NoLocks
      /\ required'[s] = Union(required[s], r)
  BY DEF SessionsInv, TypeInv, Others
<1>4. TypeInv'
  BY <1>2, NoLocksIsRequest DEF SessionsInv, TypeInv, Labels
<1>5. Exclusive'
  BY <1>3, NoLocksIsRequest, KeepsExclusive DEF SessionsInv
<1>6. ScanInv(s)'
  BY <1>1, <1>3 DEF Process, ScanInv, Others, Launched
<1>7. ClaimInv(s)'
  <2>1. role[s] = "operator" => \A t \in claimed[s] : HoldsAll(required'[s], recorded[t])
    BY <1>1, <1>2, <1>3, HoldsAllIsTransitive DEF Process, ClaimInv, SessionsInv, TypeInv
  <2>. QED
    BY <1>1, <1>3, <2>1 DEF Process, ClaimInv, Claiming, Others
<1>8. OrderInv(s)'
  BY <1>3, NoLocksIsRequest DEF OrderInv, Held
<1>9. Process(s)'
  BY <1>1, <1>3, <1>6, <1>7, <1>8 DEF Process, OwnInv, PlanInv
<1>. QED
  BY <1>3, <1>4, <1>5, <1>9, StepPreserves DEF Launched

LEMMA DecidePreserves ==
  ASSUME SessionsInv, NEW s \in Ids, Decide(s), UNCHANGED role
  PROVE  SessionsInv'
<1> USE DEF Decide
<1>1. CASE Refuse(s) /\ UNCHANGED plans
  BY <1>1, RefusalPreserves DEF Launched
<1>2. CASE Reacquire(s, again[s]) /\ UNCHANGED need
  BY <1>2, ReacquirePreserves DEF SessionsInv, TypeInv
<1>3. CASE To(s, "recover") /\ UNCHANGED <<locks, plans>>
  <2> USE <1>3 DEF To, locks, plans, control, durable
  <2>1. TypeInv' /\ Exclusive'
    BY DEF SessionsInv, TypeInv, Labels, Exclusive
  <2>2. Others(s) /\ pc'[s] = "recover"
    BY DEF SessionsInv, TypeInv, Others
  <2>3. Process(s) /\ claimed[s] \subseteq Ids /\ listed[s] \subseteq Ids
    BY DEF SessionsInv, TypeInv
  <2>4. Process(s)'
    BY <2>2, <2>3 DEF Process, OwnInv, ScanInv, ClaimInv, PlanInv, OrderInv, Claiming, Others,
                      Launched
  <2>. QED
    BY <2>1, <2>2, <2>4, StepPreserves DEF Launched
<1>. QED
  BY <1>1, <1>2, <1>3

\* What is locked for mutation is held by nobody else.
LEMMA MutatedIsOwn ==
  ASSUME TypeInv, Exclusive, NEW s \in Ids, NEW t \in Ids, s # t,
         NEW r \in Requests, HoldsAll(held[s], r), NEW k \in Keys, r[k] = Mutate
  PROVE  held[t][k] = 0
<1>1. held[s][k] \in Access /\ held[t][k] \in Access
  BY DEF TypeInv, Requests
<1>2. held[s][k] = Mutate
  BY <1>1 DEF HoldsAll, Missing, Access, Mutate
<1>. QED
  BY <1>1, <1>2 DEF Exclusive, Conflict, Access, Mutate

LEMMA RecoverPreserves ==
  ASSUME SessionsInv, NEW s \in Ids, Recover(s), UNCHANGED role
  PROVE  SessionsInv'
<1> USE DEF Recover, locks, plans
<1> DEFINE t == First(claimed[s])
<1>1. Process(s) /\ claimed[s] \subseteq Ids /\ listed[s] \subseteq Ids /\ Ids \subseteq Nat
  BY DEF SessionsInv, TypeInv, Ids
<1>2. t \in claimed[s] /\ t \in Ids
  BY <1>1, FirstIsLeast
<1>3. /\ HoldsAll(held[s], recorded[t]) /\ recorded[t] \in Requests
      /\ \A u \in claimed[s] : pc[u] = "crashed"
  BY <1>1, <1>2 DEF Process, ClaimInv, Claiming, SessionsInv, TypeInv
<1>4. /\ claimed' = [claimed EXCEPT ![s] = @ \ {t}]
      /\ \/ journal' = [journal EXCEPT ![t] = "none"] /\ UNCHANGED refusing
         \/ refusing' = [refusing EXCEPT ![s] = TRUE] /\ UNCHANGED journal
      /\ dirty' = [u \in Ids |-> IF u = s THEN dirty[u]
                                 ELSE dirty[u] \cup {k \in Keys : recorded[t][k] = Mutate}]
  BY DEF Touch
<1> HIDE DEF t
<1>5. TypeInv' /\ Exclusive'
  <2>1. journal' \in [Ids -> JournalStatus] /\ refusing' \in [Ids -> BOOLEAN]
    BY <1>4 DEF SessionsInv, TypeInv, JournalStatus
  <2>2. claimed' \in [Ids -> SUBSET Ids] /\ dirty' \in [Ids -> SUBSET Keys]
    BY <1>4 DEF SessionsInv, TypeInv
  <2>. QED
    BY <2>1, <2>2 DEF SessionsInv, TypeInv, Exclusive
<1>6. /\ Others(s) /\ claimed'[s] = claimed[s] \ {t}
      /\ \A u \in Ids \ {t} : journal'[u] = journal[u]
      /\ journal'[t] \in {journal[t], "none"}
  BY <1>2, <1>4 DEF SessionsInv, TypeInv, Others
<1>7. \A u \in Ids \ {s} : \A k \in dirty'[u] \ dirty[u] : held[u][k] = 0
  <2>1. ASSUME NEW u \in Ids \ {s}, NEW k \in dirty'[u] \ dirty[u] PROVE held[u][k] = 0
    <3>1. k \in Keys /\ recorded[t][k] = Mutate
      BY <1>4, <2>1
    <3>. QED
      BY <1>3, <2>1, <3>1, MutatedIsOwn DEF SessionsInv
  <2>. QED
    BY <2>1
<1>8. OwnInv(s)' /\ ScanInv(s)'
  BY <1>1, <1>6 DEF Process, OwnInv, ScanInv, Launched
<1>9. ClaimInv(s)'
  BY <1>1, <1>6 DEF Process, ClaimInv, Claiming
<1>10. Process(s)'
  BY <1>1, <1>8, <1>9 DEF Process, PlanInv, OrderInv
<1>. QED
  BY <1>3, <1>5, <1>6, <1>7, <1>10, StepPreserves DEF Launched

LEMMA RecoveredPreserves ==
  ASSUME SessionsInv, NEW s \in Ids, Recovered(s), UNCHANGED role
  PROVE  SessionsInv'
<1> USE DEF Recovered
<1>1. CASE Refuse(s)
  BY <1>1, RefusalPreserves DEF Launched
<1>2. CASE ~refusing[s]
  <2> USE <1>2 DEF To, locks, plans, control, durable
  <2>1. TypeInv' /\ Exclusive'
    BY DEF SessionsInv, TypeInv, Labels, Exclusive
  <2>2. Others(s) /\ pc'[s] \in {"release", "plan"}
    BY DEF SessionsInv, TypeInv, Others
  <2>3. Process(s) /\ claimed[s] \subseteq Ids /\ listed[s] \subseteq Ids
    BY DEF SessionsInv, TypeInv
  <2>4. Process(s)'
    BY <2>2, <2>3 DEF Process, OwnInv, ScanInv, ClaimInv, PlanInv, OrderInv, Claiming, Others,
                      Launched
  <2>. QED
    BY <2>1, <2>2, <2>4, StepPreserves DEF Launched
<1>. QED
  BY <1>1, <1>2

LEMMA PlanPreserves ==
  ASSUME SessionsInv, NEW s \in Ids, Plan(s), UNCHANGED role
  PROVE  SessionsInv'
<1> USE DEF Plan, To, locks, control, durable
<1>1. PICK layout \in Layouts[s] : need' = [need EXCEPT ![s] = layout]
  OBVIOUS
<1>2. layout \in Requests
  BY <1>1, RequestAssumption
<1>3. TypeInv' /\ Exclusive'
  BY <1>1, <1>2 DEF SessionsInv, TypeInv, Labels, Exclusive
<1>4. Others(s) /\ pc'[s] = "check" /\ need'[s] = layout /\ dirty'[s] = {}
  BY <1>1 DEF SessionsInv, TypeInv, Others
<1>5. Process(s) /\ claimed[s] \subseteq Ids /\ listed[s] \subseteq Ids
  BY DEF SessionsInv, TypeInv
<1>6. OwnInv(s)' /\ PlanInv(s)' /\ OrderInv(s)'
  BY <1>1, <1>4, <1>5 DEF Process, OwnInv, PlanInv, OrderInv
<1>7. ScanInv(s)' /\ ClaimInv(s)'
  BY <1>4, <1>5 DEF Process, ScanInv, ClaimInv, Claiming, Others, Launched
<1>8. \A u \in Ids \ {s} : dirty'[u] = dirty[u]
  BY DEF SessionsInv, TypeInv
<1>. QED
  BY <1>3, <1>4, <1>6, <1>7, <1>8, StepPreserves DEF Process, Launched

LEMMA StablePreserves ==
  ASSUME SessionsInv, NEW s \in Ids, Stable(s), UNCHANGED role
  PROVE  SessionsInv'
<1> USE DEF Stable, To, locks, plans, control, durable
<1>1. TypeInv' /\ Exclusive'
  BY DEF SessionsInv, TypeInv, Labels, Exclusive
<1>2. Others(s) /\ pc'[s] = "open"
  BY DEF SessionsInv, TypeInv, Others
<1>3. Process(s) /\ claimed[s] \subseteq Ids /\ listed[s] \subseteq Ids
  BY DEF SessionsInv, TypeInv
<1>4. Process(s)'
  BY <1>2, <1>3 DEF Process, OwnInv, ScanInv, ClaimInv, PlanInv, OrderInv, Claiming, Others,
                    Launched
<1>. QED
  BY <1>1, <1>2, <1>4, StepPreserves DEF Launched

LEMMA RestartPreserves ==
  ASSUME SessionsInv, NEW s \in Ids, Restart(s), UNCHANGED role
  PROVE  SessionsInv'
<1>1. need[s] \in Requests
  BY DEF SessionsInv, TypeInv
<1>. QED
  BY <1>1, ReacquirePreserves DEF Restart

LEMMA ExpandPreserves ==
  ASSUME SessionsInv, NEW s \in Ids, Expand(s), UNCHANGED role
  PROVE  SessionsInv'
<1> USE DEF Expand, To, locks, control, durable
<1>1. /\ Process(s) /\ listed[s] \subseteq Ids /\ claimed[s] \subseteq Ids
      /\ required[s] \in Requests /\ need[s] \in Requests
  BY DEF SessionsInv, TypeInv
<1>2. Union(required[s], need[s]) \in Requests /\ HoldsAll(Union(required[s], need[s]), required[s])
  BY <1>1, UnionIsRequest
<1>3. /\ Others(s) /\ pc'[s] = "acquire" /\ goal'[s] = need[s]
      /\ required'[s] = Union(required[s], need[s])
  BY DEF SessionsInv, TypeInv, Others
<1>4. TypeInv' /\ Exclusive'
  BY <1>1, <1>2 DEF SessionsInv, TypeInv, Labels, Exclusive
<1>5. ScanInv(s)'
  BY <1>1, <1>3 DEF Process, ScanInv, Others, Launched
<1>6. ClaimInv(s)'
  <2>1. role[s] = "operator" => \A t \in claimed[s] : HoldsAll(required'[s], recorded[t])
    BY <1>1, <1>2, <1>3, HoldsAllIsTransitive DEF Process, ClaimInv, SessionsInv, TypeInv
  <2>. QED
    BY <1>1, <1>3, <2>1 DEF Process, ClaimInv, Claiming, Others
<1>7. OrderInv(s)'
  <2>1. ASSUME NEW k \in Missing(held[s], need[s]), NEW l \in Held(held[s]) PROVE l < k
    <3>1. ~(k <= l)
      BY <2>1 DEF RequiresReacquire
    <3>2. k \in Nat /\ l \in Nat
      BY DEF Missing, Held, Keys
    <3>. QED
      BY <3>1, <3>2
  <2>. QED
    BY <1>3, <2>1 DEF OrderInv, Lacking
<1>8. Process(s)'
  BY <1>1, <1>3, <1>5, <1>6, <1>7 DEF Process, OwnInv, PlanInv
<1>. QED
  BY <1>3, <1>4, <1>8, StepPreserves DEF Launched

\* A resource a session changes under its own locks is locked by nobody else.
LEMMA TouchedIsUnheld ==
  ASSUME SessionsInv, NEW s \in Ids, HoldsAll(held[s], need[s]), Touch(s, need[s])
  PROVE  /\ \A u \in Ids \ {s} : \A k \in dirty'[u] \ dirty[u] : held[u][k] = 0
         /\ dirty' \in [Ids -> SUBSET Keys] /\ dirty'[s] = dirty[s]
<1>1. need[s] \in Requests /\ dirty \in [Ids -> SUBSET Keys]
  BY DEF SessionsInv, TypeInv
<1>2. ASSUME NEW u \in Ids \ {s}, NEW k \in dirty'[u] \ dirty[u] PROVE held[u][k] = 0
  <2>1. k \in Keys /\ need[s][k] = Mutate
    BY <1>2 DEF Touch
  <2>. QED
    BY <1>1, <1>2, <2>1, MutatedIsOwn DEF SessionsInv
<1>. QED
  BY <1>1, <1>2 DEF Touch

LEMMA OpenPreserves ==
  ASSUME SessionsInv, NEW s \in Ids, Open(s), UNCHANGED role
  PROVE  SessionsInv'
<1> USE DEF Open, To, locks, plans, control
<1>1. /\ Process(s) /\ claimed[s] \subseteq Ids /\ listed[s] \subseteq Ids
      /\ need[s] \in Requests /\ HoldsAll(held[s], need[s]) /\ CoversOwned(need[s])
  BY RequestAssumption DEF SessionsInv, TypeInv, Process, OwnInv
<1>2. /\ \A u \in Ids \ {s} : \A k \in dirty'[u] \ dirty[u] : held[u][k] = 0
      /\ dirty' \in [Ids -> SUBSET Keys] /\ dirty'[s] = dirty[s]
  BY <1>1, TouchedIsUnheld
<1>3. TypeInv' /\ Exclusive'
  BY <1>1, <1>2 DEF SessionsInv, TypeInv, Labels, JournalStatus, Exclusive
<1>4. /\ Others(s) /\ pc'[s] = "session" /\ recorded'[s] = need[s]
      /\ \A u \in Ids \ {s} : journal'[u] = journal[u] /\ recorded'[u] = recorded[u]
  BY DEF SessionsInv, TypeInv, Others
<1>5. OwnInv(s)'
  BY <1>1, <1>4 DEF OwnInv
<1>6. ScanInv(s)'
  BY <1>1, <1>4 DEF Process, ScanInv, Others, Launched
<1>7. ClaimInv(s)'
  BY <1>1, <1>4 DEF Process, ClaimInv, Claiming, Others
<1>8. Process(s)'
  BY <1>1, <1>2, <1>4, <1>5, <1>6, <1>7 DEF Process, PlanInv, OrderInv
<1>. QED
  BY <1>2, <1>3, <1>4, <1>8, StepPreserves DEF Launched

LEMMA LaunchPreserves ==
  ASSUME SessionsInv, NEW s \in Ids, Launch(s), UNCHANGED role
  PROVE  SessionsInv'
<1> USE DEF Launch, To, locks, plans, control
<1>1. TypeInv' /\ Exclusive'
  <2>1. journal' \in [Ids -> JournalStatus]
    BY DEF SessionsInv, TypeInv, JournalStatus
  <2>2. pc' \in [Ids -> Labels]
    BY DEF SessionsInv, TypeInv, Labels
  <2>. QED
    BY <2>1, <2>2 DEF SessionsInv, TypeInv, Exclusive
<1>2. /\ Others(s) /\ pc'[s] \in {"session", "cleanup"}
      /\ \A u \in Ids \ {s} : journal'[u] = journal[u]
  BY DEF SessionsInv, TypeInv, Others
<1>3. /\ Process(s) /\ claimed[s] \subseteq Ids /\ listed[s] \subseteq Ids
      /\ CoversOwned(recorded[s])
  BY DEF SessionsInv, TypeInv, Process, OwnInv
<1>4. Process(s)'
  BY <1>2, <1>3 DEF Process, OwnInv, ScanInv, ClaimInv, PlanInv, OrderInv, Claiming, Others,
                    Launched
<1>. QED
  BY <1>1, <1>2, <1>4, StepPreserves DEF Launched

LEMMA ChildGonePreserves ==
  ASSUME SessionsInv, NEW s \in Ids, ChildGone(s), UNCHANGED role
  PROVE  SessionsInv'
<1> USE DEF ChildGone, To, locks, plans, control, durable
<1>1. TypeInv' /\ Exclusive'
  BY DEF SessionsInv, TypeInv, Labels, Exclusive
<1>2. Others(s) /\ pc'[s] = "cleanup"
  BY DEF SessionsInv, TypeInv, Others
<1>3. Process(s) /\ claimed[s] \subseteq Ids /\ listed[s] \subseteq Ids
  BY DEF SessionsInv, TypeInv
<1>4. Process(s)'
  BY <1>2, <1>3 DEF Process, OwnInv, ScanInv, ClaimInv, PlanInv, OrderInv, Claiming, Others,
                    Launched
<1>. QED
  BY <1>1, <1>2, <1>4, StepPreserves DEF Launched

LEMMA CleanUpPreserves ==
  ASSUME SessionsInv, NEW s \in Ids, CleanUp(s), UNCHANGED role
  PROVE  SessionsInv'
<1> USE DEF CleanUp, To, locks, plans, control
<1>1. /\ Process(s) /\ claimed[s] \subseteq Ids /\ listed[s] \subseteq Ids
      /\ HoldsAll(held[s], need[s])
  BY DEF SessionsInv, TypeInv, Process, OwnInv
<1>2. /\ \A u \in Ids \ {s} : \A k \in dirty'[u] \ dirty[u] : held[u][k] = 0
      /\ dirty' \in [Ids -> SUBSET Keys] /\ dirty'[s] = dirty[s]
  BY <1>1, TouchedIsUnheld
<1>3. TypeInv' /\ Exclusive'
  BY <1>2 DEF SessionsInv, TypeInv, Labels, JournalStatus, Exclusive
<1>4. /\ Others(s) /\ pc'[s] = "release" /\ journal'[s] = "none"
      /\ \A u \in Ids \ {s} : journal'[u] = journal[u]
  BY DEF SessionsInv, TypeInv, Others
<1>5. Process(s)'
  BY <1>1, <1>4 DEF Process, OwnInv, ScanInv, ClaimInv, PlanInv, OrderInv, Claiming, Others,
                    Launched
<1>. QED
  BY <1>2, <1>3, <1>4, <1>5, StepPreserves DEF Launched

LEMMA ReleasePreserves ==
  ASSUME SessionsInv, NEW s \in Ids, Release(s), UNCHANGED role
  PROVE  SessionsInv'
<1> USE DEF Release, Drop, To, plans, control, durable
<1>1. TypeInv'
  BY NoLocksIsRequest DEF SessionsInv, TypeInv, Labels
<1>2. Others(s) /\ pc'[s] = "done" /\ held'[s] = NoLocks /\ extra'[s] = NoLocks
  BY DEF SessionsInv, TypeInv, Others
<1>3. Exclusive'
  BY <1>2, NoLocksIsRequest, KeepsExclusive DEF SessionsInv
<1>4. Process(s) /\ claimed[s] \subseteq Ids /\ listed[s] \subseteq Ids
  BY DEF SessionsInv, TypeInv
<1>5. Process(s)'
  BY <1>2, <1>4 DEF Process, OwnInv, ScanInv, ClaimInv, PlanInv, OrderInv, Claiming, Others,
                    Launched
<1>. QED
  BY <1>1, <1>2, <1>3, <1>5, StepPreserves DEF Launched

LEMMA TimesOutPreserves ==
  ASSUME SessionsInv, NEW s \in Ids, TimesOut(s), UNCHANGED role
  PROVE  SessionsInv'
BY RefusalPreserves DEF TimesOut, Launched

-----------------------------------------------------------------------------
LEMMA NextPreserves == SessionsInv /\ [Next]_vars => SessionsInv'
<1> SUFFICES ASSUME SessionsInv, [Next]_vars PROVE SessionsInv'
  OBVIOUS
<1>1. CASE UNCHANGED vars
  <2> USE <1>1 DEF vars, state, locks, plans, control, durable
  <2>1. TypeInv' /\ Exclusive'
    BY DEF SessionsInv, TypeInv, Exclusive
  <2>2. ASSUME NEW s \in Ids PROVE Process(s)'
    BY DEF SessionsInv, Process, OwnInv, ScanInv, ClaimInv, PlanInv, OrderInv, Wanted,
           Candidate, Lacking
  <2>. QED
    BY <2>1, <2>2 DEF SessionsInv
<1>2. ASSUME NEW s \in Ids, Steps(s), UNCHANGED role PROVE SessionsInv'
  BY <1>2, TakeNextPreserves, AcquiredPreserves, ListPreserves, LoadPreserves,
     ClaimPreserves, TakeImmediatelyPreserves, ContendedPreserves, ProbedPreserves,
     AbsorbPreserves, ReloadPreserves, BlocksPreserves, LoadScopePreserves,
     DropClaimsPreserves, RetakePreserves, RefreshPreserves, ReloadForOperatorPreserves,
     DecidePreserves, RecoverPreserves, RecoveredPreserves, PlanPreserves, StablePreserves,
     RestartPreserves, ExpandPreserves, OpenPreserves, LaunchPreserves, ChildGonePreserves,
     CleanUpPreserves, ReleasePreserves DEF Steps
<1>. QED
  BY <1>1, <1>2, TimesOutPreserves, CrashPreserves DEF Next, Finished

\* The locks of two sessions never exclude each other, a journal belongs to the dead or
\* to a session that still satisfies what it recorded, and whoever may recover one
\* holds everything it names (stabilize_resource_locks, recover_stale, cleanup_explicit).
THEOREM SessionsInvariant == Spec => []SessionsInv
BY InitEstablishes, NextPreserves, PTL DEF Spec

\* However scans, claims, promotions and restarts interleave, the journal of a session
\* that lives is never claimed (reload_locked under the complete lock set).
THEOREM OnlyTheDead == Spec => []OnlyTheDeadAreRecovered
<1>1. SessionsInv => OnlyTheDeadAreRecovered
  BY DEF SessionsInv, Process, ClaimInv, OnlyTheDeadAreRecovered
<1>. QED
  BY <1>1, SessionsInvariant, PTL

\* No two processes recover one journal, and none recovers a journal that is gone.
THEOREM EachIsRecoveredOnce == Spec => []RecoveredOnce
<1>1. SessionsInv => RecoveredOnce
  <2> SUFFICES ASSUME SessionsInv, NEW s \in Ids, pc[s] = "recover"
               PROVE  /\ claimed[s] \subseteq Present
                      /\ \A t \in Ids \ {s} : pc[t] = "recover" => claimed[s] \cap claimed[t] = {}
    BY DEF RecoveredOnce
  <2>1. \A t \in Ids : claimed[t] \subseteq Ids /\ Process(t)
    BY DEF SessionsInv, TypeInv
  <2>2. \A t \in Ids : pc[t] = "recover" =>
            \A u \in claimed[t] : HoldsAll(held[t], recorded[u]) /\ journal[u] # "none"
    BY <2>1 DEF Process, ClaimInv, Claiming
  <2>3. ASSUME NEW t \in Ids \ {s}, pc[t] = "recover", NEW u \in claimed[s] \cap claimed[t]
        PROVE  FALSE
    <3>1. CoversOwned(recorded[u]) /\ recorded[u] \in Requests
      BY <2>1, <2>2, <2>3 DEF Process, OwnInv, SessionsInv, TypeInv
    <3>. QED
      BY <2>2, <2>3, <3>1, OwnedIsHeldOnce DEF SessionsInv
  <2>. QED
    BY <2>1, <2>2, <2>3 DEF Present
<1>. QED
  BY <1>1, SessionsInvariant, PTL

\* The plan a session acts on depends on nothing that anybody changed after it was made.
THEOREM NoPlanIsStale == Spec => []NoStalePlan
<1>1. SessionsInv => NoStalePlan
  <2> SUFFICES ASSUME SessionsInv, NEW s \in Ids, pc[s] \in {"open", "session", "cleanup"},
                      NEW k \in dirty[s]
               PROVE  need[s][k] = 0
    BY DEF NoStalePlan
  <2>1. /\ k \in Keys /\ held[s] \in Requests /\ need[s] \in Requests /\ Process(s)
    BY DEF SessionsInv, TypeInv
  <2>2. held[s][k] = 0 /\ HoldsAll(held[s], need[s])
    BY <2>1 DEF Process, PlanInv, OwnInv
  <2>3. need[s][k] \in Access
    BY <2>1 DEF Requests
  <2>. QED
    BY <2>1, <2>2, <2>3 DEF HoldsAll, Missing, Access
<1>. QED
  BY <1>1, SessionsInvariant, PTL

\* Locks are waited for in one global order, so that no cycle of waiters can form.
THEOREM NobodyWaitsBackwards == Spec => []WaitsInOrder
<1>1. SessionsInv => WaitsInOrder
  BY DEF SessionsInv, Process, OrderInv, WaitsInOrder
<1>. QED
  BY <1>1, SessionsInvariant, PTL
=============================================================================
