------------------------------ MODULE Sessions ------------------------------
(***************************************************************************)
(* Several `asm` processes over one state directory.  A session acquires   *)
(* resource locks, scans the journals, claims and recovers the transactions*)
(* of dead sessions (or, with --no-recover, refuses to meet one), replans  *)
(* until the lock set is stable, and runs under it; `asm cleanup` claims   *)
(* every journal in its scope at once and reconciles them (src/app.rs,     *)
(* stabilize_resource_locks; src/transaction/recover.rs; src/lock/         *)
(* acquire.rs; src/journal/store.rs).                                      *)
(*                                                                         *)
(* Every lock is taken in a step of its own, blocking or immediate, so     *)
(* that sessions interleave between any two of them. What a journal says   *)
(* of its entries is Transaction's business; here it is a status and the   *)
(* lock set it recorded.                                                   *)
(***************************************************************************)
EXTENDS LockSet

CONSTANTS
    S,             \* number of processes, numbered in transaction-id order
    Casts,         \* the possible roles of the processes
    Preliminary,   \* the locks the first inspection asks for
    Layouts,       \* the locks a replanning may find it needs
    MaxPasses,     \* MAX_LOCK_SET_PASSES
    Timeouts,      \* a contended lock may stay busy for the whole wait
    MaxCrashes     \* bound on session deaths

Ids == 1..S

\* "dead" and "finished" are processes of an earlier time: the one died and left its
\* journal, the other left nothing.
Roles == {"session", "no_recover", "operator", "dead", "finished"}

ASSUME SAssumption == S \in Nat \ {0} /\ Casts \subseteq [Ids -> Roles]
\* Every plan locks its discovery entry and its backing store for mutation
\* (required_mutation_resources).
CoversOwned(r) == \E k \in Keys : r[k] = Mutate
ASSUME RequestAssumption ==
    /\ Preliminary \in [Ids -> Requests]
    /\ Layouts \in [Ids -> SUBSET {r \in Requests : CoversOwned(r)}]
    /\ \A s \in Ids : Layouts[s] # {}
ASSUME BoundAssumption ==
    MaxPasses \in Nat \ {0} /\ MaxCrashes \in Nat /\ Timeouts \in BOOLEAN

VARIABLES
    role,      \* what each process was started as
    pc,        \* where each one is
    held,      \* its HeldLocks
    extra,     \* keys taken by an immediate attempt not yet absorbed
    goal,      \* what a blocking acquisition is after
    required,  \* the accumulated required_resources
    need,      \* the lock set of the rebuilt plan
    listed,    \* journals a scan listed, then those still to be claimed
    claimed,   \* journals claimed and found recoverable
    again,     \* resources that require a full reacquisition
    expected,  \* recovery candidates to be met again after it
    refusing,  \* the recovery report stops this session
    passes,    \* passes over the lock set
    journal,   \* the status of each session's journal
    recorded,  \* the lock set each journal recorded
    dirty,     \* keys whose resources changed since the session planned
    crashes

control == <<listed, claimed, again, expected, refusing>>
plans   == <<goal, required, need, passes>>
locks   == <<held, extra>>
durable == <<journal, recorded>>
state == <<pc, locks, plans, control, durable, dirty, crashes>>
vars == <<role, state>>

JournalStatus == {"none", "applied", "supervising"}

All(v) == [s \in Ids |-> v]

Init ==
    /\ role \in Casts
    /\ pc = [s \in Ids |-> IF role[s] = "dead" THEN "crashed"
                           ELSE IF role[s] = "finished" THEN "done" ELSE "preflight"]
    /\ held = All(NoLocks) /\ extra = All(NoLocks)
    /\ goal = Preliminary
    /\ required = [s \in Ids |-> IF role[s] = "operator" THEN NoLocks ELSE Preliminary[s]]
    /\ need = All(NoLocks) /\ again = All(NoLocks)
    /\ listed = All({}) /\ claimed = All({}) /\ expected = All({})
    /\ refusing = All(FALSE) /\ passes = All(0)
    /\ journal \in [Ids -> JournalStatus]
    /\ \A s \in Ids : journal[s] = "none" <=> role[s] # "dead"
    /\ recorded \in [Ids -> {NoLocks} \cup UNION {Layouts[s] : s \in Ids}]
    /\ \A s \in Ids :
           recorded[s] \in IF role[s] = "dead" THEN Layouts[s] ELSE {NoLocks}
    /\ dirty = All({}) /\ crashes = 0

To(s, label) == pc' = [pc EXCEPT ![s] = label]
Drop(s) ==
    /\ held' = [held EXCEPT ![s] = NoLocks]
    /\ extra' = [extra EXCEPT ![s] = NoLocks]
Refuse(s) == To(s, "refused") /\ Drop(s)
Present == {t \in Ids : journal[t] # "none"}

\* No other session holds `k` in a way that conflicts with access `a`.
Free(s, k, a) ==
    \A t \in Ids \ {s} :
        ~Conflict(a, held[t][k]) /\ ~Conflict(a, extra[t][k])

\* The resources under the mutated keys of `r` change under everyone's feet.
Touch(s, r) ==
    dirty' = [t \in Ids |->
        IF t = s THEN dirty[t] ELSE dirty[t] \cup {k \in Keys : r[k] = Mutate}]

-----------------------------------------------------------------------------
(* Blocking acquisition in key order (acquire, acquire_more).              *)

Lacking(s) == Missing(held[s], goal[s])

TakeNext(s) ==
    /\ pc[s] = "acquire" /\ Lacking(s) # {}
    /\ LET k == First(Lacking(s)) IN
       /\ Free(s, k, goal[s][k])
       /\ held' = [held EXCEPT ![s] = Grant(held[s], k, goal[s])]
    /\ UNCHANGED <<pc, extra, plans, control, durable, dirty, crashes>>

TimesOut(s) ==
    /\ pc[s] = "acquire" /\ Lacking(s) # {} /\ Timeouts
    /\ LET k == First(Lacking(s)) IN ~Free(s, k, goal[s][k])
    /\ Refuse(s)
    /\ UNCHANGED <<plans, control, durable, dirty, crashes>>

\* The loop ends without a stable set after its last pass.
\* (Mutant: the earlier plan is kept.)
AcquiredKeepingPlan(s) ==
    /\ pc[s] = "acquire" /\ Lacking(s) = {}
    /\ IF passes[s] = MaxPasses
         THEN Refuse(s)
         ELSE /\ To(s, IF need[s] = NoLocks THEN "list" ELSE "check")
              /\ UNCHANGED locks
    /\ UNCHANGED <<plans, control, durable, dirty, crashes>>
Acquired(s) ==
    /\ pc[s] = "acquire" /\ Lacking(s) = {}
    /\ IF passes[s] = MaxPasses THEN Refuse(s)
                                ELSE To(s, "list") /\ UNCHANGED locks
    /\ UNCHANGED <<plans, control, durable, dirty, crashes>>

\* drop(locks); HeldLocks::acquire(&required_resources)
Reacquire(s, r) ==
    /\ required' = [required EXCEPT ![s] = Union(@, r)]
    /\ goal' = [goal EXCEPT ![s] = Union(required[s], r)]
    /\ Drop(s) /\ To(s, "acquire")

-----------------------------------------------------------------------------
(* The journal scan: the directory is listed, then each file is loaded.    *)

List(s) ==
    /\ pc[s] \in {"preflight", "list"}
    /\ listed' = [listed EXCEPT ![s] = Present]
    /\ To(s, IF pc[s] = "preflight" THEN "preload" ELSE "load")
    /\ UNCHANGED <<locks, plans, claimed, again, expected, refusing, durable,
                   dirty, crashes>>

\* A journal that vanished since the listing cannot be read, and one that
\* vanished during a full restart was a recovery candidate: both refuse.
Unreadable(s) ==
    \/ ~(listed[s] \subseteq Present)
    \/ pc[s] = "load" /\ ~(expected[s] \subseteq listed[s])

Load(s) ==
    /\ pc[s] \in {"preload", "load"} /\ role[s] # "operator"
    /\ IF Unreadable(s)
         THEN Refuse(s) /\ UNCHANGED control
         ELSE /\ To(s, IF pc[s] = "preload" THEN "acquire" ELSE "claim")
              /\ claimed' = [claimed EXCEPT ![s] = {}]
              /\ again' = [again EXCEPT ![s] = NoLocks]
              /\ expected' = [expected EXCEPT ![s] = {}]
              /\ refusing' = [refusing EXCEPT ![s] = FALSE]
              /\ UNCHANGED <<listed, locks>>
    /\ UNCHANGED <<plans, durable, dirty, crashes>>

-----------------------------------------------------------------------------
(* Claiming the listed journals (recover_stale_after_reacquire, claim).    *)

Candidate(s) == First(listed[s])
Wanted(s) == recorded[Candidate(s)]
Settled(s) == listed' = [listed EXCEPT ![s] = @ \ {Candidate(s)}]

\* try_acquire_missing: nothing to take, a probe of the new keys, or a take.
Claim(s) ==
    /\ pc[s] = "claim" /\ listed[s] # {}
    /\ To(s, IF HoldsAll(held[s], Wanted(s)) THEN "reload"
             ELSE IF RequiresReacquire(held[s], Wanted(s)) THEN "probe"
             ELSE "try")
    /\ UNCHANGED <<locks, plans, control, durable, dirty, crashes>>

\* A promoted key is excluded from the probe: it would contend with itself.
ToTake(s) ==
    {k \in Missing(held[s], Wanted(s)) : held[s][k] = 0 /\ extra[s][k] = 0}

TakeImmediately(s) ==
    /\ pc[s] \in {"probe", "try"} /\ ToTake(s) # {}
    /\ LET k == First(ToTake(s)) IN
       /\ Free(s, k, Wanted(s)[k])
       /\ extra' = [extra EXCEPT ![s] = Grant(extra[s], k, Wanted(s))]
    /\ UNCHANGED <<pc, held, plans, control, durable, dirty, crashes>>

\* The transaction is live: its journal is left alone.
Contended(s) ==
    /\ pc[s] \in {"probe", "try"} /\ ToTake(s) # {}
    /\ LET k == First(ToTake(s)) IN ~Free(s, k, Wanted(s)[k])
    /\ extra' = [extra EXCEPT ![s] = NoLocks]
    /\ Settled(s) /\ To(s, "claim")
    /\ UNCHANGED <<held, plans, claimed, again, expected, refusing, durable,
                   dirty, crashes>>

Probed(s) ==
    /\ pc[s] = "probe" /\ ToTake(s) = {} /\ role[s] = "session"
    /\ extra' = [extra EXCEPT ![s] = NoLocks]
    /\ again' = [again EXCEPT ![s] = Union(@, Wanted(s))]
    /\ expected' = [expected EXCEPT ![s] = @ \cup {Candidate(s)}]
    /\ Settled(s) /\ To(s, "claim")
    /\ UNCHANGED <<held, plans, claimed, refusing, durable, dirty, crashes>>

\* absorb: the claim stays held for the rest of the session.
Absorb(s) ==
    /\ pc[s] = "try" /\ ToTake(s) = {} /\ role[s] # "no_recover"
    /\ held' = [held EXCEPT ![s] = Union(@, extra[s])]
    /\ extra' = [extra EXCEPT ![s] = NoLocks]
    /\ To(s, "reload")
    /\ UNCHANGED <<plans, control, durable, dirty, crashes>>

\* reload_locked: only the state under the locks counts. A journal that is
\* gone refuses, one that is `supervising` is quarantined.
\* (Mutant: the status the scan read is trusted.)
ReloadTrustingScan(s) ==
    /\ pc[s] = "reload" /\ role[s] = "session"
    /\ claimed' = [claimed EXCEPT ![s] = @ \cup {Candidate(s)}]
    /\ Settled(s) /\ To(s, "claim")
    /\ UNCHANGED <<locks, plans, again, expected, refusing, durable, dirty,
                   crashes>>
Reload(s) ==
    /\ pc[s] = "reload" /\ role[s] = "session"
    /\ IF journal[Candidate(s)] = "applied"
         THEN /\ claimed' = [claimed EXCEPT ![s] = @ \cup {Candidate(s)}]
              /\ UNCHANGED refusing
         ELSE /\ refusing' = [refusing EXCEPT ![s] = TRUE]
              /\ UNCHANGED claimed
    /\ Settled(s) /\ To(s, "claim")
    /\ UNCHANGED <<locks, plans, again, expected, durable, dirty, crashes>>

\* blocking_state: with --no-recover a journal whose locks could be had, now or
\* after a full reacquisition, refuses. What was taken for it is dropped at once.
Blocks(s) ==
    /\ role[s] = "no_recover"
    /\ \/ pc[s] = "reload"
       \/ pc[s] \in {"probe", "try"} /\ ToTake(s) = {}
    /\ extra' = [extra EXCEPT ![s] = NoLocks]
    /\ refusing' = [refusing EXCEPT ![s] = TRUE]
    /\ Settled(s) /\ To(s, "claim")
    /\ UNCHANGED <<held, plans, claimed, again, expected, durable, dirty, crashes>>

-----------------------------------------------------------------------------
(* asm cleanup (cleanup_explicit): every journal of a project, or all of   *)
(* them, is claimed before any is reconciled. `required` accumulates what  *)
(* the claims so far named.                                                *)

\* A journal that cannot be read ends the command, in scope or not.
LoadScope(s) ==
    /\ pc[s] = "preload" /\ role[s] = "operator"
    /\ IF Unreadable(s)
         THEN Refuse(s) /\ UNCHANGED listed
         ELSE /\ \E scope \in SUBSET listed[s] : listed' = [listed EXCEPT ![s] = scope]
              /\ To(s, "claim") /\ UNCHANGED locks
    /\ UNCHANGED <<plans, claimed, again, expected, refusing, durable, dirty, crashes>>

\* reacquire_explicit_locks: everything is dropped, and the union is taken again
\* without waiting.
DropClaims(s) ==
    /\ pc[s] = "probe" /\ ToTake(s) = {} /\ role[s] = "operator"
    /\ goal' = [goal EXCEPT ![s] = Union(required[s], Wanted(s))]
    /\ Drop(s) /\ To(s, "retake")
    /\ UNCHANGED <<required, need, passes, control, durable, dirty, crashes>>

Retake(s) ==
    /\ pc[s] = "retake" /\ Lacking(s) # {}
    /\ LET k == First(Lacking(s)) IN
       IF Free(s, k, goal[s][k])
         THEN held' = [held EXCEPT ![s] = Grant(held[s], k, goal[s])] /\ UNCHANGED <<pc, extra>>
         ELSE Refuse(s)
    /\ UNCHANGED <<plans, control, durable, dirty, crashes>>

\* The gap invalidates every earlier snapshot; one that is gone ends the command.
Refresh(s) ==
    /\ pc[s] = "retake" /\ Lacking(s) = {}
    /\ IF claimed[s] \subseteq Present THEN To(s, "reload") /\ UNCHANGED locks ELSE Refuse(s)
    /\ UNCHANGED <<plans, control, durable, dirty, crashes>>

\* A supervising journal is claimed too: the operator answers for its child.
ReloadForOperator(s) ==
    /\ pc[s] = "reload" /\ role[s] = "operator"
    /\ required' = [required EXCEPT ![s] = Union(@, Wanted(s))]
    /\ IF Candidate(s) \in Present
         THEN /\ claimed' = [claimed EXCEPT ![s] = @ \cup {Candidate(s)}]
              /\ UNCHANGED refusing
         ELSE /\ refusing' = [refusing EXCEPT ![s] = TRUE]
              /\ UNCHANGED claimed
    /\ Settled(s) /\ To(s, "claim")
    /\ UNCHANGED <<locks, goal, need, passes, again, expected, durable, dirty, crashes>>

-----------------------------------------------------------------------------
\* Every candidate is claimed before anything is removed.
Decide(s) ==
    /\ pc[s] = "claim" /\ listed[s] = {}
    /\ \/ refusing[s] /\ Refuse(s) /\ UNCHANGED plans
       \/ /\ ~refusing[s] /\ again[s] = NoLocks
          /\ To(s, "recover") /\ UNCHANGED <<locks, plans>>
       \/ /\ ~refusing[s] /\ again[s] # NoLocks
          /\ Reacquire(s, again[s])
          /\ passes' = [passes EXCEPT ![s] = @ + 1]
          /\ UNCHANGED need
    /\ UNCHANGED <<control, durable, dirty, crashes>>

\* The pass over one adopted journal retires it, or leaves it and refuses.
Recover(s) ==
    /\ pc[s] = "recover" /\ claimed[s] # {}
    /\ LET t == First(claimed[s]) IN
       /\ claimed' = [claimed EXCEPT ![s] = @ \ {t}]
       /\ \/ journal' = [journal EXCEPT ![t] = "none"] /\ UNCHANGED refusing
          \/ refusing' = [refusing EXCEPT ![s] = TRUE] /\ UNCHANGED journal
       /\ Touch(s, recorded[t])
    /\ UNCHANGED <<pc, locks, plans, listed, again, expected, recorded,
                   crashes>>

Recovered(s) ==
    /\ pc[s] = "recover" /\ claimed[s] = {}
    /\ IF refusing[s] THEN Refuse(s)
       ELSE IF role[s] = "operator" THEN To(s, "release") /\ UNCHANGED locks
       ELSE To(s, "plan") /\ UNCHANGED locks
    /\ UNCHANGED <<plans, control, durable, dirty, crashes>>

-----------------------------------------------------------------------------
(* Planning under the locks, until they cover the plan.                    *)

Plan(s) ==
    /\ pc[s] = "plan"
    /\ \E layout \in Layouts[s] : need' = [need EXCEPT ![s] = layout]
    /\ dirty' = [dirty EXCEPT ![s] = {}]
    /\ passes' = [passes EXCEPT ![s] = @ + 1]
    /\ To(s, "check")
    /\ UNCHANGED <<locks, goal, required, control, durable, crashes>>

Stable(s) ==
    /\ pc[s] = "check" /\ HoldsAll(held[s], need[s])
    /\ To(s, "open")
    /\ UNCHANGED <<locks, plans, control, durable, dirty, crashes>>

Restart(s) ==
    /\ pc[s] = "check" /\ ~HoldsAll(held[s], need[s])
    /\ RequiresReacquire(held[s], need[s])
    /\ Reacquire(s, need[s])
    /\ UNCHANGED <<need, passes, control, durable, dirty, crashes>>

\* Missing keys that all sort after the held ones are appended; the next pass
\* recovers and plans again under them.
Expand(s) ==
    /\ pc[s] = "check" /\ ~HoldsAll(held[s], need[s])
    /\ ~RequiresReacquire(held[s], need[s])
    /\ required' = [required EXCEPT ![s] = Union(@, need[s])]
    /\ goal' = [goal EXCEPT ![s] = need[s]]
    /\ To(s, "acquire")
    /\ UNCHANGED <<locks, need, passes, control, durable, dirty, crashes>>

-----------------------------------------------------------------------------
(* The session under its stable lock set.                                  *)

\* open_with
Open(s) ==
    /\ pc[s] = "open"
    /\ journal' = [journal EXCEPT ![s] = "applied"]
    /\ recorded' = [recorded EXCEPT ![s] = need[s]]
    /\ Touch(s, need[s])
    /\ To(s, "session")
    /\ UNCHANGED <<locks, plans, control, crashes>>

\* The launch is recorded, or the session goes to its cleanup without one.
Launch(s) ==
    /\ pc[s] = "session" /\ journal[s] = "applied"
    /\ \/ journal' = [journal EXCEPT ![s] = "supervising"] /\ UNCHANGED pc
       \/ To(s, "cleanup") /\ UNCHANGED journal
    /\ UNCHANGED <<locks, plans, control, recorded, dirty, crashes>>

ChildGone(s) ==
    /\ pc[s] = "session" /\ journal[s] = "supervising"
    /\ To(s, "cleanup")
    /\ UNCHANGED <<locks, plans, control, durable, dirty, crashes>>

\* The locks are dropped only after the cleanup callback.
CleanUp(s) ==
    /\ pc[s] = "cleanup"
    /\ journal' = [journal EXCEPT ![s] = "none"]
    /\ Touch(s, need[s])
    /\ To(s, "release")
    /\ UNCHANGED <<locks, plans, control, recorded, crashes>>

Release(s) ==
    /\ pc[s] = "release"
    /\ Drop(s) /\ To(s, "done")
    /\ UNCHANGED <<plans, control, durable, dirty, crashes>>

Ended == {"done", "refused", "crashed"}

\* Death frees the locks and leaves the journal.
Crash(s) ==
    /\ pc[s] \notin Ended
    /\ crashes < MaxCrashes /\ crashes' = crashes + 1
    /\ Drop(s) /\ To(s, "crashed")
    /\ UNCHANGED <<plans, control, durable, dirty>>

Steps(s) ==
    \/ TakeNext(s) \/ Acquired(s) \/ List(s) \/ Load(s)
    \/ Claim(s) \/ TakeImmediately(s) \/ Contended(s) \/ Probed(s)
    \/ Absorb(s) \/ Reload(s) \/ Blocks(s)
    \/ LoadScope(s) \/ DropClaims(s) \/ Retake(s) \/ Refresh(s) \/ ReloadForOperator(s)
    \/ Decide(s) \/ Recover(s) \/ Recovered(s)
    \/ Plan(s) \/ Stable(s) \/ Restart(s) \/ Expand(s)
    \/ Open(s) \/ Launch(s) \/ ChildGone(s) \/ CleanUp(s) \/ Release(s)

Finished == (\A s \in Ids : pc[s] \in Ended) /\ UNCHANGED vars

Next ==
    \/ (\E s \in Ids : Steps(s) \/ TimesOut(s) \/ Crash(s)) /\ UNCHANGED role
    \/ Finished

Spec == Init /\ [][Next]_vars

\* Every session keeps taking its own steps; a child is assumed to exit. That a wait
\* times out is never relied on.
FairSpec == Spec /\ \A s \in Ids : WF_state(Steps(s))

-----------------------------------------------------------------------------
(* Safety.                                                                 *)

\* A session reconciles only the journal of a session that is dead: whatever
\* the order of scans, claims, promotions and restarts, the journal of a live
\* one never passes the reload under its complete lock set (recover.rs).
OnlyTheDeadAreRecovered ==
    \A s, t \in Ids : t \in claimed[s] => pc[t] = "crashed"

\* What a process is about to recover is still there, and no other process is
\* about to recover it: also a claim made before the locks were dropped and taken
\* again is of a journal that nobody retired in between.
RecoveredOnce ==
    \A s \in Ids : pc[s] = "recover" =>
        /\ claimed[s] \subseteq Present
        /\ \A t \in Ids \ {s} : pc[t] = "recover" => claimed[s] \cap claimed[t] = {}

\* The plan a session opens its transaction with was built while every
\* resource it depends on was already locked: nobody has changed one since, and
\* nobody changes one while the session runs (app.rs, stabilize_resource_locks).
NoStalePlan ==
    \A s \in Ids : pc[s] \in {"open", "session", "cleanup"} =>
        \A k \in dirty[s] : need[s][k] = 0

\* A session that waits for a lock holds no key that sorts after it and does
\* not hold that key itself: no promotion in place and no cycle of waiters.
WaitsInOrder ==
    \A s \in Ids : pc[s] = "acquire" =>
        \A k \in Lacking(s), l \in Held(held[s]) : l < k

\* Every session ends, with its work done or with a refusal; none waits for
\* ever for a lock and none replans for ever.
EverySessionEnds == \A s \in Ids : <>(pc[s] \in Ended)

\* "Every other state needs attention before a later invocation may mutate
\* overlapping resources" (journal/mod.rs:117): no session mutates what the
\* journal of a dead one says it mutated.
DeadAreSettledFirst ==
    \A s, t \in Ids :
        pc[s] \in {"open", "session", "cleanup"} /\ pc[t] = "crashed" /\ t \in Present =>
            \A k \in Keys : ~(need[s][k] = Mutate /\ recorded[t][k] = Mutate)
=============================================================================
