---------------------------- MODULE Transaction ----------------------------
(***************************************************************************)
(* One SkillMount transaction: the write-ahead application of a mount      *)
(* plan, its rollback, the cleanup of an orderly session, and the recovery *)
(* a later invocation performs from the journal alone                      *)
(* (src/transaction/{mod,apply,cleanup,recover}.rs).                       *)
(*                                                                         *)
(* What is durable is kept apart from what the process holds: `disk` is    *)
(* the journal document, `mem` the journal in memory. A crash loses the    *)
(* second and frees the transaction's locks; it never stops the child.     *)
(* An advisory lock set excludes every other cooperating process for as    *)
(* long as `pc` is not "idle"; the programs that ignore those locks are    *)
(* the actions of the section on other programs.                           *)
(***************************************************************************)
EXTENDS Naturals

CONSTANTS
    N,              \* number of planned actions, numbered in plan order
    Op,             \* what each action does
    AutoLinks,      \* link actions whose link mode is `auto`
    Inside,         \* <<d, a>>: the paths of a lie in the directory of d
    KeepMounts,     \* the session was started with --keep-mounts
    HandleBound,    \* the platform mutates through a held handle (Windows)
    MaxCrashes,     \* bound on process deaths
    MaxFaults,      \* bound on failing system calls
    MaxMeddling     \* bound on the moves of other programs

Actions == 1..N

Operations == {"mkdir", "link", "config", "reuse"}

Created    == {a \in Actions : Op[a] # "reuse"}
\* CleanupDisposition::Required; a helper directory is BestEffort
Required   == {a \in Actions : Op[a] \in {"link", "config"}}

ASSUME NAssumption == N \in Nat \ {0}
ASSUME OpAssumption == Op \in [Actions -> Operations]
ASSUME AutoAssumption == AutoLinks \subseteq {a \in Actions : Op[a] = "link"}
\* A helper directory is planned before everything it will hold, and what is
\* planned in a missing directory cannot exist yet; of two directories that hold
\* one entry, one holds the other.
ASSUME InsideAssumption ==
    /\ Inside \subseteq {d \in Actions : Op[d] = "mkdir"} \X Created
    /\ \A p \in Inside : p[1] < p[2]
    /\ \A p, q \in Inside : p[2] = q[1] => <<p[1], q[2]>> \in Inside
    /\ \A p, q \in Inside : p[2] = q[2] =>
         p[1] = q[1] \/ <<p[1], q[1]>> \in Inside \/ <<q[1], p[1]>> \in Inside
ASSUME FlagAssumption == KeepMounts \in BOOLEAN /\ HandleBound \in BOOLEAN
ASSUME BoundAssumption ==
    MaxCrashes \in Nat /\ MaxFaults \in Nat /\ MaxMeddling \in Nat

TransactionStatus == {"planned", "applying", "active", "supervising",
                      "cleaning", "completed", "kept", "failed"}
ActionStatus == {"planned", "intent", "staged", "applied", "reused",
                 "rolled_back"}
MayHaveCreatedSomething == {"intent", "staged", "applied"}

Terminal == {"completed", "kept"}
AutomaticallyRecoverable == TransactionStatus \ (Terminal \cup {"supervising"})

\* `st` is each action's status; `ev` says that the evidence removal needs
\* (identity, and for a link its concrete kind and target) is recorded.
Journal == [status : TransactionStatus, keep : BOOLEAN,
            st : [Actions -> ActionStatus], ev : [Actions -> BOOLEAN]]

\* The two recorded paths of an action, and the inside of its directory.
Candidates == {"temp", "final"}
Slots == Actions \X (Candidates \cup {"child"})

\* Where the entry an action created is. "away": another program moved it
\* beyond every recorded path; "destroyed": another program deleted it.
Places == {"none", "temp", "final", "away", "unlinked", "destroyed"}
Existing == {"temp", "final", "away"}

VARIABLES
    onDisk,     \* the journal file exists
    disk,       \* its content
    mem,        \* the journal of the running process
    residue,    \* placement_residue: the path placement could not prove
    pc,         \* where the running process is; "idle" when there is none
    mode,       \* which pass a cleanup belongs to
    cur,        \* the action being applied or reconciled
    cand,       \* the candidate path under the hand of the process
    left,       \* clear_action's left_alone
    gone,       \* clear_action saw a verified removal
    unresolved, \* required actions this pass could not prove gone
    loc,        \* where each created entry is
    foreign,    \* the slots holding an entry this transaction did not create
    edited,     \* created files another program changed in place
    child,      \* the supervised process domain
    accepted,   \* history: absences an operator's cleanup accepted
    operator,   \* history: `asm cleanup` has been run
    raced,      \* history: a slot changed between a last check and its use
    crashes, faults, meddling

procVars == <<mem, residue, pc, mode, cur, cand, left, gone, unresolved>>
diskVars == <<onDisk, disk>>
fsVars   == <<loc, foreign, edited>>
history  == <<accepted, operator, raced>>
budget   == <<crashes, faults, meddling>>
vars == <<procVars, diskVars, fsVars, child, history, budget>>

-----------------------------------------------------------------------------
(* The journal.                                                            *)

NewJournal ==
    [status |-> "planned", keep |-> KeepMounts,
     st |-> [a \in Actions |-> IF Op[a] = "reuse" THEN "reused" ELSE "planned"],
     ev |-> [a \in Actions |-> FALSE]]

WithStatus(j, s) == [j EXCEPT !.status = s]
WithAction(j, a, s) == [j EXCEPT !.st = [j.st EXCEPT ![a] = s]]
WithEvidence(j, a) == [j EXCEPT !.ev = [j.ev EXCEPT ![a] = TRUE]]
WithoutKeep(j) == [j EXCEPT !.keep = FALSE]

\* store::persist: the document replaces the previous one as a whole.
Persists(j) ==
    /\ disk' = j /\ onDisk' = TRUE
    /\ UNCHANGED faults
\* It can also fail, before the replacement or after it (PersistFault).
PersistFails(j) ==
    /\ faults < MaxFaults /\ faults' = faults + 1
    /\ \/ UNCHANGED diskVars
       \/ disk' = j /\ onDisk' = TRUE

\* A system call of the link backend fails.
Fails == faults < MaxFaults /\ faults' = faults + 1

-----------------------------------------------------------------------------
(* The filesystem.                                                         *)

Occupied(a, p) == loc[a] = p \/ <<a, p>> \in foreign

\* The directory the paths of `a` lie in exists.
ContainerPresent(a) ==
    \A d \in Actions : <<d, a>> \in Inside => Occupied(d, "final")

Contents(d) == {a \in Actions : <<d, a>> \in Inside}
EmptyDirectory(d) ==
    /\ <<d, "child">> \notin foreign
    /\ loc[d] = "final" =>
         \A a \in Contents(d), p \in Candidates : ~Occupied(a, p)

\* verify_ownership and its directory and configuration-file forms
VerifiedByPathOnly(j, a, p) == Occupied(a, p) /\ j.ev[a]
Verified(j, a, p) == loc[a] = p /\ j.ev[a] /\ a \notin edited

\* On Windows the object stays open from its last check to its mutation.
Held(a, p) ==
    HandleBound /\ pc \in {"rename", "unlink"} /\ cur = a /\ cand = p

-----------------------------------------------------------------------------
(* The process's own control.                                              *)

TypeOK ==
    /\ onDisk \in BOOLEAN
    /\ disk \in Journal
    /\ mem \in Journal
    /\ residue \in [Actions -> {"none"} \cup Candidates]
    /\ pc \in {"idle", "open", "begin", "check", "create", "stage", "place",
               "rename", "confirm", "activate", "boundary", "supervise",
               "announce", "spawn", "wait", "clean", "keep", "reconcile",
               "scan", "unlink", "settle", "fail", "complete", "retire"}
    /\ mode \in {"session", "rollback", "automatic", "explicit"}
    /\ cur \in 0..N
    /\ cand \in Candidates
    /\ left \in BOOLEAN
    /\ gone \in BOOLEAN
    /\ unresolved \subseteq Actions
    /\ loc \in [Actions -> Places]
    /\ foreign \subseteq Slots
    /\ edited \subseteq Actions
    /\ child \in {"none", "alive", "dead"}
    /\ accepted \subseteq Actions
    /\ operator \in BOOLEAN
    /\ raced \in BOOLEAN
    /\ crashes \in 0..MaxCrashes
    /\ faults \in 0..MaxFaults
    /\ meddling \in 0..MaxMeddling

NoResidue == [a \in Actions |-> "none"]

\* An entry planned for reuse was already there when the plan was built.
Init ==
    /\ onDisk = FALSE /\ disk = NewJournal /\ mem = NewJournal
    /\ residue = NoResidue
    /\ pc = "open" /\ mode = "session" /\ cur = 0 /\ cand = "temp"
    /\ left = FALSE /\ gone = FALSE /\ unresolved = {}
    /\ loc = [a \in Actions |-> "none"]
    /\ foreign = {<<a, "final">> : a \in Actions \ Created}
    /\ edited = {}
    /\ child = "none"
    /\ accepted = {} /\ operator = FALSE /\ raced = FALSE
    /\ crashes = 0 /\ faults = 0 /\ meddling = 0

\* The process returns or dies: its memory is gone and its locks are free.
Exit ==
    /\ pc' = "idle" /\ mode' = "session" /\ cur' = 0 /\ cand' = "temp"
    /\ left' = FALSE /\ gone' = FALSE /\ unresolved' = {}
    /\ residue' = NoResidue
    /\ mem' = NewJournal

-----------------------------------------------------------------------------
(* Applying the plan (open_with, apply).                                   *)

\* Walk the candidates newest first; `mem` is fixed by the caller.
Reconciling(m) ==
    /\ pc' = "reconcile" /\ mode' = m /\ cur' = N /\ cand' = "temp"
    /\ left' = FALSE /\ gone' = FALSE /\ unresolved' = {}
RollBack == Reconciling("rollback")

At(label) ==
    /\ pc' = label
    /\ UNCHANGED <<mode, cur, cand, left, gone, unresolved>>
ActionDone ==
    /\ IF cur = N THEN pc' = "activate" /\ cur' = cur
                  ELSE pc' = "check" /\ cur' = cur + 1
    /\ cand' = "temp"
    /\ UNCHANGED <<mode, left, gone, unresolved>>

Open ==
    /\ pc = "open"
    /\ \/ Persists(NewJournal) /\ At("begin") /\ UNCHANGED <<mem, residue>>
       \/ PersistFails(NewJournal) /\ Exit
    /\ UNCHANGED <<fsVars, child, history, crashes, meddling>>

\* A failed transition is not rolled back: nothing was mutated.
BeginApply ==
    /\ pc = "begin"
    /\ LET j == WithStatus(mem, "applying") IN
       \/ /\ Persists(j) /\ mem' = j /\ pc' = "check" /\ cur' = 1
          /\ UNCHANGED <<residue, mode, cand, left, gone, unresolved>>
       \/ PersistFails(j) /\ Exit
    /\ UNCHANGED <<fsVars, child, history, crashes, meddling>>

ConfirmReuse ==
    /\ pc = "check" /\ Op[cur] = "reuse"
    /\ \/ Occupied(cur, "final") /\ ActionDone /\ UNCHANGED faults
       \/ ~Occupied(cur, "final") /\ RollBack /\ UNCHANGED faults
       \/ Fails /\ RollBack
    /\ UNCHANGED <<mem, residue, diskVars, fsVars, child, history, crashes,
                   meddling>>

\* check_precondition: the destination is not what the plan expected.
Drift ==
    /\ pc = "check" /\ Op[cur] # "reuse"
    /\ \/ Occupied(cur, "final") /\ UNCHANGED faults
       \/ Fails
    /\ RollBack
    /\ UNCHANGED <<mem, residue, diskVars, fsVars, child, history, crashes,
                   meddling>>

Intent ==
    /\ pc = "check" /\ Op[cur] # "reuse" /\ ~Occupied(cur, "final")
    /\ mem' = WithAction(mem, cur, "intent")
    /\ \/ Persists(mem') /\ At("create")
       \/ PersistFails(mem') /\ RollBack
    /\ UNCHANGED <<residue, fsVars, child, history, crashes, meddling>>

Creatable == ContainerPresent(cur) /\ ~Occupied(cur, "temp")

CreateStaged ==
    /\ pc = "create" /\ Creatable
    /\ loc' = [loc EXCEPT ![cur] = "temp"]
    /\ mem' = WithEvidence(mem, cur)
    /\ At("stage")
    /\ UNCHANGED <<residue, diskVars, foreign, edited, child, history, budget>>

\* The entry is not created, or it is and its first observation fails: then
\* it is retained, because no pathname rollback could prove what it removes.
CreateFails ==
    /\ pc = "create"
    /\ \/ ~Creatable /\ UNCHANGED <<faults, loc>>
       \/ Fails /\ UNCHANGED loc
       \/ Fails /\ Creatable /\ loc' = [loc EXCEPT ![cur] = "temp"]
    /\ RollBack
    /\ UNCHANGED <<mem, residue, diskVars, foreign, edited, child, history,
                   crashes, meddling>>

Stage ==
    /\ pc = "stage"
    /\ mem' = WithAction(mem, cur, "staged")
    /\ \/ Persists(mem') /\ At("place")
       \/ PersistFails(mem') /\ RollBack
    /\ UNCHANGED <<residue, fsVars, child, history, crashes, meddling>>

\* place_no_replace verifies the staged entry, renames it without replacing,
\* and verifies what the destination holds; what it cannot prove is residue.
VerifyStaged ==
    /\ pc = "place"
    /\ \/ /\ Verified(mem, cur, "temp") /\ At("rename")
          /\ UNCHANGED <<residue, faults>>
       \/ /\ ~Verified(mem, cur, "temp") /\ RollBack
          /\ residue' = [residue EXCEPT ![cur] = "temp"]
          /\ UNCHANGED faults
       \/ Fails /\ RollBack /\ UNCHANGED residue
    /\ UNCHANGED <<mem, diskVars, fsVars, child, history, crashes, meddling>>

RenameNoReplace ==
    /\ pc = "rename" /\ Occupied(cur, "temp")
    /\ ContainerPresent(cur) /\ ~Occupied(cur, "final")
    /\ IF loc[cur] = "temp"
         THEN loc' = [loc EXCEPT ![cur] = "final"] /\ UNCHANGED foreign
         ELSE /\ foreign' = (foreign \ {<<cur, "temp">>}) \cup {<<cur, "final">>}
              /\ UNCHANGED loc
    /\ At("confirm")
    /\ UNCHANGED <<mem, residue, diskVars, edited, child, history, budget>>

RenameFails ==
    /\ pc = "rename"
    /\ \/ /\ \/ Occupied(cur, "final")
             \/ ~Occupied(cur, "temp") \/ ~ContainerPresent(cur)
          /\ UNCHANGED faults
       \/ Fails
    /\ RollBack
    /\ UNCHANGED <<mem, residue, diskVars, fsVars, child, history, crashes,
                   meddling>>

ConfirmPlaced ==
    /\ pc = "confirm" /\ Verified(mem, cur, "final")
    /\ mem' = WithAction(mem, cur, "applied")
    /\ \/ Persists(mem') /\ ActionDone
       \/ PersistFails(mem') /\ RollBack
    /\ UNCHANGED <<residue, fsVars, child, history, crashes, meddling>>

PlacementFailure ==
    /\ pc = "confirm"
    /\ \/ ~Verified(mem, cur, "final") /\ UNCHANGED faults
       \/ Fails
    /\ residue' = [residue EXCEPT ![cur] = "final"]
    /\ RollBack
    /\ UNCHANGED <<mem, diskVars, fsVars, child, history, crashes, meddling>>

Activate ==
    /\ pc = "activate"
    /\ mem' = WithStatus(mem, "active")
    /\ \/ Persists(mem') /\ At("boundary")
       \/ PersistFails(mem') /\ RollBack
    /\ UNCHANGED <<residue, fsVars, child, history, crashes, meddling>>

-----------------------------------------------------------------------------
(* The session around the child (run_session).                             *)

\* cleanup_required clears a keep request before the durable transition.
CleanupRequired(j) ==
    /\ mem' = WithoutKeep(j)
    /\ At("clean")

ConfigFilesIntact ==
    \A a \in Actions :
        Op[a] = "config" => mem.st[a] = "applied" /\ Verified(mem, a, "final")

\* verify_spawn_boundary: a launch invariant may also have changed.
SpawnBoundary ==
    /\ pc = "boundary"
    /\ \/ ConfigFilesIntact /\ At("supervise") /\ UNCHANGED <<mem, faults>>
       \/ ~ConfigFilesIntact /\ CleanupRequired(mem) /\ UNCHANGED faults
       \/ Fails /\ CleanupRequired(mem)
    /\ UNCHANGED <<residue, diskVars, fsVars, child, history, crashes,
                   meddling>>

BeginSupervision ==
    /\ pc = "supervise"
    /\ LET j == WithStatus(mem, "supervising") IN
       \/ Persists(j) /\ mem' = j /\ At("announce")
       \/ PersistFails(j) /\ CleanupRequired(j)
    /\ UNCHANGED <<residue, fsVars, child, history, crashes, meddling>>

EmitDiagnostics ==
    /\ pc = "announce"
    /\ \/ At("spawn") /\ UNCHANGED <<mem, faults>>
       \/ Fails /\ CleanupRequired(mem)
    /\ UNCHANGED <<residue, diskVars, fsVars, child, history, crashes,
                   meddling>>

\* When nothing was spawned the ordinary cleanup runs, keep request included.
Spawn ==
    /\ pc = "spawn"
    /\ \/ child' = "alive" /\ At("wait") /\ UNCHANGED faults
       \/ Fails /\ At("clean") /\ UNCHANGED child
    /\ UNCHANGED <<mem, residue, diskVars, fsVars, history, crashes, meddling>>

CleansWithoutProof ==
    /\ pc = "wait" /\ At("clean")
    /\ UNCHANGED <<mem, residue, diskVars, fsVars, child, history, budget>>
\* The cleanup callback runs on proof of death only.
ChildProvenDead ==
    /\ pc = "wait" /\ child = "dead" /\ At("clean")
    /\ UNCHANGED <<mem, residue, diskVars, fsVars, child, history, budget>>

\* Liveness stays uncertain: cleanup is deferred and the journal stays.
LivenessUncertain ==
    /\ pc = "wait" /\ Fails /\ Exit
    /\ UNCHANGED <<diskVars, fsVars, child, history, crashes, meddling>>

-----------------------------------------------------------------------------
(* Cleanup and rollback (cleanup_with_missing_link_policy, roll_back).     *)

BeginCleanup ==
    /\ pc = "clean"
    /\ LET j == WithStatus(mem, "cleaning") IN
       \/ /\ Persists(j) /\ mem' = j /\ UNCHANGED residue
          /\ IF mem.keep THEN At("keep") ELSE Reconciling(mode)
       \/ PersistFails(j) /\ Exit
    /\ UNCHANGED <<fsVars, child, history, crashes, meddling>>

Keep ==
    /\ pc = "keep"
    /\ LET j == WithStatus(mem, "kept") IN Persists(j) \/ PersistFails(j)
    /\ Exit
    /\ UNCHANGED <<fsVars, child, history, crashes, meddling>>

\* cleanup_candidates
Candidate(a) == a \in Created /\ mem.st[a] \in MayHaveCreatedSomething

\* A helper directory stays recorded while a required entry inside it cannot
\* be proved gone.
Encloses(d) == \E a \in unresolved : <<d, a>> \in Inside

SkipAction ==
    /\ pc = "reconcile" /\ cur > 0
    /\ ~Candidate(cur) \/ (Op[cur] = "mkdir" /\ Encloses(cur))
    /\ cur' = cur - 1
    /\ UNCHANGED <<mem, residue, pc, mode, cand, left, gone, unresolved,
                   diskVars, fsVars, child, history, budget>>

\* clear_action: placement residue counts as left alone from the start.
ClearAction ==
    /\ pc = "reconcile" /\ cur > 0
    /\ Candidate(cur) /\ ~(Op[cur] = "mkdir" /\ Encloses(cur))
    /\ pc' = "scan" /\ cand' = "temp" /\ gone' = FALSE
    /\ left' = (residue[cur] # "none")
    /\ UNCHANGED <<mem, residue, mode, cur, unresolved, diskVars, fsVars,
                   child, history, budget>>

\* A link of mode `auto` whose concrete kind never became durable.
Undecided(a) == a \in AutoLinks /\ ~mem.ev[a]

\* What one candidate path answers without being mutated.
AnswersAbsent(a, p) ==
    /\ ~Occupied(a, p)
    /\ \/ mem.ev[a] \/ Undecided(a) \/ Op[a] # "link"
       \* A link without its target is refused before its path is inspected,
       \* unless explicit cleanup has to tell absence from refusal.
       \/ mode = "explicit"
MayRemove(a, p) == ~Undecided(a) /\ Verified(mem, a, p)

FirstCandidateOnly(l) ==
    /\ left' = l /\ pc' = "settle"
    /\ UNCHANGED <<mem, residue, mode, cur, cand, gone, unresolved>>
NextCandidate(l) ==
    /\ left' = l
    /\ IF cand = "temp" THEN pc' = pc /\ cand' = "final"
                        ELSE pc' = "settle" /\ cand' = cand
    /\ UNCHANGED <<mem, residue, mode, cur, gone, unresolved>>

ScanCandidate ==
    /\ pc = "scan"
    /\ \/ /\ residue[cur] = cand /\ ~Undecided(cur)
          /\ NextCandidate(left) /\ UNCHANGED faults
       \/ /\ residue[cur] # cand \/ Undecided(cur)
          /\ \/ /\ AnswersAbsent(cur, cand)
                /\ NextCandidate(left) /\ UNCHANGED faults
             \/ /\ ~AnswersAbsent(cur, cand) /\ ~MayRemove(cur, cand)
                /\ NextCandidate(TRUE) /\ UNCHANGED faults
             \/ Fails /\ NextCandidate(TRUE)
    /\ UNCHANGED <<diskVars, fsVars, child, history, crashes, meddling>>

VerifyForRemoval ==
    /\ pc = "scan" /\ residue[cur] # cand
    /\ MayRemove(cur, cand)
    /\ At("unlink")
    /\ UNCHANGED <<mem, residue, diskVars, fsVars, child, history, budget>>

\* The mutation takes whatever the pathname holds by now.
Unlink ==
    /\ pc = "unlink"
    /\ Occupied(cur, cand)
    /\ Op[cur] = "mkdir" /\ loc[cur] = cand => EmptyDirectory(cur)
    /\ IF loc[cur] = cand
         THEN loc' = [loc EXCEPT ![cur] = "unlinked"] /\ UNCHANGED foreign
         ELSE foreign' = foreign \ {<<cur, cand>>} /\ UNCHANGED loc
    /\ gone' = TRUE /\ pc' = "settle"
    /\ UNCHANGED <<mem, residue, mode, cur, cand, left, unresolved, diskVars,
                   edited, child, history, budget>>

\* The directory is not empty, the entry vanished, or the call fails.
UnlinkFails ==
    /\ pc = "unlink"
    /\ \/ /\ \/ ~Occupied(cur, cand)
             \/ Op[cur] = "mkdir" /\ loc[cur] = cand /\ ~EmptyDirectory(cur)
          /\ UNCHANGED faults
       \/ Fails
    /\ left' = TRUE
    /\ IF cand = "temp" THEN pc' = "scan" /\ cand' = "final"
                        ELSE pc' = "settle" /\ cand' = cand
    /\ UNCHANGED <<mem, residue, mode, cur, gone, unresolved, diskVars, fsVars,
                   child, history, crashes, meddling>>

\* retain_if_no_verified_removal, outcome_for: absence discharges a required
\* action under the operator's policy only; a helper directory is discharged
\* whatever became of it.
NeverAcceptsAbsence == FALSE
AcceptsAbsence == mode = "explicit" /\ ~left /\ ~gone
DischargedByAbsence == cur \in Required => ~left
Discharged ==
    cur \in Required => ~left /\ (gone \/ AcceptsAbsence)

Settle ==
    /\ pc = "settle" /\ Discharged
    /\ mem' = WithAction(mem, cur, "rolled_back")
    /\ accepted' = IF cur \in Required /\ AcceptsAbsence
                     THEN accepted \cup {cur} ELSE accepted
    /\ \/ /\ Persists(mem') /\ pc' = "reconcile" /\ cur' = cur - 1
          /\ cand' = "temp" /\ left' = FALSE /\ gone' = FALSE
          /\ UNCHANGED <<residue, mode, unresolved>>
       \/ /\ PersistFails(mem') /\ mode = "rollback" /\ pc' = "fail"
          /\ UNCHANGED <<residue, mode, cur, cand, left, gone, unresolved>>
    /\ UNCHANGED <<fsVars, child, operator, raced, crashes, meddling>>

\* Outside a rollback the failing write ends the whole pass.
SettleAborts ==
    /\ pc = "settle" /\ Discharged /\ mode # "rollback"
    /\ PersistFails(WithAction(mem, cur, "rolled_back"))
    /\ accepted' = IF cur \in Required /\ AcceptsAbsence
                     THEN accepted \cup {cur} ELSE accepted
    /\ Exit
    /\ UNCHANGED <<fsVars, child, operator, raced, crashes, meddling>>

LeaveUnresolved ==
    /\ pc = "settle" /\ ~Discharged
    /\ unresolved' = unresolved \cup {cur}
    /\ pc' = "reconcile" /\ cur' = cur - 1
    /\ cand' = "temp" /\ left' = FALSE /\ gone' = FALSE
    /\ UNCHANGED <<mem, residue, mode, diskVars, fsVars, child, history, budget>>

PassEnds ==
    /\ pc = "reconcile" /\ cur = 0
    /\ IF mode = "rollback" \/ unresolved # {} THEN At("fail")
                                                ELSE At("complete")
    /\ UNCHANGED <<mem, residue, diskVars, fsVars, child, history, budget>>

RecordFailure ==
    /\ pc = "fail"
    /\ LET j == WithStatus(mem, "failed") IN Persists(j) \/ PersistFails(j)
    /\ Exit
    /\ UNCHANGED <<fsVars, child, history, crashes, meddling>>

Complete ==
    /\ pc = "complete"
    /\ LET j == WithStatus(mem, "completed") IN
       \/ Persists(j) /\ mem' = j /\ At("retire") /\ UNCHANGED residue
       \/ PersistFails(j) /\ Exit
    /\ UNCHANGED <<fsVars, child, history, crashes, meddling>>

\* store::remove; a failing flush reports an error over a removed journal.
Retire ==
    /\ pc = "retire"
    /\ \/ onDisk' = FALSE /\ UNCHANGED faults
       \/ Fails /\ onDisk' \in BOOLEAN
    /\ Exit
    /\ UNCHANGED <<disk, fsVars, child, history, crashes, meddling>>

-----------------------------------------------------------------------------
(* A later invocation, under every lock the journal recorded.              *)

AdoptKeepingRequest(m) ==
    /\ mem' = disk
    /\ pc' = "clean" /\ mode' = m
    /\ UNCHANGED <<residue, cur, cand, left, gone, unresolved>>
Adopt(m) ==
    /\ mem' = WithoutKeep(disk)
    /\ pc' = "clean" /\ mode' = m
    /\ UNCHANGED <<residue, cur, cand, left, gone, unresolved>>

\* recover_stale: never a terminal journal, never a supervising one
Recover ==
    /\ pc = "idle" /\ onDisk
    /\ disk.status \in AutomaticallyRecoverable
    /\ Adopt("automatic")
    /\ UNCHANGED <<diskVars, fsVars, child, history, budget>>

\* cleanup_explicit: every journal but a completed one
CleanupExplicit ==
    /\ pc = "idle" /\ onDisk
    /\ disk.status # "completed"
    /\ Adopt("explicit")
    /\ operator' = TRUE
    /\ UNCHANGED <<diskVars, fsVars, child, accepted, raced, budget>>

-----------------------------------------------------------------------------
(* Other programs: they ignore the advisory locks.                         *)

Crash ==
    /\ pc \notin {"idle", "open"}
    /\ crashes < MaxCrashes /\ crashes' = crashes + 1
    /\ Exit
    /\ UNCHANGED <<diskVars, fsVars, child, history, faults, meddling>>

ChildExits ==
    /\ child = "alive" /\ child' = "dead"
    /\ UNCHANGED <<procVars, diskVars, fsVars, history, budget>>

\* The move falls between a last check and the mutation that relies on it.
Races ==
    /\ pc \in {"rename", "unlink"}
    /\ \/ loc'[cur] # loc[cur]
       \/ (<<cur, cand>> \in foreign') # (<<cur, cand>> \in foreign)
       \/ (cur \in edited') # (cur \in edited)

Meddles ==
    /\ meddling < MaxMeddling /\ meddling' = meddling + 1
    /\ raced' = (raced \/ Races)
    /\ UNCHANGED <<procVars, diskVars, child, accepted, operator, crashes,
                   faults>>

Occupy(a, p) ==
    /\ ~Occupied(a, p) /\ ContainerPresent(a) /\ ~Held(a, p)
    /\ foreign' = foreign \cup {<<a, p>>} /\ UNCHANGED <<loc, edited>>
    /\ Meddles

Litter(d) ==
    /\ Op[d] = "mkdir" /\ loc[d] \in Candidates
    /\ <<d, "child">> \notin foreign
    /\ foreign' = foreign \cup {<<d, "child">>} /\ UNCHANGED <<loc, edited>>
    /\ Meddles

Vacate(s) ==
    /\ s \in foreign
    /\ s[2] = "final" =>
         \A a \in Contents(s[1]), p \in Candidates : ~Occupied(a, p)
    /\ foreign' = foreign \ {s} /\ UNCHANGED <<loc, edited>>
    /\ Meddles

\* A directory takes what it holds along.
MoveAway(a) ==
    LET moved == {a} \cup
          (IF loc[a] = "final"
             THEN {b \in Contents(a) : loc[b] \in Candidates} ELSE {}) IN
    /\ loc[a] \in Candidates
    /\ \A b \in moved : ~Held(b, loc[b])
    /\ loc' = [b \in Actions |-> IF b \in moved THEN "away" ELSE loc[b]]
    /\ foreign' = IF loc[a] = "final"
                    THEN {s \in foreign :
                            s[1] \in Contents(a) => s[2] = "child"}
                    ELSE foreign
    /\ UNCHANGED edited
    /\ Meddles

MoveBack(a, p) ==
    /\ loc[a] = "away" /\ ~Occupied(a, p) /\ ContainerPresent(a)
    /\ loc' = [loc EXCEPT ![a] = p] /\ UNCHANGED <<foreign, edited>>
    /\ Meddles

Destroy(a) ==
    /\ loc[a] \in Existing
    /\ \A p \in Candidates : loc[a] = p => ~Held(a, p)
    /\ Op[a] = "mkdir" => EmptyDirectory(a)
    /\ loc' = [loc EXCEPT ![a] = "destroyed"] /\ UNCHANGED <<foreign, edited>>
    /\ Meddles

Edit(a) ==
    /\ Op[a] = "config" /\ loc[a] \in Existing /\ a \notin edited
    /\ ~Held(a, loc[a])
    /\ edited' = edited \cup {a} /\ UNCHANGED <<loc, foreign>>
    /\ Meddles

-----------------------------------------------------------------------------
Apply ==
    \/ Open \/ BeginApply \/ ConfirmReuse \/ Drift \/ Intent
    \/ CreateStaged \/ CreateFails \/ Stage \/ VerifyStaged
    \/ RenameNoReplace \/ RenameFails \/ ConfirmPlaced \/ PlacementFailure
    \/ Activate
Supervise ==
    \/ SpawnBoundary \/ BeginSupervision \/ EmitDiagnostics \/ Spawn
    \/ ChildProvenDead \/ LivenessUncertain
Cleanup ==
    \/ BeginCleanup \/ Keep \/ SkipAction \/ ClearAction \/ ScanCandidate
    \/ VerifyForRemoval \/ Unlink \/ UnlinkFails \/ Settle \/ SettleAborts
    \/ LeaveUnresolved \/ PassEnds \/ RecordFailure \/ Complete \/ Retire
Process == Apply \/ Supervise \/ Cleanup

OtherPrograms ==
    \/ \E a \in Created, p \in Candidates : Occupy(a, p) \/ MoveBack(a, p)
    \/ \E a \in Created : Litter(a) \/ MoveAway(a) \/ Destroy(a) \/ Edit(a)
    \/ \E s \in Slots : Vacate(s)

Next ==
    \/ Process \/ Recover \/ CleanupExplicit
    \/ Crash \/ ChildExits \/ OtherPrograms

Spec == Init /\ [][Next]_vars

\* The process keeps taking its own steps unless it waits for a live child.
Runs == Process /\ ~(pc = "wait" /\ child = "alive")

\* The operator runs `asm cleanup` again and again; a child need never exit.
FairSpec == Spec /\ WF_vars(Runs) /\ SF_vars(CleanupExplicit)

-----------------------------------------------------------------------------
(* Safety.                                                                 *)

\* Write-ahead ownership: a link or configuration file this transaction
\* created and nobody has removed is described by a journal that still holds
\* it as pending, whatever crashed, failed or was moved meanwhile, unless an
\* operator's cleanup accepted its absence (transaction/mod.rs, journal/mod.rs).
Forgotten(a) ==
    \/ ~onDisk \/ disk.status = "completed"
    \/ disk.st[a] \notin MayHaveCreatedSomething
OwnedStaysRecorded ==
    \A a \in Required \ accepted :
        ~raced /\ loc[a] \in Existing => ~Forgotten(a)

\* A required action is recorded as rolled back only when its own entry was
\* verified and unlinked: pathname absence discharges nothing, however often
\* the pass is interrupted and repeated (cleanup.rs, outcome_for).
AbsenceIsNotProof ==
    \A a \in Required \ accepted :
        ~raced /\ disk.st[a] = "rolled_back" => loc[a] = "unlinked"

\* As long as the operator has not asserted otherwise, a live child runs over
\* a journal quarantined as `supervising`: the launch is recorded before the
\* spawn, and nothing but proof of death moves it on (app.rs, recover.rs).
ChildRunsUnderSupervision ==
    child = "alive" /\ ~operator => onDisk /\ disk.status = "supervising"

\* A journal reaches `kept` only from an orderly session: every action is in
\* place and no child runs, so a crash or a partial apply can never be
\* reinterpreted as requested retention (recover.rs, cleanup_recovered).
KeptMeansWhole ==
    onDisk /\ disk.status = "kept" =>
        /\ \A a \in Actions : disk.st[a] \in {"applied", "reused"}
        /\ child # "alive"

\* A session that met no crash and no failing call, and at most one move by
\* another program, leaves no entry at a recorded path when it ends, whether
\* it ran to its end or rolled back a partial apply. A helper directory may
\* stay when it holds something or when an entry inside it is unaccounted for.
LeavesNothingBehind ==
    pc = "idle" /\ ~KeepMounts /\ crashes = 0 /\ faults = 0
    /\ meddling <= 1 /\ edited = {} =>
        \A a \in Created : loc[a] \in Candidates =>
            /\ Op[a] = "mkdir"
            /\ \/ ~EmptyDirectory(a)
               \/ \E b \in Contents(a) : loc[b] \in {"away", "destroyed"}

(* Action properties: what a step may never do.                            *)

\* No step of the process removes or moves an entry the transaction did not
\* create, nor a created file another program has changed since. Where mutation
\* is not bound to a handle, a change that falls after the last check is the
\* documented residual window (ADR 0014).
OnlyOwnEntriesRemoved ==
    [][meddling' = meddling /\ ~raced =>
        /\ foreign \subseteq foreign'
        /\ \A a \in edited : loc'[a] = loc[a]]_vars

\* Only a pass the operator asked for removes a mounted entry while the child
\* that uses it is alive.
NoRemovalUnderLiveChild ==
    [][\A a \in Actions :
        child = "alive" /\ loc[a] # "unlinked" /\ loc'[a] = "unlinked" =>
            operator]_vars

\* An entry reaches its destination only after the evidence its removal needs
\* is durable: a crash right after the rename is always recoverable (apply.rs).
PlacedWithEvidence ==
    [][\A a \in Actions :
        pc = "rename" /\ loc[a] = "temp" /\ loc'[a] = "final" =>
            onDisk /\ disk.ev[a] /\ disk.st[a] = "staged"]_vars

\* A kept journal and the entries it describes are changed by an operator's
\* cleanup only; no recovery pass reclaims them.
KeptIsLeftAlone ==
    [][onDisk /\ disk.status = "kept" /\ <<onDisk, disk>>' # <<onDisk, disk>> =>
        mode = "explicit"]_vars

(* Liveness.                                                               *)

\* Every apply, rollback and cleanup pass ends: the process exits or waits for
\* the child it launched.
EveryPassEnds == pc \notin {"idle", "wait"} ~> pc \in {"idle", "wait"}

\* What can block an explicit cleanup for good: a recorded path of a pending
\* required action holds an entry whose ownership cannot be proved.
Obstructed ==
    \E a \in Required, p \in Candidates :
        /\ disk.st[a] \in MayHaveCreatedSomething
        /\ Occupied(a, p) /\ ~Verified(disk, a, p)

\* An operator who keeps running `asm cleanup` gets every journal out of the
\* way unless such an obstruction remains or its own session still waits for a
\* child; in particular an absent entry never strands a transaction.
OperatorCanRetire ==
    <>[](\/ ~onDisk \/ disk.status = "completed" \/ Obstructed
         \/ pc = "wait" /\ child = "alive")
=============================================================================
