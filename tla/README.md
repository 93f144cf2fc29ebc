# A verification of SkillMount in TLA+

SkillMount (`asm`) mounts a selected set of Skills into the discovery directory
of a coding agent, starts the agent as a child process, and takes away exactly
what it mounted when the agent is gone. It may be killed at any instant, several
sessions may share directories, other programs ignore its locks, and the child
may outlive it. This directory models the parts of the program on which that
promise rests, checks them with TLC on small instances, and proves with TLAPS, for every
instance, nearly all of the safety properties that the runs check: those of a transaction and
of its journal file, of concurrent sessions and their locks, of supervision and the signal
ledger, of the version observation and the link probe, of the walks over links and Skills, of
the catalog and of the mount plan.

Paths below are relative to `src/`, and lines are those of the files there.

## 1. The system

| Component | State it keeps | Operations | Hard behaviour |
|---|---|---|---|
| transaction (`src/transaction/`) | journal in memory, placement residue, position in the plan | `open_with`, `apply`, `create_and_place`, `roll_back`, `begin_supervision`, `cleanup*`, `recover_stale*`, `cleanup_explicit` | crash or failing write between any two steps; entries moved or edited meanwhile |
| journal (`src/journal/`) | one document per transaction: status, keep request, actions, identities, lock resources | `persist` (atomic replacement), `scan`, `load`, `remove`; codec | failure or loss of power before or after a replacement; listing and loading are two steps; paths of any bytes, documents of an older build |
| link backend (`src/link/`) | links, directories and configuration files | create, place without replacing, verify ownership, remove | a change between the last check and the mutation; handle-bound on Windows, by pathname on Unix |
| resource locks (`src/lock/`) | advisory locks held, keyed and ordered | `describe*`, `lock_keys`, `authorizes_*`, `acquire`, `acquire_more`, `try_acquire_missing`, `reacquire_all` | keys that depend on which directories exist; promotions, waiting cycles, locks taken one by one |
| session loop (`src/app.rs`) | accumulated lock requests, plan, journal snapshot | `run_session`, `stabilize_resource_locks`, recovery, spawn boundary, cleanup callback | a plan built under fewer locks than it needs |
| process supervision (`src/process/{mod,driver,unix}.rs`) | child, group, interrupt path, post-root timer | launch, probe, forward, force and confirm, finalize, cleanup permit, `map_exit` | signals at any time, reused process numbers, descendants that outlive the root |
| Windows process control (`src/process/windows*.rs`) | job object, console handler | assignment to the job, force, count of active processes, console events | an assignment or a resume that fails after the child exists |
| signal ledger (`src/process/event.rs`) | one atomic 64-bit word | `acquire`, `activate`, `record`, `take`, `begin_finalization`, `release` | lock-free, shared with signal handlers |
| link resolution (`src/link/resolve.rs`, `src/mount/resolve.rs`) | visited keys, depth | `resolve_chain`, `classify` | cycles under two spellings, the depth bound |
| catalog (`src/catalog/`) | resolutions and shadows so far | `discover_sources`, `fold_sources`, `reject_canonical_aliases`, `validate_resolutions` | names that differ in case, one directory under two names, walks of `SKILL.md` |
| mount planning (`src/mount/`, `src/agent/mod.rs`) | scopes, indexes, decisions | `dedupe_scopes_by_terminal`, `discovery_indexes`, `apply_conflict_policy` | roots that reach one directory, occupants of unequal authority |
| agents (`src/agent/`: Codex, Claude, OMP) | stack, visited set and inventory of the Codex walk | `inspect_codex_scope`, `inspect_discovery`, argument scans, `catalog_policy`, launch invariants | bounded walks over links; two readers of one argument list |
| version observation (`src/agent/version.rs`, `CaptureDomain`) | child, domain, two readers, two deadlines | `start`, `await_output_bound`, `finish`, `stop_after_setup_failure` | descendants that keep the pipes or leave the group, a reused group number, any call failing |
| operator commands (`src/operator/`) | none | `asm cleanup` (explicit recovery), `asm doctor` (reports, and probes a link) | overlaps running sessions; a probe that fails halfway |
| CLI, rendering, paths, state directory | none | parsing and presentation | none shared |
| packaging, release scripts | outside the program | | |

**How they interact.** `run_session` calls an agent adapter and the mount planner
to build a plan, and asks the lock component for the resources the plan depends
on. Under those locks it scans the journal store, recovers what dead sessions
left, replans, and repeats until the lock set no longer changes (at most 8
passes). It opens a transaction, which drives the link backend and the journal
store, records that supervision begins, and calls the supervisor. The supervisor
leases the signal ledger, starts the child and polls; when it can prove the
child's domain empty it runs the transaction's cleanup as a callback. The locks
are dropped only after that. A crashed session leaves its journal to whichever
later session or `asm cleanup` can take every lock the journal recorded.

**What makes each part correct.**

- *Transaction*: nothing it created is ever forgotten; nothing it did not create
  is ever taken; nothing is removed under a live child; every pass ends; an
  orderly session leaves nothing behind; an operator can always get an
  unobstructed journal out of the way.
- *Journal*: whatever dies and whenever, its name leads to one whole version, the last
  that was answered for or a later one; what is read of it is what was written.
- *Locks and sessions*: who works on one store contends for it; every owned path is
  covered by a held mutation key; no cycle of waiters; no stale plan; only the journals of
  dead sessions are recovered, and each by one session.
- *Supervisor*: the permit to clean up proves the child gone; no signal reaches a
  stranger; a liveness doubt is never turned into a success; supervision ends.
- *Version observation and link probe*: an answer is what the agent itself said; force
  reaches nobody else; the observation ends; what a probe leaves it reports.
- *Link walk, catalog, mount planning, agents*: what is read of a directory is what is
  there; the rightmost source wins or nothing is mounted; no Skill that is not the
  selected one hides behind a mount; no forwarded argument moves the child out of
  the planned session.
- *Signal ledger*: no occurrence is lost, doubled, reordered, or carried into a
  later session.

## 2. The modules

| Module | Models | Composed with |
|---|---|---|
| `Transaction` | one transaction from `open_with` to the removal of its journal, in the first process and in every later one, and the programs around it | |
| `Ownership` | abstract: what a transaction promises about what it creates | |
| `TransactionRefinesOwnership` | the mapping from the first to the second | both |
| `Document` | the records of a journal, their encoding as tokens and lines, and what is validated before one is acted on | |
| `JournalFile` | the calls of `journal/store.rs` that replace and remove one file, with kills and losses of power; documents are opaque | |
| `AtomicJournal` | abstract: what the rest of the program is promised of that file | `JournalFile`, by `INSTANCE` |
| `JournalStore` | a transaction's journal: an owner that stores ever later versions, the process that adopts it, and a scan | `JournalFile`, `Document` |
| `LockSet` | lock requests as functions from ordered keys to accesses | |
| `Sessions` | several processes over one set of locks and one journal directory: sessions, sessions with `--no-recover`, and `asm cleanup` | `LockSet` |
| `LockKeys` | which resources every adapter describes, the keys they hash to, the passes until they are held, and the authority check at opening, beside sessions that create and remove the directories these depend on | stands for the numbered keys and layouts `Sessions` takes as given |
| `EventLedger` | the lock-free ledger, each load a step of its own | |
| `SignalQueue` | abstract: the queue the supervisor relies on | |
| `EventLedgerRefinesQueue` | the mapping from the ledger to the queue | both |
| `Supervisor` | supervision of one child on Unix and on Windows | `SignalQueue` by `INSTANCE`, so it runs on what `EventLedger` is proved to implement |
| `Capture` | the bounded `--version` observation and its process domain | |
| `LinkProbe` | the link probe of `asm doctor` | |
| `LinkWalk` | the bounded walk over a chain of links | |
| `SkillFile` | the catalog's own walk over a `SKILL.md` entry, with its other loop bound | `LinkWalk` |
| `Discovery` | the depth-first, bounded Codex inventory | |
| `MountPlan` | folding of discovery roots, both indexes and the conflict table | |
| `Metadata` | what each adapter and validation level demands of a Skill | |
| `Catalog` | from the configured sources to the selected Skills | `Metadata` |
| `Arguments` | the scan of forwarded arguments by each adapter, and the agent's reading of the list it gets | |
| `MCTransaction`, `MCSessions`, `MCLockKeys`, `MCEventLedger`, `MCJournalStore`, `MCDiscovery`, `MCMountPlan`, `MCCatalog` | constants for TLC | |
| `MCPlanning`, `MCDiagnosis` | several small components in one run: each has the behaviours in which the others stand still | what they extend |
| `Transaction_proofs`, `Sessions_proofs`, `LockKeys_proofs`, `Supervisor_proofs`, `EventLedger_proofs` | theorems | the module each is named after |
| `Journal_proofs` | theorems about a journal's file, its document and both together | `JournalStore` |
| `Observation_proofs` | theorems about what is observed: entries and links, Skills, the agent's version, whether links work | `LinkWalk`, `SkillFile`, `Discovery`, `Capture`, `LinkProbe` |
| `Planning_proofs` | theorems about what is mounted and what is forwarded | `MountPlan`, `Catalog`, `Arguments` |

A definition whose comment says *(Mutant: ...)*, or that stands right before a
definition of the same form and is used nowhere, is a plausible bug kept for
mutation testing: each property of a passing run fails when such a definition
replaces its neighbour. No action uses one.

### Transaction

`disk` and `onDisk` are the durable journal; `mem` is the journal of the process.
A journal holds its status, the keep request, each action's status and whether
the evidence removal needs (identity, concrete kind, target) is recorded.
`loc` says where the entry an action created is: nowhere, at its temporary or its
final path, `away` (another program moved it beyond every recorded path),
`unlinked` (removed by the transaction) or `destroyed` (deleted by another
program). `foreign` is the set of recorded paths that hold somebody else's entry,
`edited` the created files changed in place.

`pc` names the step of the process, and there is one action per step at which it
can die or fail:

| Code | Actions |
|---|---|
| `open_with`, `apply` | `Open`, `BeginApply`, `ConfirmReuse`, `Drift`, `Intent`, `Activate` |
| `create_and_place` | `CreateStaged`, `CreateFails`, `Stage`, `VerifyStaged`, `RenameNoReplace`, `RenameFails`, `ConfirmPlaced`, `PlacementFailure` |
| `run_session` around the child | `SpawnBoundary`, `BeginSupervision`, `EmitDiagnostics`, `Spawn`, `ChildProvenDead`, `LivenessUncertain` |
| `cleanup_with_missing_link_policy`, `roll_back`, `reconcile_pending_actions` | `BeginCleanup`, `Keep`, `SkipAction`, `PassEnds`, `RecordFailure`, `Complete`, `Retire` |
| `clear_action`, `remove_candidate`, `outcome_for` | `ClearAction`, `ScanCandidate`, `VerifyForRemoval`, `Unlink`, `UnlinkFails`, `Settle`, `SettleAborts`, `LeaveUnresolved` |
| `recover_stale`, `cleanup_explicit` | `Recover`, `CleanupExplicit` |
| outside | `Crash`, `ChildExits`, `Occupy`, `Litter`, `Vacate`, `MoveAway`, `MoveBack`, `Destroy`, `Edit` |

Every durable write has the three outcomes of `store::persist`: done, failed
before the replacement, failed after it. Creation and the first observation of
the created entry are one step, as ADR 0015 has it; when the observation fails
the entry is retained (third disjunct of `CreateFails`). On a platform that
mutates by pathname (`HandleBound = FALSE`) another program may move between the
last check and the mutation; the model lets it, and the history variable `raced`
records that it happened, which is the residual window ADR 0014 documents.
`HandleBound = TRUE` models the shared-read handle Windows keeps open: the object
under it can be neither moved nor edited.

A journal always records a mutating lock on the discovery entry and the backing
store, so two invocations never work on the same journal at once; that exclusion
is what `Sessions_proofs` proves (`EachIsRecoveredOnce`, `OnlyTheDead`) and what lets
`Transaction` have one process.

### JournalFile, Document and JournalStore

`JournalFile` has one action per call of `persist_document` and `remove_durably`.
`final` is what a process finds under the journal's name, `survives` the set of what
may be found there after the power is lost: a rename adds to it and the flush of the
directory settles it, on Windows the rename does both. A temporary file that was not
synchronized may be torn. `stable` and `tried` are what the store answered for and was
asked for since; with `final` they are the state of `AtomicJournal`. `Transaction`
takes a durable write to be done, failed before or failed after it took effect: those
are the steps of `AtomicJournal`.

In `Document` a path is the sequence of its bytes, and a token what `encode_bytes`
makes of it; statuses and other labels stand for themselves. A line is a record's
name and a function from keys to tokens. `FromLines` gives the set of journals that
lines can be read as, empty or one: every field required, every label known, and
`Validates` holds, which is `validate` conjunct by conjunct. A checksum is the body it
was taken of, that is, one without collisions. `JournalStore` numbers the documents in
the order they are written and keeps in `memory` the journal the owner acts on; `Later`
are the ways its methods change one before they persist it.

`IsJournal` is what the structs of `journal/mod.rs` can hold (`IsValue`, `IsRecord`: labels,
numbers, text of UTF-8 and paths of any bytes, the optional fields there or not). A journal is
gathered line by line (`Gathered`), as `from_lines` pushes each line's record onto its vector,
and `JournalOf` is what its lines say before anything is required of them. The assumptions of
`JournalStore` say what its constants are: journals a transaction opens with are such as
`Transaction::open_with` builds (`OpenedAreSound`: its lock set covers its entries, which is
module `LockKeys`' subject), documents found are lines of fields (`StoredAreDocuments`), and
progress is recorded in labels and text (`ProgressIsRecordable`). TLC checks them on both runs.

### Sessions

Each process has a role: a session, a session with `--no-recover`, an operator's
`asm cleanup`, or a process of an earlier time that died and left its journal. A
session goes through `preflight`, a first scan, blocking acquisition,
reconciliation (list, load, claim, probe, take immediately, reload, decide,
recover), planning, and the check that the plan's lock set is the one held. The
operator claims every journal in its scope before it reconciles any; when a claim
needs a promotion it drops all locks, takes the union again without waiting and
reloads what it had claimed. Every lock is taken in its own step. `dirty[s]` is the
set of keys whose resource another process may have changed since `s` planned.
`Layouts[s]` are the lock sets a replanning may come up with. A journal here is a
status and a lock set.

### EventLedger, SignalQueue and Supervisor

The ledger's word is a record of its five bit fields. `seen` and `hseen` hold
what a thread loaded, so a compare-and-swap can find a different word than the one
it was computed from; a strong exchange in `record` retries on what it found.
`Supervisor` runs the polling driver over the abstract queue: a batch is drained,
the child is probed, each event of the batch is handled, forces are attempted
twice and each is confirmed by a bounded number of polls, and after the proof of
death the finalization races signals that still arrive. The operating system
may reuse a reaped group's number (`NumberReused`); `stray` records whether a
signal went to a number that may be somebody else's. Dropping the backend while
it is armed forces once more and waits once more. On Windows the domain is a job:
the child is assigned to it before it is resumed, a child that could not be
assigned is terminated, and death is a job that counts no active process. What the
child forked before the assignment is outside the domain, which
`docs/adr/0019:76-80` accepts; there is nothing a signal could reach by a reused
number.

### LockKeys

A path is a sequence of components, a directory its canonical path, and links are
fixed. `Describe`, `Shared`, `Unanchored` and `Legacy` are the ways `lock/mod.rs`
describes a resource; `Keys` gives its logical and, where it exists, its physical
key. `CodexResources`, `ClaudeResources`, `StagingResources` and `OmpResources` are
the lock lists of the adapters' `inspect_discovery`, `Creates` and `Mounted` the
paths their plans own. A session inspects without locks (`Inspect`), takes the keys,
inspects again with the staged siblings of its own identifier added, expands until
what it needs is what it holds (`Expand`, `Stabilize`), and opens if `Authorized`
finds a mutation key over every path it will own. It then creates directories and
mounts, and removes both. Keys are taken at once: order, waiting, the bound on the
passes and recovery are in `Sessions`, which in turn takes the layouts as given.

### Capture and LinkProbe

The observer of `Capture` is `RunningCapture`: `start` up to `StartReaders`,
`await_output_bound` in `Receive`, `TimesOut`, `StopEarly` and `OutputEnds`, `finish` in a
loop of `Poll`, `Reap` and `Probe` up to `Finish`, and the same for
`stop_after_setup_failure`. The readers are threads of their own and answer through a
channel. The root, one descendant and the owner of a reused number are the
environment: they write, close, fork, detach and exit. `holders` says who has the write
end of which stream, `cut` which streams lost their writer to a kill. Only this process reaps its
child, so a number is reused only after `Reap`. A signal to a group reaches any part of it, or
nobody: where the system refuses it (EPERM), `unix.rs:49-50` takes that for success, and
a forced end is therefore confirmed by what is seen of the group afterwards.

`LinkProbe` has one action per step of `probe_link_capability` and of `cleanup_probe`.
A call may fail without its effect or after it (`CreateRoot`, `CreateSource`, `CreateLink`), and
other programs delete, replace, edit and add entries between any two steps.

### LinkWalk and SkillFile

`layout` (in `Discovery`: `tree`) is the file system: what each path holds and where each link leads; two
paths may name one entry, with or without an identity that tells (`VisitKey`). A walk
takes one entry per step and ends in a verdict. `SkillFile` reruns the walk with
the loop of `catalog/validate.rs`, whose range excludes its last value: a chain of
exactly the ceiling's links is accepted as a directory and refused as a `SKILL.md`.

### Discovery, MountPlan, Catalog, Metadata

`Discovery` keeps the explicit stack, the visited set and the three bounds of
`inspect_codex_scope`; a step pops one directory. `MountPlan` folds the roots one by
one (`dedupe_scopes_by_terminal`), builds the index by declared and by file system
name, and decides each selected name by the conflict table; a root holds its kind,
its entry and the terminal directory it resolves to. `Catalog` prepares the sources,
folds them from left to right, rejects two names of one canonical directory, and
validates; `Metadata` is the table of policies by level that validation consults. Codex
and Claude Code resolve a catalog so; OMP hands over whole directories
(`omp/mod.rs:134-140`), and its policy decides over no Skill.

### Arguments

Each adapter walks the list with its own tables; a table is represented by the words
that differ in which tables hold them. Behind the accepted list stand the options
the plan itself injects, and `Reading` is how the agent then cuts the whole: it is
external, taken from what the adapters' comments and tables say of the agents.
For Claude Code the plan injects `--settings` in every mount mode, and `--add-dir` with
the staged directory before it only in the staged one (`MountModes`, `Injected`).

## 3. The runs

`tlc -workers 4 -config <run>.cfg <module>` reproduces a run. Deadlock checking
is off where the system really may stop (a finished transaction with no bounds
left, a finished supervision, an idle ledger); it is on in the runs of
`Sessions`, where ending is an explicit step; there `EverySessionEnds` also catches
a cycle of waiters that only a crash could resolve.

### Runs that pass

**TransactionStaged** (`MCTransaction`). A helper directory holding a
configuration file and a link of mode `auto`, on a pathname platform, with two
crashes, one failing call and two moves by other programs. Three actions are the
least that have a directory with two required entries in it, one of which may
stay unresolved while the other goes; two crashes let a pass die and its repeat
die again; two moves let something be taken away and put back, or replaced.
- `OwnedStaysRecorded`: what exists is pending in the journal on disk.
- `AbsenceIsNotProof`: what is recorded as rolled back was verified and unlinked.
- `ChildRunsUnderSupervision`: the quarantine around the child.
- `OnlyOwnEntriesRemoved`: no step takes what is foreign or edited.
- `LeavesNothingBehind`: without crash and failure, an orderly end or a rollback
  leaves no entry, and a helper directory only when it holds something or cannot
  account for one of its entries. One move by another program is allowed, since
  two can always hide an entry and put something in its place.

**TransactionKept**. `--keep-mounts` over a helper directory that holds a created
file and a created link, beside a reused link, on a handle-bound platform, two
crashes, one failing call, one move, under fairness: `KeptMeansWhole`, the refinement
`KeepsOwnershipPromise`, and the liveness property `OperatorCanRetire`. Four actions are the least
with a nested entry, a reuse and a sibling; a reuse is what must be kept and never
removed.

**SessionsContended**. Three casts of processes over three keys, one crash, waits
that may time out. Three sessions of which two end up with the same destinations,
so that one expands forward and the other must release everything and reacquire;
a session and an operator that meet the journals of two dead sessions, the second
of which costs the operator the locks on the first; and a session with
`--no-recover` beside one that recovers. `NoStalePlan`, `WaitsInOrder`,
`OnlyTheDeadAreRecovered`, `EverySessionEnds`. Two passes stand for the
code's eight: the first may find its lock set unstable and the second is the last,
after which the session must refuse.

**LockKeys**. Every pair of seven sessions: Codex in two projects and in a home, Claude
in two projects, one of them a linked worktree, a staging session, and OMP; in twenty
layouts: the scopes of the second project and of the home may be links to those of
the first, or lie in a directory that is one, and what they lead to may exist or
not. The state directory is reached through a link, so that the canonical spelling of
what a staging session owns differs from the one it plans with. Two sessions are
enough for properties of pairs, as what a third would create another layout has
already. `EveryOwnedPathIsCovered`: opening never ends in its internal error, and a
written journal decodes while directories come and go. `UsersOfAStoreContend`: two
sessions at work share a store only under different names that did not both lead
to it when they planned.

**Supervisor**. Foreground child, dedicated group or job; three signals, one failing
call, two confirmation polls and one recheck poll for the code's 600 and 20: the loop
is the same for every count, and two polls already separate the first from the
last. A third signal is the first that can arrive after the path is complete. Seven
properties: the permit proves death, no stranger is signalled, a doubt stays a
doubt, success is whole, no panic, and two terminating ends.

**EventLedger**. Two owners that race for the lease, two handlers, three
generations, four signals: more signals than the ledger can count, and a
generation space that is exhausted. Threads are symmetric; the kinds of signal are
not, because their order is what is checked. `ImplementsQueue` is the refinement.

**JournalStore** (`MCJournalStore`). A journal of this build, one of a newer build, or
none is found; a transaction opens with a plan that creates a directory and a link, or
one that creates a configuration file and reuses a link, and its journal is stored
up to twice. The project's path holds a space, an equals sign, a line feed, the escape
and a byte that is no text: every class the codec tells apart. Two saves are the least
in which a version is replaced while another is, or may again be, under the name.
`MaxLines` is 12, so that journals with and without another error line lie on both
sides of it; `MaxConfig` is 1.
- `CrashKeepsAVersion`, `ImplementsAtomicJournal`: the file, on both platforms.
- `WhatIsSavedLoads`: what the owner comes to hold is what the next process would read,
  unless it outgrew the bound that only the reader enforces (`codec.rs:25-28`; a line
  per source, lock, action and error).
- `DamageIsNeverActedOn`: a body cut, shortened or repeated in part, a foreign header.
  The version lies outside the checksum: changed from 2 to 1 it strengthens
  locks and nothing else.
- `ScansReadVersions`: an unlocked scan reads a whole version or finds none.

**Diagnosis** (`MCDiagnosis`). `Capture`: two streams of which one byte may be written,
one descendant, one failing call, both platforms. The bound on bytes is a comparison; one byte
below it and one above show both outcomes. One descendant can be inside or outside the
domain, with or without the pipes. `LinkProbe`: two failures and two doings of other
programs, so that a failing step meets a failing cleanup.
- `AnswerIsTrue`: a banner comes from a root that ended well by itself, of streams read
  to their end, none cut off by force; and nobody of the domain lives then.
- `KillsOnlyItsOwn`, `ObservationEnds`, and for the probe `LeftoversAreReported`.

**Planning** (`MCPlanning`). Five components, none of which waits for another's result
here.
- *LinkWalk, SkillFile*: every layout of three paths over three entries, two links deep:
  cycles of every length up to three, a path that is another's alias, and chains of one
  link more than the bound. `VerdictIsTrue`, `AcceptedIsOwn`.
- *Discovery*: a chain of four directories with links from any to any, depth two, three
  directories, five entries: each bound can be the one that is hit. `NothingDropped`: what
  an expanded directory leads to is visited or on the stack. It says nothing of a
  directory that was met and not expanded, which is the question of DiscoveryDepth, with
  room for all four directories.
- *MountPlan*: three roots over two directories, in any order, with up to two entries: two
  roots of one terminal and unequal authority, a declared name other than the file
  system's, occupants of one name in several roots. `NothingForeignIsOverlooked`,
  `MountsLandOnNothing`.
- *Catalog*: three sources (a name can be overridden twice) with names that differ in case
  only, aliases and inaccessible directories; and every content of a Skill under the
  policy of each adapter that resolves a catalog, and every level. `RightmostOrNothing`:
  each name has its last source's candidate, no source that was folded has a name twice in
  any case, and no two names lead to one directory.
- *Arguments*: every list of up to four words for each adapter, and for Claude Code each
  mount mode: an option, its value, a terminator and a command fit in it. `NothingEscapes`.

Definitions of properties that no run checks (`TypeOK` of most modules and
others) held when the modules were written and are kept for use with other instances
(`SkippedIsUsable` and `ValuesAreOpaque` are proved); a run asks the questions that cover most.

### Runs that show a disagreement

| Run | Property and where it is said | What the code does |
|---|---|---|
| SessionsStandoff | `DeadAreSettledFirst`: `src/journal/mod.rs:117-118`, "Every other state needs attention before a later invocation may mutate overlapping resources." | a contended journal is taken for a live session's (`recover.rs:420-423`, 577). Two sessions that each use a part of what a dead one recorded are each other's contention, and both open over its journal. |
| LegacyRewritten | `LegacyStaysReadable`: `docs/adr/0039:23`, "Schema version 1 remains readable by mapping every legacy record to `Mutate` and retaining its conservative legacy authority rules because it did not record staged-sibling keys." | the first `advance` of the recovery that adopts a schema-1 journal stores it by `render_document`, as schema 2 (`store.rs:113-115`, `codec.rs:231-233`), without the staged-sibling locks that schema 2 demands (`journal/mod.rs:825-848`). If that pass does not finish, the next process finds the journal corrupt, and a corrupt journal stops every recovery until somebody removes it by hand. |
| DiscoveryDepth | `InventoryIsComplete`: `docs/adr/0021:86-89`, the adapter SHALL "use the pinned traversal bounds" and "fail closed when its bounded inventory cannot be completed"; `src/agent/codex.rs:35`, "Maximum directory depth below one configured Codex discovery root." | `inspect_codex_scope` walks depth first and visits a directory once, at whatever depth it is first met (`codex.rs:366-368`, 531). One first met at the depth bound is not expanded when a shorter way, a link, leads to it later: of the chain 1, 2, 3, 4 with a link from 1 to 3 and depth two, the walk completes without the Skill at 4, which is two levels below the root. |

One more was met while modelling and is not a run.

- `lock/mod.rs:9-10` says that "two spellings — an alias, a second worktree — that
  reach one directory contend". A session that creates its store holds the logical key
  of its own spelling only. Another session whose scope is a link to that store, and
  which inspects after the store was created, asks for the store's physical key and for
  logical keys of its own spelling, and the two meet in none. Without its last
  conjunct, which excuses what one of the two did not find in place,
  `UsersOfAStoreContend` fails so within sixteen steps: a Codex session has created
  `.agents/skills` below a linked `.agents`, and a session that reads it through
  another link opens.

Wordings that are stronger than the code, found while modelling and kept as notes:
`cleanup.rs:301-302` says a crash never leaves a claim on an obligation already
discharged, but the entry is unlinked (418-423) before its status is written
(355-356), and the repeated pass is safe for another reason (absence is not taken
for its own removal); `apply.rs:12` says stopping anywhere leaves state a later
invocation can reconcile, but between creation and the staged write there is no
durable evidence and the entry stays, as `tests/transaction.rs:1161` has it;
`process/mod.rs:523-524` says "Second observed interrupt", but a batch whose first event
finds the child dead is dropped (`driver.rs:70-75`); `README.md:226` says independent
sessions can overlap, but a scan that lists a journal which is retired before it is
loaded makes an unrelated session refuse (`journal/store.rs:285-332`);
`store.rs:110-112` says a failure of `persist` is reported before the mutation it
was about to describe, "so the caller has not yet changed anything", yet the journal
itself may have been replaced when the flush fails; and removing a journal that is gone
already answers without a flush (`store.rs:224`).

## 4. Fairness

- `Transaction`: `WF(Runs)`: a process takes its own next step unless it waits for
  a live child; all its steps are sequential code without waiting. `SF(CleanupExplicit)`:
  the operator runs `asm cleanup` again and again, and gets in between
  other passes. The child need never exit: `OperatorCanRetire` excludes the wait of a
  session for its own child.
- `Sessions`: weak fairness of each process's own steps. A blocked lock request has
  no enabled step; the operating system grants it once it is free. That a wait times
  out is never relied on. That a child exits is assumed here, and only for
  `EverySessionEnds`.
- `Supervisor`: weak fairness of the polling driver, and of the clock behind the
  post-root time limit. The child, its group and the signals owe nothing.
- `Capture`: weak fairness of the observer, which waits only with deadlines, and of the
  clock. The agent, its descendant and the readers owe nothing.
- The others: none; only safety is checked. A lock-free exchange of `EventLedger` can
  in principle be repeated for ever, and the sequential modules stop when their
  work is done.

## 5. The proofs

`tlapm <module>.tla` checks every obligation of the eight modules of proofs. For
`Transaction` the assumptions are those of `Transaction`: there is at least one action;
each is a directory, link, configuration file or reuse; containment goes from a
directory to later created entries, is transitive, and of two directories that hold one entry
one holds the other; the bounds are natural numbers. Its
theorems therefore hold for every plan, both platforms (`OwnershipIsKept`: the handle-bound
one), with and without `--keep-mounts`, and any number of crashes, failures and moves.

| Theorem | Inductive invariant and why it is needed |
|---|---|
| `TypeCorrect` | `TypeInv` adds that `cur` names an action wherever the code dereferences it; without it `loc[cur]` has no type. One lemma per group of variables. |
| `ChildIsQuarantined` | `QuarantineInv`: the launch is already durable when the process gets to the spawn, and nobody but the waiting session works on the journal of a live child. |
| `NothingRemovedUnderLiveChild` | from `QuarantineInv`: the unlinking label is not among those at which a child can be alive. |
| `KeptStaysKept` | `KeptInv`: a kept journal is at rest or adopted by an explicit pass that has not written yet; `ModeInv` says which label belongs to which pass. |
| `EvidenceBeforePlacement` | `WriteAhead`: memory and disk agree between any two steps of the apply, and what they say at each label of an action. |
| `KeptIsWhole` | `WholeInv`: everything before `cur` is in place during the apply, hence everything once it is over; an adopted journal has lost its request (`ModeInv`). |
| `OwnershipIsNeverForgotten`, `AbsenceNeverDischarges` | `OwnedInv`: for each required action, what exists is pending in both journals, and what either calls rolled back was unlinked; `UnderHand`: a removal verified in this pass is the removal of the action's own entry; `PassInv`: a pass that reaches `complete` has left no required action pending. |
| `OnlyOwnIsTaken` | `StillVerified`: until a race, what the last check saw is what the mutation meets; `Untouched`: an action not yet reached has no entry. |
| `OwnershipIsKept`, `OwnershipIsKeptUntilRaced` | `PromiseInv`: what is claimed on disk is pending in memory, was unlinked, or is the operator's responsibility (`ClaimInv`: what disk and memory say of each required action between two writes), so that a write that drops a claim drops none whose entry may still be there. With handles no race is possible and the refinement is whole; by pathname it holds up to the first race. |
| `QuietSessionsLeaveNothing` | `QuietInv`, under the hypothesis that the session is quiet so far: a planted, moved or destroyed entry is the one move there was (`OneMove`); what the apply came past is in place (`InOrder`) and observed (`Observed`); what was made is pending until it is unlinked (`StillPending`); what is pending and was never made was in another program's way (`NeverMade`); and behind the pass nothing is left that could be removed (`PassSoFar`, `PassDone`). A pass goes backwards, so a directory is met when its contents are gone (`Contained`). |
| `CleanupMeansDead`, `StrangersAreLeftAlone`, `DoubtStays`, `SuccessMeansWhole`, `UnreachableIsNotReached` (`Supervisor`) | `SupervisorInv`: what is in hand at each label (`HandInv`); nothing is forced without a failure or an event to answer for (`PathInv`); what is left of the child and its domain at each label (`ChildInv`); the leader of a group is known to be reaped before its number can be taken for its own (`StrayInv`); a doubt, once had, is in the answer (`DoubtInv`). For any number of signals, polls and failing calls. |
| `WalkIsTrue` (`LinkWalk`) | the chain from the start to the current entry is a path of links no longer than the depth, all of whose keys were visited; a repeated key therefore is a cycle, and the bound is hit only by a chain that is longer. Assumed: the sets of paths and entries are disjoint from the markers, the bound is a natural number. |
| `SkillFileIsOwn` (`SkillFile`) | `SkillInv`: the entries inspected are those behind the walk, which stands at the end of its links. |
| `NoSkillIsDropped` (`Discovery`) | `InventoryInv`: what an expanded directory leads to is observed or waits on the stack; that a directory's entries are all taken, in their order, rests on a lemma that enumerates any set of positions. For any layout, cycles included, and any bounds. |
| `ForeignSkillsStopTheMount`, `LinksLandOnNothing`, `SkippingKeepsAUsableSkill` (`MountPlan`) | after any number of folds each root seen has a survivor with its terminal and a compatible authority, so each entry of a root is in the indexes; the decision then rests on the strongest occupant. For any number of roots and any contents. |
| `RightmostWins` (`Catalog`) | `CatalogInv`: after `n` sources each key that one of them holds has the candidate of the last that does (`FoldedUpTo`), and holds no other candidate of that key; what is validated is valid and of pairwise different directories. Assumed: at least one source, which the command line demands. |
| `AcceptedArgumentsStay` (`Arguments`) | `ArgumentsInv`, one part per adapter: no option before the place the scan has come to claims a word from there on in the agent's reading (`Reached`), so that both see the next word in the same part; the words passed hold no control the agent would act on, no rejected mode and, as the first word that is no option, no command; the directories collected are those the agent reads. For Claude Code this holds behind either list of options the plan puts in front. The reading is defined over the whole list; that each word's role looks only at the words before it (`RoleLooksBack`) is a lemma. Codex's scan for controls stops at the first `--`; should that word stand where an option wants its value, controls behind it would go unseen, but such a list is Codex's own usage error and starts nothing (`TerminatorEnds`). For lists of any length. |
| `RefusedArgumentsLeave` (`Arguments`) | the permission for the home directory is what the options so far say (`HomeInv`), and what is refused is what the agent would act on (`RefusedInv`). For OMP and Claude Code; the Codex scan refuses a control before the first `--` even as another option's value, and every command but `exec` and `review`. |
| `StoresAreContended` (`LockKeys`) | `LocksInv`: locks that exclude each other are not both held (`Exclusive`), and those of a settled plan cover its scopes by name, what it found of them in place, and its store for mutation (`Covers`), for each adapter's own way to describe them. |
| `EveryPathIsCovered` (`LockKeys`) | `PlanInv`: once its plan is settled, a session holds for mutation a key that covers each path it owns (`Granted`), under a spelling that does not change with the directories that exist: as planned, or for a staging session with the links of the way followed. That the two agree for every layout of directories is the point (`SpellingIsCanonical`); layouts never lose their own directories (`LayoutInv`). Assumed, because identifiers are fresh and `ensure_private_directory` fails otherwise (`state.rs:126`): no link is at or below a session's own directory, and links on the way to the state directory lead to directories. |
| `CrashSafety`, `FileImplementsAtomic` (`JournalFile`) | `FileInv`: from the write to the rename the temporary file is the document being stored, or torn, and from the synchronization on it is whole; so only what was asked for is ever renamed over the name. For any set of documents, kill and loss of power. |
| `StoreImplementsFile`, `JournalsSurvive`, `StoreImplementsAtomic` (`JournalStore`) | no invariant of its own: each step of an owner, an adopter, a scan or a crash is a step of `JournalFile` or leaves the file alone (the documents it stores are numbered as `Documents` wants them), so that the two theorems above carry over, older journals included. |
| `JournalIsReadBack` (`Document`) | no invariant: a token is read as the bytes it spells, escaped or not, two digits to a byte (`BytesAreReadBack`); a line as its fields (`LineIsReadBack`); and the lines of a journal stand in blocks at known places (`LinesAreLaidOut`), so that gathering those of a record gives its entries in their order (`BlockIsGathered`). For journals of any length. |
| `SavedJournalsLoad`, `DamageIsRefused`, `ScansAreWhole` (`JournalStore`) | `StoreInv`: besides `FileInv`, every document but the one found first is a sound journal as it was rendered, a process holds only sound journals, and the names and requests of the file are numbers of documents written. A journal stays sound through its progress (`LaterIsSound`), because none of what `validate` asks of it changes (`AsksTheSame`); one adopted is sound because it was read under the current rules (`LoadedIsSound`). For any journals, bounds, failures, kills and losses of power. Hypothesis `CurrentOnly`: no document found at the start is of the older schema. It cannot be dropped: a schema-1 journal is stored again as schema 2 without what schema 2 demands, which is the finding of the run LegacyRewritten. |
| `SessionsInvariant`, `OnlyTheDead`, `EachIsRecoveredOnce`, `NoPlanIsStale`, `NobodyWaitsBackwards` (`Sessions`) | `SessionsInv`: the locks two processes hold never exclude each other (`Exclusive`); a journal belongs to a dead session or to one that still holds all it recorded (`OwnInv`), so that whoever holds all of it meets the dead; a process that is about to recover holds all that its claims recorded, and across the gap of an operator wants it again (`ClaimInv`); a resource under a held lock is not dirty (`PlanInv`). For any number of processes, keys, layouts, passes and deaths. Assumed: each layout locks something for mutation. |
| `TakesReturnWhatWasRecorded`, `NoSignalOutlivesItsLease`, `LedgerImplementsQueue` (`EventLedger`) | `LedgerInv`: the word holds the occurrences accepted and not yet taken (`WordInv`); at most one thread has the ledger, and the last generation is never leased (`LeaseInv`); a handler that may still record took its token in the present lease, or in a generation that is over and whose exchange fails (`TokenInv`). For any number of threads, handlers, kinds, generations and signals. |
| `AnswersAreTrue`, `StrangersAreSpared` (`Capture`) | `CaptureInv`: each reader speaks once, and what it says is true of its stream (`StreamInv`); a writer is cut off only after the deadline or after a stream that is refused anyway (`CutInv`); the number of the group is reused only after the root is reaped, the group killed only before (`ReapInv`). For any bound on the output and on failing calls. |
| `NothingIsLeftUnreported` (`LinkProbe`) | `ProbeInv`: an entry is not there before its creation (`NotYet`); a creation that was not interrupted hands everything it made to the cleanup (`Known`); behind each step of the cleanup its entry is gone, or there is an error to report (`Cleared`). |

The invariants were first checked with TLC on the instances of section 3. Each
preservation lemma has one step per action, and the theorem combines them with
`PTL`.

A sequence or a chain computed step by step (the candidates of the sources, the entries of
a directory, the links of a path) is reasoned about by the least number at which a claim about it would fail: the
library's theorem that the order of the natural numbers is well founded gives that number, and
what holds before it refutes it. No step takes an operator for a parameter.

**Only model-checked.** Every liveness property (`OperatorCanRetire`, `EverySessionEnds`,
`TwoSignalsEndIt`, `RootExitEndsIt`, `ObservationEnds`): liveness under fairness is out of the
prover's reach. `LegacyStaysReadable`, `DeadAreSettledFirst` and `InventoryIsComplete` are
violated. Every invariant that a passing run checks is a theorem.
`TypeCorrect`, `PlacedWithEvidence`, `NoRemovalUnderLiveChild`, `KeptIsLeftAlone`,
`RecoveredOnce`, `SkippedIsUsable` and `ValuesAreOpaque` are proved and not run: a proof for every instance leaves
TLC nothing to add.

## 6. What is not modelled, and why

- The text of documents beyond tokens and lines, and collisions of the checksum. Identities
  and hashes: an identity is the fact that an entry is the one the transaction created.
- Reparse buffers, Windows path spellings, frontmatter text: byte-level parsing.
- Settings files and launch invariants: they appear as the configuration files that
  `SpawnBoundary` rechecks.
- What `asm doctor` only reads and reports. Its momentary exclusive claim of each lock
  (`lock/acquire.rs:186-240`) can make another process's immediate claim see contention;
  `Sessions` lets a claim contend with any other process already. In `LinkProbe` the
  races between a last check and a removal that ADR 14 and 15 accept, and an entry that another
  program moved away, are left out: absent counts as removed there as in the code.
- A writer that stores a journal its own reader would refuse for its length: nothing in
  `persist` enforces the reader's bounds (65,536 lines, 4 MiB), and only a plan of tens of
  thousands of Skills would meet them.
- Lock sidecars, the digests behind keys, permissions, lexical path normalization, rendering: data of the plan, or no
  state.
- Release automation and packaging are not part of the program.
- Failing calls and moves are bounded, and in `Transaction` a second process
  never runs beside the first: the locks exclude it, which is what `Sessions` is
  about. A session that overlaps on `observe` keys does not touch the journal.

## 7. Plan

1. `asm doctor` beside a running session, and the launch invariants of the adapters.
2. Lexical normalization of paths, on which keys and authority rest.
