----------------------------- MODULE Supervisor -----------------------------
(***************************************************************************)
(* Supervision of one child process (src/process/{mod,driver,unix,         *)
(* windows}.rs): the launch, the polling driver with its bounded force     *)
(* attempts, the finalization that races late signals, and the cleanup     *)
(* that only a proof of death permits.                                     *)
(*                                                                         *)
(* On Unix a child shares the terminal's foreground group, and its domain  *)
(* is the child alone, or it leads a dedicated group, and its domain is    *)
(* the group. The numeric identity of either stays the child's own until   *)
(* the child is reaped; after that the operating system may reuse it. On   *)
(* Windows the domain is a job, held by handle, once the child is assigned *)
(* to it; a process the child starts before is outside of it, as           *)
(* docs/adr/0019 accepts.                                                  *)
(***************************************************************************)
EXTENDS Naturals, Sequences

CONSTANTS
    ConfirmPolls,   \* FORCE_CONFIRM_POLLS
    RecheckPolls,   \* FAILURE_RECHECK_POLLS
    MaxSignals,     \* bound on the signals that are recorded
    MaxFaults       \* bound on failing system calls

Kinds == {"interrupt", "terminate", "break"}
\* Each platform's handlers report two of them.
KindsOn == [shared |-> {"interrupt", "terminate"}, dedicated |-> {"interrupt", "terminate"},
            job |-> {"interrupt", "break"}]
ForceAttempts == 2

ASSUME PollsAssumption ==
    ConfirmPolls \in Nat \ {0} /\ RecheckPolls \in Nat \ {0}
ASSUME BoundAssumption == MaxSignals \in Nat /\ MaxFaults \in Nat

VARIABLES
    \* the child
    root,       \* the root process
    kin,        \* other live members of its group or job
    recycled,   \* the group's number names another group by now
    status,     \* the root's exit code, 0 or not
    platform,   \* how the child is contained: see above
    attached,   \* it was assigned to the job
    \* the signal queue
    phase, pending,
    \* the supervisor
    pc,
    batch,      \* drained events not handled yet, the one in hand first
    path,       \* the InterruptPath so far
    failures,   \* attempt_failures is not empty
    doubt,      \* ProvenChild: a liveness failure came first
    known,      \* root_status is cached
    timer,      \* the post-root time limit
    attempt, polls, last, \* force_and_confirm: attempt, polls left, its force
    reason,     \* what the force answers: a failure, an event, a late event
    child, cleanup,       \* the outcome
    \* history
    recorded,   \* the occurrences recorded in this session
    doubted,    \* some liveness check of the child failed
    stray,      \* a signal went to a number that may not be the child's
    faults

world  == <<root, kin, recycled, status, platform, attached>>
queue  == <<phase, pending>>
probes == <<known, timer>>
forces == <<attempt, polls, last, reason>>
result == <<child, cleanup>>
vars == <<world, queue, pc, batch, path, failures, doubt, probes, forces,
          result, recorded, doubted, stray, faults>>

Events == INSTANCE SignalQueue

NoPath == [form |-> "none", first |-> "none", delivery |-> "none",
           second |-> "none", termination |-> "none"]
Deliveries == {"platform", "forwarded", "exited", "failed"}
Terminations == {"terminated", "exited", "failed"}
Paths == [form : {"none", "graceful", "forced"},
          first : Kinds \cup {"none"}, delivery : Deliveries \cup {"none"},
          second : Kinds \cup {"none"}, termination : Terminations \cup {"none"}]

Init ==
    /\ root = "none" /\ kin = FALSE /\ recycled = FALSE /\ status = 0
    /\ platform \in DOMAIN KindsOn /\ attached = FALSE
    /\ Events!Empty
    /\ pc = "launch" /\ batch = << >> /\ path = NoPath
    /\ failures = FALSE /\ doubt = FALSE /\ known = FALSE /\ timer = "off"
    /\ attempt = 1 /\ polls = 0 /\ last = "none" /\ reason = "failure"
    /\ child = "unknown" /\ cleanup = "pending"
    /\ recorded = << >> /\ doubted = FALSE /\ stray = FALSE /\ faults = 0

Fails == faults < MaxFaults /\ faults' = faults + 1

\* The failure goes to attempt_failures, and to the force it is the reason for.
\* (Mutant: it goes to neither.)
RecordsNoFailure == UNCHANGED failures
RecordsFailure == failures' = TRUE

-----------------------------------------------------------------------------
(* The recorded interrupt path.                                            *)

Graceful(k, d) == [NoPath EXCEPT !.form = "graceful", !.first = k, !.delivery = d]

\* record_already_exited
AlreadyExited(p, k) ==
    CASE p.form = "none"     -> Graceful(k, "exited")
      [] p.form = "graceful" -> [p EXCEPT !.form = "forced", !.second = k,
                                          !.termination = "exited"]
      [] p.form = "forced"   -> [p EXCEPT !.second = IF @ = "none" THEN k ELSE @]

\* At most three events come in one batch.
AllExited(p, q) ==
    LET once(r, i) == IF i <= Len(q) THEN AlreadyExited(r, q[i]) ELSE r
    IN  once(once(once(p, 1), 2), 3)

\* record_event_force; without a first event it needs the failure it answers.
Unreachable(p, context, t) == p.form = "none" /\ ~context /\ t # "failed"
EventForced(p, k, t) ==
    IF p.form = "none"
      THEN [Graceful(k, "failed") EXCEPT !.form = "forced", !.termination = t]
      ELSE [p EXCEPT !.form = "forced", !.termination = t,
                     !.second = IF @ = "none" THEN k ELSE @]

\* record_failure_force
FailureForced(p, t) ==
    IF p.form = "none" THEN p
                       ELSE [p EXCEPT !.form = "forced", !.termination = t]

-----------------------------------------------------------------------------
(* System calls on the child.                                              *)

dedicated == platform = "dedicated"
\* The child is signalled by itself, and is looked at first.
Alone == platform = "shared" \/ (platform = "job" /\ ~attached)

\* domain_is_empty (Mutant: only the root counts.)
RootOnly == TRUE
DomainIsEmpty == /\ dedicated => ~kin /\ ~recycled
                 /\ attached => ~kin
\* A job without the child says nothing about it.
DomainIsKnown == platform = "job" => attached

\* The time limit starts at the first probe that finds the root gone and the
\* group not empty. (Mutant: it is never started.)
NeverStarted == timer' = timer
StartTimer == timer' = IF timer = "off" THEN "on" ELSE timer

\* NativeBackend::probe answers `a`; once reaped, the root is not asked again.
Probe(a) ==
    \/ /\ ~known /\ root = "running" /\ a = "running"
       /\ UNCHANGED <<root, probes, faults, doubted>>
    \/ /\ ~known /\ Fails /\ a = "uncertain" /\ doubted' = TRUE
       /\ UNCHANGED <<root, probes>>
    \/ /\ known \/ root # "running"
       /\ known' = TRUE /\ root' = "reaped"
       /\ \/ /\ DomainIsKnown /\ DomainIsEmpty /\ a = "dead"
             /\ UNCHANGED <<timer, faults, doubted>>
          \/ /\ DomainIsKnown /\ ~DomainIsEmpty /\ timer # "expired" /\ a = "running"
             /\ IF dedicated THEN StartTimer ELSE UNCHANGED timer
             /\ UNCHANGED <<faults, doubted>>
          \/ /\ ~DomainIsKnown \/ (~DomainIsEmpty /\ timer = "expired")
             /\ a = "uncertain" /\ doubted' = TRUE /\ UNCHANGED <<timer, faults>>
          \/ /\ platform # "shared" /\ Fails /\ a = "uncertain" /\ doubted' = TRUE
             /\ UNCHANGED timer

\* group_identity_is_safe (Mutant: it always is.)
AlwaysSafe == TRUE
IdentityIsSafe == dedicated => ~known

\* On Unix a signal goes to the child's number: its own as long as it is not reaped.
Signals == stray' = (stray \/ (platform # "job" /\ root = "reaped"))

\* A child that is alone and has exited is reaped instead.
ForceAlone(t) ==
    \/ /\ root # "running" /\ t = "exited"
       /\ root' = "reaped" /\ UNCHANGED <<stray, faults>>
    \/ /\ root = "running" /\ UNCHANGED root
       /\ \/ t = "terminated" /\ Signals /\ UNCHANGED faults
          \/ t = "failed" /\ Fails /\ UNCHANGED stray

ForceGroup(t) ==
    /\ UNCHANGED root
    /\ \/ ~IdentityIsSafe /\ t = "failed" /\ UNCHANGED <<stray, faults>>
       \/ IdentityIsSafe /\ t = "terminated" /\ Signals /\ UNCHANGED faults
       \/ IdentityIsSafe /\ t = "failed" /\ Fails /\ UNCHANGED stray

\* JobObject::active_processes
NoneActive == root # "running" /\ ~kin

\* A job in which nothing runs is left alone.
ForceJob(t) ==
    /\ UNCHANGED <<root, stray>>
    /\ \/ t = "exited" /\ NoneActive /\ UNCHANGED faults
       \/ t = "terminated" /\ ~NoneActive /\ UNCHANGED faults
       \/ t = "failed" /\ Fails

\* Platform::force ends with `t`.
ForceDomain(t) ==
    \/ Alone /\ ForceAlone(t)
    \/ dedicated /\ ForceGroup(t)
    \/ attached /\ ForceJob(t)

\* The terminal itself delivers an interrupt to the shared foreground group, the
\* console whatever it reports.
ByPlatform(k) == platform = "job" \/ (platform = "shared" /\ k = "interrupt")

\* Platform::forward_first delivers `k` as `d`.
ForwardFirst(k, d) ==
    \/ ByPlatform(k) /\ d = "platform" /\ UNCHANGED <<root, stray, faults>>
    \/ /\ ~ByPlatform(k)
       /\ \/ /\ ~IdentityIsSafe /\ d = "failed"
             /\ UNCHANGED <<root, stray, faults>>
          \/ /\ ~dedicated /\ root # "running" /\ d = "exited"
             /\ root' = "reaped" /\ UNCHANGED <<stray, faults>>
          \/ /\ IdentityIsSafe /\ (dedicated \/ root = "running")
             /\ \/ d = "forwarded" /\ Signals /\ UNCHANGED faults
                \/ d = "failed" /\ Fails /\ UNCHANGED stray
             /\ UNCHANGED root

-----------------------------------------------------------------------------
(* The launch (ProcessSupervisor::supervise).                              *)

Goto(label) == pc' = label
Environment == <<kin, recycled, status, platform, attached>>

\* Validation or the lease fails: there is nothing to finalize.
LaunchRefused ==
    /\ pc = "launch" /\ child' = "failed"
    /\ Goto("cleanup")
    /\ UNCHANGED <<world, queue, batch, path, failures, doubt, probes, forces,
                   cleanup, recorded, doubted, stray, faults>>

\* The handlers record at once where signals do not reach the child by themselves.
Install ==
    /\ pc = "launch" /\ Goto("spawn")
    /\ phase' = IF dedicated THEN "active" ELSE "armed"
    /\ UNCHANGED <<world, pending, batch, path, failures, doubt, probes, forces,
                   result, recorded, doubted, stray, faults>>

\* The job cannot be prepared, or the spawn fails.
SpawnFails ==
    /\ pc = "spawn" /\ child' \in {"failed", "missing"}
    /\ Goto("nochild")
    /\ UNCHANGED <<world, queue, batch, path, failures, doubt, probes, forces,
                   cleanup, recorded, doubted, stray, faults>>

Spawn ==
    /\ pc = "spawn" /\ root' = "running" /\ Goto("attach")
    /\ UNCHANGED <<Environment, queue, batch, path, failures, doubt, probes,
                   forces, result, recorded, doubted, stray, faults>>

\* force_and_confirm begins.
BeginForce(why) ==
    /\ Goto("force") /\ attempt' = 1 /\ reason' = why
    /\ UNCHANGED <<polls, last>>

\* Platform::attach; on Unix the child's own number is enough.
Assigns == attached' = (platform = "job")

\* A failing attach or activation ends in terminate_after_failure.
Attach ==
    /\ pc = "attach"
    /\ \/ /\ IF phase = "armed" THEN Events!Activate ELSE UNCHANGED queue
          /\ Assigns /\ Goto("take") /\ UNCHANGED <<failures, doubt, forces, faults>>
       \/ /\ Fails /\ RecordsFailure /\ doubt' = TRUE
          /\ Assigns \/ UNCHANGED attached
          /\ BeginForce("failure") /\ UNCHANGED queue
    /\ UNCHANGED <<root, kin, recycled, status, platform, batch, path, probes, result,
                   recorded, doubted, stray>>

-----------------------------------------------------------------------------
(* The driver (driver::supervise).                                         *)

TakePending ==
    /\ pc = "take" /\ Events!Take
    /\ batch' = pending
    /\ Goto(IF pending = << >> THEN "probe" ELSE "event")
    /\ UNCHANGED <<world, path, failures, doubt, probes, forces, result,
                   recorded, doubted, stray, faults>>

\* Death is proven: what is left of the batch is dropped.
Proves == Goto("proven") /\ child' = (IF doubt THEN "failed" ELSE "exited")

ProbeChild ==
    /\ pc = "probe"
    /\ \/ /\ Probe("running") /\ Goto("take")
          /\ UNCHANGED <<failures, doubt, forces, child>>
       \/ /\ Probe("dead") /\ Proves
          /\ UNCHANGED <<failures, doubt, forces>>
       \/ /\ Probe("uncertain") /\ RecordsFailure /\ doubt' = TRUE
          /\ BeginForce("failure") /\ UNCHANGED child
    /\ UNCHANGED <<Environment, queue, batch, path, cleanup, recorded, stray>>

\* classify_after_proof
AfterProof(k) == IF ByPlatform(k) THEN "platform" ELSE "exited"

\* A second event is the operator's force. (Mutant: it is only noted.)
SecondIsNoted == Goto("probe") /\ UNCHANGED forces
SecondForces == BeginForce("event")

\* handle_event
HandleEvent ==
    /\ pc = "event"
    /\ LET k == Head(batch) IN
       \/ /\ Probe("dead") /\ Proves
          /\ path' = IF path.form = "none" THEN Graceful(k, AfterProof(k))
                                           ELSE AlreadyExited(path, k)
          /\ batch' = << >> /\ UNCHANGED <<failures, doubt, forces>>
       \/ /\ Probe("uncertain") /\ RecordsFailure /\ doubt' = TRUE
          /\ BeginForce("event") /\ UNCHANGED <<path, batch, child>>
       \/ /\ Probe("running")
          /\ IF path.form = "none"
               THEN Goto("deliver") /\ UNCHANGED forces
               ELSE SecondForces
          /\ UNCHANGED <<path, batch, failures, doubt, child>>
    /\ UNCHANGED <<Environment, queue, cleanup, recorded, stray>>

\* handle_first_running_event
DeliverFirst ==
    /\ pc = "deliver"
    /\ \E d \in Deliveries :
        /\ ForwardFirst(Head(batch), d)
        /\ path' = Graceful(Head(batch), d)
        /\ IF d = "failed" THEN Goto("redeliver") /\ UNCHANGED batch
             ELSE /\ batch' = Tail(batch)
                  /\ Goto(IF Len(batch) = 1 THEN "probe" ELSE "event")
    /\ UNCHANGED <<Environment, queue, failures, doubt, probes, forces, result,
                   recorded, doubted>>

\* complete_after_delivery_failure, unless the child turns out to be dead.
DeliveryFailed ==
    /\ pc = "redeliver"
    /\ batch' = << >>
    /\ \/ /\ Probe("dead") /\ Proves
          /\ path' = Graceful(path.first, "exited")
          /\ UNCHANGED <<failures, doubt, forces>>
       \/ /\ \/ Probe("running") /\ UNCHANGED doubt
             \/ Probe("uncertain") /\ doubt' = TRUE
          /\ RecordsFailure /\ BeginForce("failure")
          /\ UNCHANGED <<path, child>>
    /\ UNCHANGED <<Environment, queue, cleanup, recorded, stray>>

-----------------------------------------------------------------------------
(* force_and_confirm and what its callers make of it.                      *)

ForceChild ==
    /\ pc = "force"
    /\ \E t \in Terminations :
        /\ ForceDomain(t) /\ last' = t
        /\ polls' = IF t = "terminated" THEN ConfirmPolls ELSE RecheckPolls
    /\ Goto("poll")
    /\ UNCHANGED <<Environment, queue, batch, path, failures, doubt, probes,
                   attempt, reason, result, recorded, doubted>>

\* The path after this force; for an event, the one at the head of the batch.
ForcedPath ==
    IF reason = "failure" THEN FailureForced(path, last)
                          ELSE EventForced(path, Head(batch), last)
Panics ==
    reason # "failure" /\ Unreachable(path, failures, last)

\* Death is proven within this force: late events count as after the exit.
Confirmed ==
    /\ Probe("dead")
    /\ failures' = (failures \/ last = "failed") /\ UNCHANGED doubt
    /\ IF Panics
         THEN Goto("panic") /\ UNCHANGED <<path, child>>
         ELSE /\ Proves
              /\ path' = IF reason = "late"
                           THEN AllExited(ForcedPath, Tail(batch))
                           ELSE ForcedPath
    /\ batch' = << >>
    /\ UNCHANGED forces

\* No attempt proved it. A late event leaves the rest of its batch to force.
GiveUp ==
    /\ IF Panics
         THEN Goto("panic") /\ UNCHANGED <<path, batch, forces>>
         ELSE /\ path' = ForcedPath
              /\ IF reason = "late" /\ Len(batch) > 1
                   THEN batch' = Tail(batch) /\ BeginForce("late")
                   ELSE /\ batch' = << >> /\ Goto("uncertain")
                        /\ UNCHANGED forces
    /\ UNCHANGED child

\* The next of FORCE_ATTEMPTS, or the end.
AttemptEnds ==
    IF attempt < ForceAttempts
      THEN /\ attempt' = attempt + 1 /\ Goto("force")
           /\ UNCHANGED <<polls, last, reason, path, batch, child>>
      ELSE GiveUp

\* ProvenChild::record_failure (Mutant: a later proof of death clears it.)
NotRecorded == UNCHANGED doubt
RecordsDoubt == doubt' = TRUE

PollAgain ==
    /\ Probe("running") /\ polls > 1 /\ polls' = polls - 1
    /\ UNCHANGED <<pc, attempt, last, reason, path, batch, failures, doubt,
                   child>>

\* The polls of this attempt are over: a time-out, or the force had failed.
PollsSpent ==
    /\ Probe("running") /\ polls = 1
    /\ failures' = (failures \/ last \in {"terminated", "failed"})
    /\ IF last = "terminated" THEN RecordsDoubt ELSE UNCHANGED doubt
    /\ AttemptEnds

PollFails ==
    /\ Probe("uncertain")
    /\ RecordsFailure /\ RecordsDoubt
    /\ AttemptEnds

PollChild ==
    /\ pc = "poll"
    /\ Confirmed \/ PollAgain \/ PollsSpent \/ PollFails
    /\ UNCHANGED <<Environment, queue, cleanup, recorded, stray>>

-----------------------------------------------------------------------------
(* Finalization against late signals, and the one cleanup.                 *)

\* proven, prepare_finalization: late events are recorded, then it is sealed.
FinalizeProven ==
    /\ pc \in {"proven", "nochild"}
    /\ \/ /\ pending # << >> /\ Events!Take
          /\ path' = AllExited(path, pending) /\ UNCHANGED pc
       \/ /\ Events!Finalize /\ Goto("cleanup") /\ UNCHANGED path
    /\ UNCHANGED <<world, batch, failures, doubt, probes, forces, result,
                   recorded, doubted, stray, faults>>

\* uncertain: every late event forces again.
FinalizeUncertain ==
    /\ pc = "uncertain"
    /\ \/ /\ pending # << >> /\ Events!Take
          /\ batch' = pending /\ BeginForce("late")
          /\ UNCHANGED <<failures, result>>
       \/ /\ Events!Finalize /\ RecordsFailure
          /\ child' = "uncertain" /\ cleanup' = "deferred"
          /\ Goto("drop") /\ UNCHANGED <<batch, forces>>
    /\ UNCHANGED <<world, path, doubt, probes, recorded, doubted, stray, faults>>

\* CleanupGuard::run with the permit
Returns ==
    /\ Goto("done")
    /\ IF phase = "inactive" THEN UNCHANGED queue ELSE Events!Release

RunCleanup ==
    /\ pc = "cleanup"
    /\ cleanup' \in {"succeeded", "failed"}
    /\ Returns
    /\ UNCHANGED <<world, batch, path, failures, doubt, probes, forces, child,
                   recorded, doubted, stray, faults>>

\* The backend is dropped armed: one more force, then one more wait.
DropArmed ==
    /\ pc = "drop" /\ Goto("reap")
    /\ \E t \in Terminations : ForceDomain(t)
    /\ UNCHANGED <<Environment, queue, batch, path, failures, doubt, probes,
                   forces, result, recorded, doubted>>

LastWait ==
    /\ pc = "reap" /\ Returns
    /\ root' = IF root = "zombie" THEN "reaped" ELSE root
    /\ UNCHANGED <<Environment, batch, path, failures, doubt, probes, forces,
                   result, recorded, doubted, stray, faults>>

-----------------------------------------------------------------------------
(* The child and the signals.                                              *)

RootExits ==
    /\ root = "running" /\ root' = "zombie" /\ status' \in {0, 1}
    /\ UNCHANGED <<kin, recycled, platform, attached, queue, pc, batch, path, failures,
                   doubt, probes, forces, result, recorded, doubted, stray,
                   faults>>

Forks ==
    /\ root = "running" /\ ~kin /\ kin' = TRUE
    /\ platform = "job" => attached
    /\ UNCHANGED <<root, recycled, status, platform, attached, queue, pc, batch, path,
                   failures, doubt, probes, forces, result, recorded, doubted,
                   stray, faults>>

KinExit ==
    /\ kin /\ kin' = FALSE
    /\ UNCHANGED <<root, recycled, status, platform, attached, queue, pc, batch, path,
                   failures, doubt, probes, forces, result, recorded, doubted,
                   stray, faults>>

NumberReused ==
    /\ platform # "job" /\ root = "reaped" /\ ~kin /\ ~recycled /\ recycled' = TRUE
    /\ UNCHANGED <<root, kin, status, platform, attached, queue, pc, batch, path,
                   failures, doubt, probes, forces, result, recorded, doubted,
                   stray, faults>>

TimerExpires ==
    /\ timer = "on" /\ timer' = "expired"
    /\ UNCHANGED <<world, queue, pc, batch, path, failures, doubt, known,
                   forces, result, recorded, doubted, stray, faults>>

\* A signal the queue does not accept gets its default handling.
Signal ==
    /\ Len(recorded) < MaxSignals
    /\ \E k \in KindsOn[platform] :
        Events!Record(k) /\ recorded' = Append(recorded, k)
    /\ UNCHANGED <<world, pc, batch, path, failures, doubt, probes, forces,
                   result, doubted, stray, faults>>

Driver ==
    \/ LaunchRefused \/ Install \/ SpawnFails \/ Spawn \/ Attach
    \/ TakePending \/ ProbeChild \/ HandleEvent \/ DeliverFirst
    \/ DeliveryFailed \/ ForceChild \/ PollChild \/ FinalizeProven
    \/ FinalizeUncertain \/ RunCleanup \/ DropArmed \/ LastWait

Next ==
    \/ Driver
    \/ RootExits \/ Forks \/ KinExit \/ NumberReused \/ TimerExpires \/ Signal

Spec == Init /\ [][Next]_vars

\* The supervisor is scheduled and time passes; the child owes nothing.
FairSpec == Spec /\ WF_vars(Driver) /\ WF_vars(TimerExpires)

-----------------------------------------------------------------------------
(* map_exit                                                                *)

PathFailed == path.delivery = "failed" \/ path.termination = "failed"

\* (Mutant: only the cleanup of a child that exited with 0 is looked at.)
ExitCodeOfChild ==
    IF child = "missing" THEN "missing_input"
    ELSE IF child \in {"failed", "uncertain"} THEN "internal"
    ELSE IF child = "exited" /\ status # 0 THEN "child"
    ELSE IF child = "exited" /\ cleanup = "failed" THEN "filesystem"
    ELSE "success"
ExitCode ==
    IF child = "missing" THEN "missing_input"
    ELSE IF child \in {"failed", "uncertain"} THEN "internal"
    ELSE IF child = "exited" /\ status # 0 THEN "child"
    ELSE IF child = "exited" /\ (failures \/ PathFailed) THEN "internal"
    ELSE IF cleanup = "failed" THEN "filesystem"
    ELSE "success"

-----------------------------------------------------------------------------
(* Safety.                                                                 *)

\* Mounts are cleaned up only when nothing was spawned or the whole managed
\* domain is gone; never after an inconclusive force (driver.rs, CleanupPermit).
PermitMeansDead ==
    pc = "cleanup" \/ cleanup \in {"succeeded", "failed"} =>
        \/ root = "none"
        \/ root = "reaped" /\ (platform # "shared" => ~kin)

\* No force, forward or drop ever signals a number that the operating system
\* may have given to somebody else (unix.rs, group_identity_is_safe).
NeverSignalsAStranger == ~stray

\* A liveness failure stays the primary outcome whatever is proven after it: the
\* wrapper never reports such a child as exited (driver.rs, record_failure).
DoubtIsNeverErased ==
    pc = "done" /\ doubted =>
        child \in {"failed", "uncertain"} /\ ExitCode = "internal"

\* Success is reported only for a child that exited with 0, was never forced
\* to end by a failing interrupt path, and whose cleanup succeeded
\* (mod.rs, map_exit).
SuccessIsWhole ==
    pc = "done" /\ ExitCode = "success" =>
        /\ root = "reaped" /\ status = 0 /\ cleanup = "succeeded"
        /\ ~doubted /\ ~PathFailed

\* The `unreachable!` of record_event_force is: no order of late signals,
\* failing probes and forces reaches it without the failure it needs.
NeverPanics == pc # "panic"

-----------------------------------------------------------------------------
(* Liveness.                                                               *)

\* Two signals always end the supervision, even of a child that never dies and
\* whatever force and probes answer.
TwoSignalsEndIt == Len(recorded) >= 2 ~> pc = "done"

\* So does the root's exit, although members of its group live on; a job is
\* waited for as long as something runs in it.
RootExitEndsIt == root \in {"zombie", "reaped"} /\ (attached => ~kin) ~> pc = "done"
=============================================================================
