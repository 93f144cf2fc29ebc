------------------------------ MODULE Capture ------------------------------
(***************************************************************************)
(* The one bounded `--version` observation of an agent: agent/version.rs   *)
(* and the CaptureDomain of process/unix.rs and process/windows.rs.        *)
(*                                                                         *)
(* The observer starts the agent in a domain of its own, lets two threads  *)
(* read its output, waits for both until a deadline, kills the domain, and *)
(* reaps the root and proves the domain empty until a second deadline. The *)
(* agent writes, forks and exits as it pleases; a descendant may leave the *)
(* domain and may keep the pipes open.                                     *)
(***************************************************************************)
EXTENDS Integers, Sequences

CONSTANTS
    Limit,      \* VERSION_OUTPUT_LIMIT
    MaxFaults   \* bounds the system calls that fail

ASSUME LimitIsNatural == Limit \in Nat
ASSUME FaultsAreNatural == MaxFaults \in Nat

Streams == {"stdout", "stderr"}

VARIABLES
    platform,   \* "unix" or "windows"
    pc,         \* where the observer is
    attached,   \* the domain knows its root: CaptureDomain::group, or attached
    root,       \* the agent's process: "none", "running", "exited" or "reaped"
    exit,       \* how it ended: "none", "zero", "nonzero" or "killed"
    kin,        \* its descendant: "none", "inside" or "outside" the domain, or "gone"
    stranger,   \* the owner of the reused group number: "none", "alive" or "killed"
    holders,    \* who holds the write end of each stream
    written,    \* how much was written to it, up to Limit + 1
    cut,        \* the streams whose writer was killed while it held them
    reader,     \* of each stream: "idle", "reading" or "done"
    inbox,      \* the channel of both readers
    result,     \* what arrived: "none", "whole", "exceeded" or "error"
    timer,      \* the current deadline: "off", "running" or "expired"
    late,       \* lifetime_exceeded
    failed,     \* which of terminate, wait and the domain's probe failed
    empty,      \* domain_empty
    answer,     \* the observation, or why there is none
    faults      \* how many system calls failed so far

agentVars == <<root, exit, kin, holders, cut>>
streamVars == <<written, reader, inbox, result>>
verdictVars == <<late, failed, empty>>
captureVars == <<platform, pc, attached, agentVars, stranger, streamVars, timer, verdictVars, answer, faults>>

Banners == {"last_tested", "untested", "not_text"}
Answers ==
    Banners \cup {"status", "bound", "stream", "lifetime", "readers", "occupied", "domain",
                  "unreaped", "wait", "terminate", "setup"}

CaptureTypeOK ==
    /\ platform \in {"unix", "windows"}
    /\ pc \in {"spawn", "attach", "readers", "await", "grace", "terminate", "poll", "reap", "probe",
               "last", "stop", "reap_stopped", "probe_stopped", "drop", "done"}
    /\ attached \in BOOLEAN /\ late \in BOOLEAN /\ empty \in BOOLEAN
    /\ root \in {"none", "running", "exited", "reaped"}
    /\ exit \in {"none", "zero", "nonzero", "killed"}
    /\ kin \in {"none", "inside", "outside", "gone"}
    /\ stranger \in {"none", "alive", "killed"}
    /\ holders \in [Streams -> SUBSET {"root", "kin"}]
    /\ written \in [Streams -> 0 .. Limit + 1] /\ cut \subseteq Streams
    /\ reader \in [Streams -> {"idle", "reading", "done"}]
    /\ inbox \in Seq(Streams \X {"whole", "exceeded", "error"})
    /\ result \in [Streams -> {"none", "whole", "exceeded", "error"}]
    /\ timer \in {"off", "running", "expired"}
    /\ failed \subseteq {"terminate", "wait", "domain"}
    /\ answer \in Answers \cup {"none"} /\ faults \in 0 .. MaxFaults

CaptureAt(start) ==
    /\ platform \in {"unix", "windows"}
    /\ pc = start /\ attached = FALSE
    /\ root = "none" /\ exit = "none" /\ kin = "none" /\ stranger = "none"
    /\ holders = [s \in Streams |-> {}] /\ cut = {}
    /\ written = [s \in Streams |-> 0]
    /\ reader = [s \in Streams |-> "idle"]
    /\ inbox = <<>> /\ result = [s \in Streams |-> "none"]
    /\ timer = "off" /\ late = FALSE /\ failed = {} /\ empty = FALSE
    /\ answer = "none" /\ faults = 0

CaptureInit == CaptureAt("spawn")

-----------------------------------------------------------------------------
(* The agent, its descendant, and the rest of the system, while the observer *)
(* is at work.                                                               *)

Alive(p) == IF p = "root" THEN root = "running" ELSE kin \in {"inside", "outside"}
Inside(p) == IF p = "root" THEN root = "running" ELSE kin = "inside"

\* The end of a process closes what it held.
Without(victims) == [s \in Streams |-> holders[s] \ victims]

AgentOnly ==
    /\ pc # "done"
    /\ UNCHANGED <<platform, pc, attached, reader, inbox, result, timer, verdictVars, answer, faults>>

\* Once a reader has its fill it closes the pipe, and a write to it fails.
Writes(s) ==
    /\ \E p \in holders[s] : Alive(p)
    /\ reader[s] # "done"
    /\ written[s] <= Limit
    /\ written' = [written EXCEPT ![s] = @ + 1]
    /\ AgentOnly /\ UNCHANGED <<agentVars, stranger>>

Closes(p, s) ==
    /\ Alive(p)
    /\ p \in holders[s]
    /\ holders' = [holders EXCEPT ![s] = @ \ {p}]
    /\ AgentOnly /\ UNCHANGED <<root, exit, kin, cut, stranger, written>>

RootExits(status) ==
    /\ root = "running"
    /\ root' = "exited"
    /\ exit' = status
    /\ holders' = Without({"root"})
    /\ AgentOnly /\ UNCHANGED <<kin, cut, stranger, written>>

\* The group of a Unix root exists before it runs; a process started before its root is
\* assigned to the job is outside it.
Forks ==
    /\ root = "running"
    /\ kin = "none"
    /\ kin' = IF platform = "unix" \/ attached THEN "inside" ELSE "outside"
    /\ holders' = [s \in Streams |-> IF "root" \in holders[s] THEN {"root", "kin"} ELSE {}]
    /\ AgentOnly /\ UNCHANGED <<root, exit, cut, stranger, written>>

\* A session of its own takes a process out of its group; the job allows no breakaway.
Detaches ==
    /\ platform = "unix"
    /\ kin = "inside"
    /\ kin' = "outside"
    /\ AgentOnly /\ UNCHANGED <<root, exit, holders, cut, stranger, written>>

KinExits ==
    /\ Alive("kin")
    /\ kin' = "gone"
    /\ holders' = Without({"kin"})
    /\ AgentOnly /\ UNCHANGED <<root, exit, cut, stranger, written>>

\* The number of a group is free once its leader is reaped and its last member is gone.
NumberReused ==
    /\ platform = "unix"
    /\ root = "reaped"
    /\ kin # "inside"
    /\ stranger = "none"
    /\ stranger' = "alive"
    /\ AgentOnly /\ UNCHANGED <<agentVars, written>>

AgentNext ==
    \/ \E s \in Streams : Writes(s)
    \/ \E p \in {"root", "kin"}, s \in Streams : Closes(p, s)
    \/ \E status \in {"zero", "nonzero"} : RootExits(status)
    \/ Forks
    \/ Detaches
    \/ KinExits
    \/ NumberReused

-----------------------------------------------------------------------------
(* The two reader threads.                                                   *)

\* read_bounded takes one byte more than the limit, or everything up to the end.
ReadTo(s) == IF written[s] > Limit THEN "exceeded" ELSE "whole"
AtItsEnd(s) == written[s] > Limit \/ holders[s] = {}

Sends(s, outcome) ==
    /\ pc # "done"
    /\ reader' = [reader EXCEPT ![s] = "done"]
    /\ inbox' = Append(inbox, <<s, outcome>>)
    /\ UNCHANGED <<platform, pc, attached, agentVars, stranger, written, result, timer, verdictVars, answer>>

Reads(s) ==
    /\ reader[s] = "reading"
    /\ AtItsEnd(s)
    /\ Sends(s, ReadTo(s))
    /\ UNCHANGED faults

ReadFails(s) ==
    /\ reader[s] = "reading"
    /\ faults < MaxFaults
    /\ faults' = faults + 1
    /\ Sends(s, "error")

\* The monotonic clock reaches the current deadline.
TimerExpires ==
    /\ pc # "done"
    /\ timer = "running"
    /\ timer' = "expired"
    /\ UNCHANGED <<platform, pc, attached, agentVars, stranger, streamVars, verdictVars, answer, faults>>

-----------------------------------------------------------------------------
(* The observer: RunningCapture::start.                                      *)

Fails(fault) == faults' = faults + 1 /\ faults < MaxFaults /\ fault
Works(step) == faults' = faults /\ step

Gives(reason) == answer' = reason /\ pc' = "drop"

CannotStart ==
    /\ pc = "spawn"
    /\ Fails(Gives("setup"))
    /\ UNCHANGED <<platform, attached, agentVars, stranger, streamVars, timer, verdictVars>>

Spawn ==
    /\ pc = "spawn"
    /\ root' = "running"
    /\ holders' = [s \in Streams |-> {"root"}]
    /\ pc' = "attach"
    /\ UNCHANGED <<platform, attached, exit, kin, cut, stranger, streamVars, timer, verdictVars, answer, faults>>

\* Every failure after the start goes through stop_after_setup_failure.
Attach ==
    /\ pc = "attach"
    /\ \/ Works(attached' = TRUE /\ pc' = "readers")
       \/ Fails(attached' = FALSE /\ pc' = "stop")
    /\ UNCHANGED <<platform, agentVars, stranger, streamVars, timer, verdictVars, answer>>

\* The reader of the first stream runs on if that of the second cannot be started.
StartReaders ==
    /\ pc = "readers"
    /\ \/ Works(reader' = [s \in Streams |-> "reading"] /\ pc' = "await" /\ timer' = "running")
       \/ \E started \in {{}, {"stdout"}} :
            Fails(/\ reader' = [s \in Streams |-> IF s \in started THEN "reading" ELSE "idle"]
                  /\ pc' = "stop" /\ UNCHANGED timer)
    /\ UNCHANGED <<platform, attached, agentVars, stranger, written, inbox, result, verdictVars, answer>>

-----------------------------------------------------------------------------
(* RunningCapture::await_output_bound.                                       *)

AllIn == \A s \in Streams : result[s] # "none"
MustStop == \E s \in Streams : result[s] \in {"exceeded", "error"}

Receive ==
    /\ pc = "await"
    /\ ~AllIn /\ ~MustStop
    /\ inbox # <<>>
    /\ result' = [result EXCEPT ![Head(inbox)[1]] = Head(inbox)[2]]
    /\ inbox' = Tail(inbox)
    /\ UNCHANGED <<platform, pc, attached, agentVars, stranger, written, reader, timer, verdictVars, answer, faults>>

\* (Mutant: what the deadline cut off passes for what the agent had to say.)
ForgetsLifetime == late' = FALSE
Exceeds == late' = TRUE

\* (Mutant: recv in place of recv_timeout.)
NeverTimesOut == FALSE
HasExpired == timer = "expired"

Waits(next) ==
    /\ pc = "await"
    /\ pc' = next
    /\ UNCHANGED <<platform, attached, agentVars, stranger, streamVars, timer, failed, empty, answer, faults>>

TimesOut == ~AllIn /\ ~MustStop /\ HasExpired /\ Exceeds /\ Waits("terminate")
StopEarly == ~AllIn /\ MustStop /\ Waits("terminate") /\ UNCHANGED late
OutputEnds == AllIn /\ Waits(IF MustStop THEN "terminate" ELSE "grace") /\ UNCHANGED late

\* VERSION_EXIT_GRACE: the root gets a moment to exit by itself.
GraceEnds ==
    /\ pc = "grace"
    /\ pc' = "terminate"
    /\ UNCHANGED <<platform, attached, agentVars, stranger, streamVars, timer, verdictVars, answer, faults>>

-----------------------------------------------------------------------------
(* CaptureDomain: terminate, is_empty and what dropping it does.             *)

Kill(victims) ==
    LET dead == {p \in victims : Alive(p)} IN
    /\ root' = IF "root" \in dead THEN "exited" ELSE root
    /\ exit' = IF "root" \in dead THEN "killed" ELSE exit
    /\ kin' = IF "kin" \in dead THEN "gone" ELSE kin
    /\ holders' = Without(dead)
    /\ cut' = cut \cup {s \in Streams : holders[s] \cap dead # {}}

Members == {p \in {"root", "kin"} : Inside(p)}

\* A signal to a group goes to whoever has its number, and reaches those the observer may
\* signal: EPERM, which says that it reached none, passes for success.
KillGroup ==
    /\ \E victims \in SUBSET Members : Kill(victims)
    /\ stranger' \in {stranger, IF stranger = "alive" THEN "killed" ELSE stranger}

\* A child is not signalled once it is reaped.
KillRoot == Kill({"root"}) /\ UNCHANGED stranger

KillDomain ==
    IF ~attached THEN KillRoot
    ELSE IF platform = "unix" THEN KillGroup
    ELSE Kill(Members) /\ UNCHANGED stranger

\* The fallback kills the root alone, and fails if that fails too.
Terminated ==
    \/ Works(KillDomain /\ UNCHANGED failed)
    \/ attached /\ Fails(KillRoot /\ UNCHANGED failed)
    \/ Fails(UNCHANGED <<agentVars, stranger>> /\ failed' = failed \cup {"terminate"})

Terminate(from, to) ==
    /\ pc = from
    /\ Terminated
    /\ timer' = "running"
    /\ pc' = to
    /\ UNCHANGED <<platform, attached, streamVars, late, empty, answer>>

DomainEmpty == attached => Members = {} /\ (platform = "unix" => stranger = "none")

\* (Mutant: the group is killed although the root was reaped.)
AlwaysKills == TRUE
KillsOnDrop == root # "reaped"

\* A Unix domain whose root was not reaped is killed; closing the job kills what it holds.
Drop ==
    /\ pc = "drop"
    /\ IF attached /\ (platform = "windows" \/ KillsOnDrop)
       THEN KillDomain
       ELSE UNCHANGED <<agentVars, stranger>>
    /\ pc' = "done"
    /\ UNCHANGED <<platform, attached, streamVars, timer, verdictVars, answer, faults>>

-----------------------------------------------------------------------------
(* RunningCapture::finish: a loop of three steps until everything is proved  *)
(* or the second deadline has passed.                                        *)

Drained ==
    [s \in Streams |->
        IF \E i \in DOMAIN inbox : inbox[i][1] = s
        THEN (CHOOSE m \in {inbox[i] : i \in DOMAIN inbox} : m[1] = s)[2]
        ELSE result[s]]

Drains(next) ==
    /\ result' = Drained
    /\ inbox' = <<>>
    /\ pc' = next
    /\ UNCHANGED <<platform, attached, agentVars, stranger, written, reader, timer, verdictVars, faults>>

Poll == pc = "poll" /\ timer # "expired" /\ Drains("reap") /\ UNCHANGED answer
DeadlinePasses == pc = "poll" /\ timer = "expired" /\ Drains("last") /\ UNCHANGED answer

Reaped == root' = IF root = "exited" THEN "reaped" ELSE root

Reap ==
    /\ pc = "reap"
    /\ pc' = "probe"
    /\ IF root = "reaped" \/ "wait" \in failed THEN UNCHANGED <<root, failed, faults>>
       ELSE \/ Works(Reaped /\ UNCHANGED failed)
            \/ Fails(UNCHANGED root /\ failed' = failed \cup {"wait"})
    /\ UNCHANGED <<platform, attached, exit, kin, holders, cut, stranger, streamVars, timer, late, empty, answer>>

Probe ==
    /\ pc = "probe"
    /\ IF root # "reaped" \/ empty \/ "domain" \in failed THEN UNCHANGED <<empty, failed, faults>>
       ELSE \/ Works(empty' = DomainEmpty /\ UNCHANGED failed)
            \/ Fails(UNCHANGED empty /\ failed' = failed \cup {"domain"})
    /\ pc' = IF root = "reaped" /\ empty' /\ AllIn THEN "last" ELSE "poll"
    /\ UNCHANGED <<platform, attached, agentVars, stranger, streamVars, timer, late, answer>>

\* What the end of finish, classify_capture and classify_banner make of it, in their order.
\* The banner may be the one last tested, another, or no text.
Verdict(banner) ==
    IF "terminate" \in failed THEN "terminate"
    ELSE IF "wait" \in failed THEN "wait"
    ELSE IF root # "reaped" THEN "unreaped"
    ELSE IF "domain" \in failed THEN "domain"
    ELSE IF ~empty THEN "occupied"
    ELSE IF \E s \in Streams : Drained[s] = "none" THEN "readers"
    ELSE IF late THEN "lifetime"
    ELSE IF \E s \in Streams : Drained[s] = "error" THEN "stream"
    ELSE IF \E s \in Streams : Drained[s] = "exceeded" THEN "bound"
    ELSE IF exit # "zero" THEN "status"
    ELSE banner

Finish ==
    /\ pc = "last"
    /\ \E banner \in Banners : answer' = Verdict(banner)
    /\ Drains("drop")

-----------------------------------------------------------------------------
(* stop_after_setup_failure.                                                 *)

ReapStopped ==
    /\ pc = "reap_stopped"
    /\ \/ /\ timer = "expired"
          /\ Works(Gives("setup") /\ UNCHANGED root)
       \/ /\ timer # "expired"
          /\ \/ Works(Reaped /\ pc' = "probe_stopped" /\ UNCHANGED answer)
             \/ Fails(Gives("setup") /\ UNCHANGED root)
    /\ UNCHANGED <<platform, attached, exit, kin, holders, cut, stranger, streamVars, timer, verdictVars>>

\* A domain that is empty, or cannot be probed, ends the wait.
ProbeStopped ==
    /\ pc = "probe_stopped"
    /\ \/ /\ root = "reaped"
          /\ \/ DomainEmpty /\ Works(Gives("setup"))
             \/ Fails(Gives("setup"))
       \/ /\ root = "reaped" => ~DomainEmpty
          /\ Works(pc' = "reap_stopped" /\ UNCHANGED answer)
    /\ UNCHANGED <<platform, attached, agentVars, stranger, streamVars, timer, verdictVars>>

ObserverNext ==
    \/ CannotStart
    \/ Spawn
    \/ Attach
    \/ StartReaders
    \/ Receive
    \/ TimesOut
    \/ StopEarly
    \/ OutputEnds
    \/ GraceEnds
    \/ Terminate("terminate", "poll")
    \/ Poll
    \/ DeadlinePasses
    \/ Reap
    \/ Probe
    \/ Finish
    \/ Terminate("stop", "reap_stopped")
    \/ ReapStopped
    \/ ProbeStopped
    \/ Drop

CaptureNext ==
    \/ AgentNext
    \/ \E s \in Streams : Reads(s) \/ ReadFails(s)
    \/ TimerExpires
    \/ ObserverNext

\* The observer keeps running and the clock advances; neither the agent nor a reader
\* blocked on a pipe need ever move.
CaptureFairness ==
    /\ WF_captureVars(ObserverNext)
    /\ WF_captureVars(TimerExpires)

CaptureSpec == CaptureInit /\ [][CaptureNext]_captureVars /\ CaptureFairness

-----------------------------------------------------------------------------
Contained == Banners \cup {"readers", "lifetime", "stream", "bound", "status"}

\* An observation is what the agent said: a banner is usable only if the root ended well by
\* itself, each stream was read to its end within the bound, and nobody who held it was
\* killed; a refusal for the bound or the status has that reason; and whatever is answered
\* after the proof of death, the root is reaped and nobody of its domain lives
\* (agent/version.rs, finish and classify_capture).
AnswerIsTrue ==
    /\ answer \in Banners =>
        /\ exit = "zero"
        /\ cut = {}
        /\ \A s \in Streams : written[s] <= Limit /\ holders[s] = {}
    /\ answer = "bound" => \E s \in Streams : written[s] > Limit
    /\ answer = "status" => exit \in {"nonzero", "killed"}
    /\ answer \in Contained => root = "reaped" /\ kin # "inside"

\* The domain is killed before its root is reaped, never after: no signal of the observer
\* reaches a group that took over the number (process/mod.rs, CaptureDomain; the Drop of
\* process/unix.rs).
KillsOnlyItsOwn == stranger # "killed"

\* Whatever the agent does, a descendant that keeps the pipes open and a root that does not
\* die included, the observation ends (agent/version.rs, both deadlines).
ObservationEnds == <>(pc = "done")
=============================================================================
