------------------------- MODULE Supervisor_proofs -------------------------
(***************************************************************************)
(* For any number of polls, signals and failing calls, and on all three    *)
(* ways to contain a child: the permit to clean up means that the child is *)
(* gone, no stranger is signalled, a doubt about the child is never        *)
(* erased, a success is whole, and the driver never panics.                *)
(***************************************************************************)
EXTENDS Supervisor, SequenceTheorems, TLAPS

Labels == {"launch", "spawn", "nochild", "attach", "take", "event", "probe", "deliver",
           "redeliver", "force", "poll", "proven", "uncertain", "cleanup", "drop", "reap",
           "panic", "done"}
Forcing == {"force", "poll"}

TypeInv ==
    /\ root \in {"none", "running", "zombie", "reaped"}
    /\ kin \in BOOLEAN /\ recycled \in BOOLEAN /\ attached \in BOOLEAN
    /\ status \in {0, 1} /\ platform \in DOMAIN KindsOn
    /\ phase \in {"inactive", "armed", "active", "finalizing"}
    /\ pending \in Seq(Kinds) /\ batch \in Seq(Kinds)
    /\ pc \in Labels /\ path \in Paths
    /\ failures \in BOOLEAN /\ doubt \in BOOLEAN /\ doubted \in BOOLEAN
    /\ known \in BOOLEAN /\ stray \in BOOLEAN
    /\ last \in Terminations \cup {"none"}
    /\ reason \in {"failure", "event", "late"}
    /\ child \in {"unknown", "failed", "missing", "exited", "uncertain"}
    /\ cleanup \in {"pending", "deferred", "succeeded", "failed"}

\* What is in hand at each label: an event, or a path to extend.
HandInv ==
    /\ pc \in {"event", "deliver"} => batch # << >>
    /\ pc \in Forcing /\ reason # "failure" => batch # << >>
    /\ pc = "poll" => last # "none"
    /\ pc = "redeliver" => path.form # "none"

\* Nothing is forced without a failure or an event to answer for.
PathInv ==
    /\ pc \in Forcing \cup {"uncertain"} => failures \/ path.form # "none"
    /\ pc \in Forcing /\ reason = "failure" => failures
    /\ pc # "panic"

\* The child before the launch and after the proof of its death.
ChildInv ==
    /\ pc \in {"launch", "spawn", "nochild"} => root = "none" /\ ~doubted /\ ~doubt
    /\ pc \in {"proven", "cleanup"} =>
        root = "none" \/ (root = "reaped" /\ (platform # "shared" => ~kin))
    /\ pc \notin {"cleanup", "done"} => cleanup \in {"pending", "deferred"}

\* Once reaped, the leader of a group is known to be.
StrayInv ==
    /\ ~stray
    /\ dedicated /\ root = "reaped" /\ pc # "done" => known

DoubtInv ==
    /\ doubted => doubt
    /\ pc \in {"proven", "nochild", "cleanup", "drop", "reap", "done"} => child # "unknown"
    /\ pc \in {"proven", "cleanup", "done"} /\ doubted => child \in {"failed", "uncertain"}
    /\ pc \in {"drop", "reap"} => child = "uncertain"
    /\ child = "exited" => root = "reaped"
    /\ child \in {"failed", "missing", "exited"} => pc \in {"nochild", "proven", "cleanup", "done"}
    /\ pc = "done" /\ child # "uncertain" => cleanup \in {"succeeded", "failed"}

SupervisorInv ==
    TypeInv /\ HandInv /\ PathInv /\ ChildInv /\ StrayInv /\ DoubtInv /\ PermitMeansDead

-----------------------------------------------------------------------------
(* The recorded path.                                                      *)

LEMMA GracefulIsPath ==
  ASSUME NEW k \in Kinds, NEW d \in Deliveries
  PROVE  Graceful(k, d) \in Paths /\ Graceful(k, d).form = "graceful"
BY DEF Graceful, NoPath, Paths, Deliveries

LEMMA AlreadyExitedIsPath ==
  ASSUME NEW p \in Paths, NEW k \in Kinds
  PROVE  AlreadyExited(p, k) \in Paths /\ AlreadyExited(p, k).form # "none"
<1>1. CASE p.form = "none"
  BY <1>1, GracefulIsPath DEF AlreadyExited, Deliveries
<1>2. CASE p.form = "graceful"
  BY <1>2 DEF AlreadyExited, Paths, Terminations
<1>3. CASE p.form = "forced"
  BY <1>3 DEF AlreadyExited, Paths
<1>. QED
  BY <1>1, <1>2, <1>3 DEF Paths

LEMMA AllExitedIsPath ==
  ASSUME NEW p \in Paths, NEW q \in Seq(Kinds)
  PROVE  AllExited(p, q) \in Paths
<1> DEFINE once(r, i) == IF i <= Len(q) THEN AlreadyExited(r, q[i]) ELSE r
<1>1. ASSUME NEW r \in Paths, NEW i \in {1, 2, 3} PROVE once(r, i) \in Paths
  <2>1. CASE i <= Len(q)
    <3>1. q[i] \in Kinds
      BY <2>1
    <3>. QED
      BY <2>1, <3>1, AlreadyExitedIsPath
  <2>. QED
    BY <2>1
<1>2. AllExited(p, q) = once(once(once(p, 1), 2), 3)
  BY DEF AllExited
<1> HIDE DEF once
<1>. QED
  BY <1>1, <1>2

LEMMA EventForcedIsPath ==
  ASSUME NEW p \in Paths, NEW k \in Kinds, NEW t \in Terminations
  PROVE  EventForced(p, k, t) \in Paths /\ EventForced(p, k, t).form = "forced"
<1>1. CASE p.form = "none"
  BY <1>1 DEF EventForced, Graceful, NoPath, Paths, Deliveries
<1>2. CASE p.form # "none"
  BY <1>2 DEF EventForced, Paths
<1>. QED
  BY <1>1, <1>2

LEMMA FailureForcedIsPath ==
  ASSUME NEW p \in Paths, NEW t \in Terminations
  PROVE  /\ FailureForced(p, t) \in Paths
         /\ p.form # "none" => FailureForced(p, t).form # "none"
BY DEF FailureForced, Paths

\* What a probe may do, and what its answer means.
LEMMA ProbeFacts ==
  ASSUME TypeInv, NEW a, Probe(a)
  PROVE  /\ a \in {"running", "dead", "uncertain"}
         /\ root' \in {root, "reaped"} /\ known' \in BOOLEAN /\ doubted' \in BOOLEAN
         /\ root' = "reaped" => root = "reaped" \/ known'
         /\ known => known'
         /\ a = "dead" => root' = "reaped" /\ (platform # "shared" => ~kin)
         /\ a # "uncertain" => doubted' = doubted
         /\ doubted => doubted'
BY DEF Probe, probes, DomainIsKnown, DomainIsEmpty, StartTimer, dedicated, TypeInv, Fails, KindsOn

\* What a force or a forwarded signal may do to the child.
LEMMA ForceFacts ==
  ASSUME SupervisorInv, pc # "done", NEW t, ForceDomain(t)
  PROVE  /\ t \in Terminations
         /\ root' \in {root, "reaped"} /\ stray' = FALSE
         /\ root' = "reaped" => root = "reaped" \/ ~dedicated
<1> USE DEF SupervisorInv, TypeInv, StrayInv, Terminations
<1>1. CASE Alone /\ ForceAlone(t)
  BY <1>1 DEF Alone, ForceAlone, Signals, dedicated
<1>2. CASE dedicated /\ ForceGroup(t)
  BY <1>2 DEF ForceGroup, IdentityIsSafe, Signals, dedicated
<1>3. CASE attached /\ ForceJob(t)
  BY <1>3 DEF ForceJob
<1>. QED
  BY <1>1, <1>2, <1>3 DEF ForceDomain

LEMMA ForwardFacts ==
  ASSUME SupervisorInv, pc # "done", NEW k, NEW d, ForwardFirst(k, d)
  PROVE  /\ root' \in {root, "reaped"} /\ stray' = FALSE
         /\ root' = "reaped" => root = "reaped" \/ ~dedicated
<1> USE DEF SupervisorInv, TypeInv, StrayInv
<1>1. CASE ByPlatform(k)
  BY <1>1 DEF ForwardFirst
<1>2. CASE ~ByPlatform(k)
  BY <1>2 DEF ForwardFirst, ByPlatform, IdentityIsSafe, Signals, dedicated, KindsOn
<1>. QED
  BY <1>1, <1>2

-----------------------------------------------------------------------------
(* The launch.                                                             *)

LEMMA InitEstablishes == Init => SupervisorInv
<1> SUFFICES ASSUME Init PROVE SupervisorInv
  OBVIOUS
<1> USE DEF Init, Events!Empty
<1>1. TypeInv
  <2>1. path \in Paths
    BY DEF NoPath, Paths
  <2>2. pending \in Seq(Kinds) /\ batch \in Seq(Kinds)
    <3>1. << >> \in Seq(Kinds)
      OBVIOUS
    <3>. QED
      BY <3>1
  <2>. QED
    BY <2>1, <2>2 DEF TypeInv, Labels
<1>2. HandInv /\ PathInv /\ ChildInv /\ StrayInv /\ DoubtInv /\ PermitMeansDead
  BY DEF HandInv, PathInv, ChildInv, StrayInv, DoubtInv, PermitMeansDead, Forcing
<1>. QED
  BY <1>1, <1>2 DEF SupervisorInv

Rest == HandInv /\ PathInv /\ ChildInv /\ StrayInv /\ DoubtInv /\ PermitMeansDead

LEMMA LaunchPreserves ==
  ASSUME SupervisorInv, LaunchRefused \/ Install \/ SpawnFails \/ Spawn
  PROVE  SupervisorInv'
<1> USE DEF Goto, world, Environment, queue, probes, forces, result
<1>1. CASE LaunchRefused
  <2>1. TypeInv'
    BY <1>1 DEF LaunchRefused, SupervisorInv, TypeInv, Labels
  <2>2. Rest'
    BY <1>1 DEF LaunchRefused, SupervisorInv, Rest, HandInv, PathInv, ChildInv, StrayInv,
                DoubtInv, PermitMeansDead, Forcing, dedicated
  <2>. QED
    BY <2>1, <2>2 DEF SupervisorInv, Rest
<1>2. CASE Install
  <2>1. TypeInv'
    BY <1>2 DEF Install, SupervisorInv, TypeInv, Labels
  <2>2. Rest'
    BY <1>2 DEF Install, SupervisorInv, Rest, HandInv, PathInv, ChildInv, StrayInv,
                DoubtInv, PermitMeansDead, Forcing, dedicated
  <2>. QED
    BY <2>1, <2>2 DEF SupervisorInv, Rest
<1>3. CASE SpawnFails
  <2>1. TypeInv'
    BY <1>3 DEF SpawnFails, SupervisorInv, TypeInv, Labels
  <2>2. Rest'
    BY <1>3 DEF SpawnFails, SupervisorInv, Rest, HandInv, PathInv, ChildInv, StrayInv,
                DoubtInv, PermitMeansDead, Forcing, dedicated
  <2>. QED
    BY <2>1, <2>2 DEF SupervisorInv, Rest
<1>4. CASE Spawn
  <2>1. TypeInv'
    BY <1>4 DEF Spawn, SupervisorInv, TypeInv, Labels
  <2>2. Rest'
    BY <1>4 DEF Spawn, SupervisorInv, Rest, HandInv, PathInv, ChildInv, StrayInv,
                DoubtInv, PermitMeansDead, Forcing, dedicated
  <2>. QED
    BY <2>1, <2>2 DEF SupervisorInv, Rest
<1>. QED
  BY <1>1, <1>2, <1>3, <1>4

LEMMA AttachPreserves ==
  ASSUME SupervisorInv, Attach
  PROVE  SupervisorInv'
<1> USE DEF SupervisorInv, TypeInv, Attach, Assigns, Goto, BeginForce, RecordsFailure, queue,
            probes, forces, result
<1>1. phase' \in {"inactive", "armed", "active", "finalizing"} /\ pending' \in Seq(Kinds)
  BY DEF Events!Activate
<1>2. attached' \in BOOLEAN /\ failures' \in BOOLEAN /\ doubt' \in BOOLEAN
  OBVIOUS
<1>3. TypeInv'
  BY <1>1, <1>2 DEF Labels
<1>4. HandInv' /\ PathInv'
  BY DEF HandInv, PathInv, Forcing
<1>5. ChildInv' /\ PermitMeansDead'
  BY DEF ChildInv, PermitMeansDead
<1>6. StrayInv'
  BY DEF StrayInv, dedicated
<1>7. DoubtInv'
  BY DEF DoubtInv
<1>. QED
  BY <1>3, <1>4, <1>5, <1>6, <1>7

-----------------------------------------------------------------------------
(* The driver.                                                             *)

LEMMA TakePendingPreserves ==
  ASSUME SupervisorInv, TakePending
  PROVE  SupervisorInv'
<1> USE DEF TakePending, Goto, world, Events!Take, probes, forces, result
<1>1. TypeInv'
  BY DEF SupervisorInv, TypeInv, Labels
<1>2. Rest'
  BY DEF SupervisorInv, Rest, HandInv, PathInv, ChildInv, StrayInv,
         DoubtInv, PermitMeansDead, Forcing, dedicated
<1>. QED
  BY <1>1, <1>2 DEF SupervisorInv, Rest

\* The labels at which the driver looks at a child it has launched.
Driving == {"take", "event", "probe", "deliver", "redeliver", "force", "poll", "uncertain"}

\* A probe that proves the death of the child may end the supervision.
LEMMA DeathIsProven ==
  ASSUME SupervisorInv, pc \in Driving, Probe("dead"), Proves, TypeInv',
         doubt' = doubt, UNCHANGED <<Environment, cleanup, stray>>
  PROVE  HandInv' /\ PathInv' /\ ChildInv' /\ StrayInv' /\ DoubtInv' /\ PermitMeansDead'
<1> USE DEF SupervisorInv, Driving, Proves, Goto, Environment
<1>1. root' = "reaped" /\ (platform # "shared" => ~kin)
  BY ProbeFacts
<1>2. /\ root' = "reaped" => root = "reaped" \/ known'
      /\ known => known'
  BY ProbeFacts
<1>3. doubted' = doubted
  BY ProbeFacts
<1>4. HandInv' /\ PathInv'
  BY DEF HandInv, PathInv, Forcing
<1>5. ChildInv' /\ PermitMeansDead'
  BY <1>1 DEF ChildInv, PermitMeansDead
<1>6. StrayInv'
  BY <1>2 DEF StrayInv, dedicated
<1>7. DoubtInv'
  <2>1. doubted' => doubt'
    BY <1>3 DEF DoubtInv
  <2>2. child' = "exited" => ~doubt
    OBVIOUS
  <2>3. child' \in {"failed", "exited"}
    OBVIOUS
  <2>. QED
    BY <1>1, <2>1, <2>2, <2>3 DEF DoubtInv
<1>. QED
  BY <1>4, <1>5, <1>6, <1>7

\* A probe that does not is followed by more of the driver.
LEMMA LivesOn ==
  ASSUME SupervisorInv, pc \in Driving, pc' \in Driving, TypeInv',
         NEW a, Probe(a), a = "uncertain" => doubt', doubt => doubt',
         child' = child, UNCHANGED <<Environment, cleanup, stray>>
  PROVE  ChildInv' /\ StrayInv' /\ DoubtInv' /\ PermitMeansDead'
<1> USE DEF SupervisorInv, Driving, Environment
<1>1. root' \in {root, "reaped"}
  BY ProbeFacts
<1>2. /\ root' = "reaped" => root = "reaped" \/ known'
      /\ known => known'
  BY ProbeFacts
<1>3. a # "uncertain" => doubted' = doubted
  BY ProbeFacts
<1>4. ChildInv' /\ PermitMeansDead'
  BY <1>1 DEF ChildInv, PermitMeansDead
<1>5. StrayInv'
  BY <1>1, <1>2 DEF StrayInv, dedicated
<1>6. DoubtInv'
  <2>1. doubted' => doubt'
    BY <1>3 DEF DoubtInv
  <2>. QED
    BY <1>1, <2>1 DEF DoubtInv
<1>. QED
  BY <1>4, <1>5, <1>6

\* What a probe leaves of the right types, with what the actions around it do.
LEMMA ProbeTypes ==
  ASSUME TypeInv, NEW a, Probe(a), UNCHANGED <<Environment, queue, cleanup, recorded, stray>>,
         pc' \in Labels, path' \in Paths, batch' \in Seq(Kinds),
         failures' \in BOOLEAN, doubt' \in BOOLEAN, last' \in Terminations \cup {"none"},
         reason' \in {"failure", "event", "late"},
         child' \in {"unknown", "failed", "missing", "exited", "uncertain"}
  PROVE  TypeInv'
<1>1. root' \in {root, "reaped"}
  BY ProbeFacts
<1>2. known' \in BOOLEAN
  BY ProbeFacts
<1>3. doubted' \in BOOLEAN
  BY ProbeFacts
<1>. QED
  BY <1>1, <1>2, <1>3 DEF TypeInv, Environment, queue

LEMMA ProbeChildPreserves ==
  ASSUME SupervisorInv, ProbeChild
  PROVE  SupervisorInv'
<1> USE DEF SupervisorInv, ProbeChild, Goto, forces
<1>1. CASE Probe("running") /\ Goto("take") /\ UNCHANGED <<failures, doubt, forces, child>>
  <2>1. TypeInv'
    <3>1. pc' \in Labels
      BY <1>1 DEF Labels
    <3>. QED
      BY <1>1, <3>1, ProbeTypes DEF TypeInv
  <2>2. HandInv' /\ PathInv'
    BY <1>1 DEF HandInv, PathInv, Forcing
  <2>3. ChildInv' /\ StrayInv' /\ DoubtInv' /\ PermitMeansDead'
    BY <1>1, <2>1, LivesOn DEF Driving
  <2>. QED
    BY <2>1, <2>2, <2>3
<1>2. CASE Probe("dead") /\ Proves /\ UNCHANGED <<failures, doubt, forces>>
  <2>1. TypeInv'
    <3>1. pc' \in Labels /\ child' \in {"failed", "exited"}
      BY <1>2 DEF Labels, Proves
    <3>. QED
      BY <1>2, <3>1, ProbeTypes DEF TypeInv
  <2>. QED
    BY <1>2, <2>1, DeathIsProven DEF Driving
<1>3. CASE /\ Probe("uncertain") /\ RecordsFailure /\ doubt' = TRUE
           /\ BeginForce("failure") /\ UNCHANGED child
  <2> USE DEF RecordsFailure, BeginForce
  <2>1. TypeInv'
    <3>1. pc' \in Labels
      BY <1>3 DEF Labels
    <3>. QED
      BY <1>3, <3>1, ProbeTypes DEF TypeInv
  <2>2. HandInv' /\ PathInv'
    BY <1>3 DEF HandInv, PathInv, Forcing
  <2>3. ChildInv' /\ StrayInv' /\ DoubtInv' /\ PermitMeansDead'
    BY <1>3, <2>1, LivesOn DEF Driving
  <2>. QED
    BY <2>1, <2>2, <2>3
<1>. QED
  BY <1>1, <1>2, <1>3

LEMMA HandleEventPreserves ==
  ASSUME SupervisorInv, HandleEvent
  PROVE  SupervisorInv'
<1> DEFINE k == Head(batch)
<1> USE DEF SupervisorInv, Goto, forces
<1>1. k \in Kinds
  BY DEF HandleEvent, HandInv, TypeInv
<1>2. pc = "event" /\ UNCHANGED <<Environment, queue, cleanup, recorded, stray>>
  BY DEF HandleEvent
<1> HIDE DEF k
<1>3. CASE /\ Probe("dead") /\ Proves
           /\ path' = IF path.form = "none" THEN Graceful(k, AfterProof(k))
                                            ELSE AlreadyExited(path, k)
           /\ batch' = << >> /\ UNCHANGED <<failures, doubt, forces>>
  <2>1. path' \in Paths
    <3>1. AfterProof(k) \in Deliveries
      BY DEF AfterProof, Deliveries
    <3>. QED
      BY <1>1, <1>3, <3>1, GracefulIsPath, AlreadyExitedIsPath DEF TypeInv
  <2>2. TypeInv'
    <3>1. pc' \in Labels /\ child' \in {"failed", "exited"}
      BY <1>3 DEF Labels, Proves
    <3>2. batch' \in Seq(Kinds)
      BY <1>3
    <3>. QED
      BY <1>2, <1>3, <2>1, <3>1, <3>2, ProbeTypes DEF TypeInv
  <2>. QED
    BY <1>2, <1>3, <2>2, DeathIsProven DEF Driving
<1>4. CASE /\ Probe("uncertain") /\ RecordsFailure /\ doubt' = TRUE
           /\ BeginForce("event") /\ UNCHANGED <<path, batch, child>>
  <2> USE DEF RecordsFailure, BeginForce
  <2>1. TypeInv'
    <3>1. pc' \in Labels
      BY <1>4 DEF Labels
    <3>. QED
      BY <1>2, <1>4, <3>1, ProbeTypes DEF TypeInv
  <2>2. HandInv' /\ PathInv'
    BY <1>2, <1>4 DEF HandInv, PathInv, Forcing
  <2>3. ChildInv' /\ StrayInv' /\ DoubtInv' /\ PermitMeansDead'
    BY <1>2, <1>4, <2>1, LivesOn DEF Driving
  <2>. QED
    BY <2>1, <2>2, <2>3
<1>5. CASE /\ Probe("running")
           /\ IF path.form = "none"
                THEN Goto("deliver") /\ UNCHANGED forces
                ELSE SecondForces
           /\ UNCHANGED <<path, batch, failures, doubt, child>>
  <2> USE DEF SecondForces, BeginForce
  <2>1. pc' \in {"deliver", "force"}
    BY <1>5
  <2>2. last' = last /\ reason' \in {"event", reason}
    BY <1>5
  <2>3. TypeInv'
    <3>1. pc' \in Labels
      BY <2>1 DEF Labels
    <3>. QED
      BY <1>2, <1>5, <2>2, <3>1, ProbeTypes DEF TypeInv
  <2>4. HandInv'
    BY <1>2, <1>5, <2>1 DEF HandInv, Forcing
  <2>5. PathInv'
    BY <1>2, <1>5, <2>1 DEF PathInv, Forcing
  <2>6. ChildInv' /\ StrayInv' /\ DoubtInv' /\ PermitMeansDead'
    BY <1>2, <1>5, <2>1, <2>3, LivesOn DEF Driving
  <2>. QED
    BY <2>3, <2>4, <2>5, <2>6
<1>. QED
  BY <1>3, <1>4, <1>5 DEF HandleEvent, k

\* A signal that is sent to the child keeps what is known of it.
LEMMA SignalsOn ==
  ASSUME SupervisorInv, pc \in Driving, pc' \in Driving, TypeInv',
         root' \in {root, "reaped"}, stray' = FALSE, root' = "reaped" => root = "reaped" \/ ~dedicated,
         UNCHANGED <<Environment, doubt, doubted, known, child, cleanup>>
  PROVE  ChildInv' /\ StrayInv' /\ DoubtInv' /\ PermitMeansDead'
<1> USE DEF SupervisorInv, Driving, Environment
<1>1. ChildInv' /\ PermitMeansDead'
  BY DEF ChildInv, PermitMeansDead
<1>2. StrayInv'
  BY DEF StrayInv, dedicated
<1>3. DoubtInv'
  BY DEF DoubtInv
<1>. QED
  BY <1>1, <1>2, <1>3

LEMMA DeliverFirstPreserves ==
  ASSUME SupervisorInv, DeliverFirst
  PROVE  SupervisorInv'
<1> USE DEF SupervisorInv, Goto
<1>1. /\ pc = "deliver" /\ batch # << >> /\ batch \in Seq(Kinds)
      /\ UNCHANGED <<Environment, queue, failures, doubt, probes, forces, result, recorded, doubted>>
  BY DEF DeliverFirst, HandInv, TypeInv
<1>2. PICK d \in Deliveries :
        /\ ForwardFirst(Head(batch), d)
        /\ path' = Graceful(Head(batch), d)
        /\ IF d = "failed" THEN Goto("redeliver") /\ UNCHANGED batch
             ELSE /\ batch' = Tail(batch)
                  /\ Goto(IF Len(batch) = 1 THEN "probe" ELSE "event")
  BY DEF DeliverFirst
<1>3. path' \in Paths /\ path'.form = "graceful"
  <2>1. Head(batch) \in Kinds
    BY <1>1
  <2>. QED
    BY <1>2, <2>1, GracefulIsPath
<1>4. /\ root' \in {root, "reaped"} /\ stray' = FALSE
      /\ root' = "reaped" => root = "reaped" \/ ~dedicated
  BY <1>1, <1>2, ForwardFacts
<1>5. pc' \in {"redeliver", "probe", "event"}
  BY <1>2
<1>6. batch' \in Seq(Kinds) /\ (pc' = "event" => batch' # << >>)
  <2>1. CASE d = "failed"
    BY <1>1, <1>2, <2>1
  <2>2. CASE d # "failed"
    <3>1. Tail(batch) \in Seq(Kinds) /\ Len(Tail(batch)) = Len(batch) - 1
      BY <1>1
    <3>2. Len(batch) \in Nat \ {0}
      BY <1>1
    <3>3. Len(batch) # 1 => Tail(batch) # << >>
      BY <3>1, <3>2
    <3>. QED
      BY <1>2, <2>2, <3>1, <3>3
  <2>. QED
    BY <2>1, <2>2
<1>7. TypeInv'
  <2>1. pc' \in Labels
    BY <1>5 DEF Labels
  <2>2. stray' \in BOOLEAN
    BY <1>4
  <2>3. root' \in {"none", "running", "zombie", "reaped"}
    BY <1>4 DEF TypeInv
  <2>. QED
    BY <1>1, <1>3, <1>6, <2>1, <2>2, <2>3
       DEF TypeInv, Environment, queue, probes, forces, result
<1>8. HandInv' /\ PathInv'
  BY <1>3, <1>5, <1>6 DEF HandInv, PathInv, Forcing
<1>9. ChildInv' /\ StrayInv' /\ DoubtInv' /\ PermitMeansDead'
  BY <1>1, <1>4, <1>5, <1>7, SignalsOn DEF Driving, probes, result
<1>. QED
  BY <1>7, <1>8, <1>9

LEMMA DeliveryFailedPreserves ==
  ASSUME SupervisorInv, DeliveryFailed
  PROVE  SupervisorInv'
<1> USE DEF SupervisorInv, Goto, forces
<1>1. /\ pc = "redeliver" /\ batch' = << >> /\ path.form # "none"
      /\ UNCHANGED <<Environment, queue, cleanup, recorded, stray>>
  BY DEF DeliveryFailed, HandInv
<1>2. batch' \in Seq(Kinds)
  BY <1>1
<1>3. CASE /\ Probe("dead") /\ Proves
           /\ path' = Graceful(path.first, "exited")
           /\ UNCHANGED <<failures, doubt, forces>>
  <2>1. path' \in Paths
    BY <1>3 DEF TypeInv, Paths, Graceful, NoPath, Deliveries
  <2>2. TypeInv'
    <3>1. pc' \in Labels /\ child' \in {"failed", "exited"}
      BY <1>3 DEF Labels, Proves
    <3>. QED
      BY <1>1, <1>2, <1>3, <2>1, <3>1, ProbeTypes DEF TypeInv
  <2>. QED
    BY <1>1, <1>3, <2>2, DeathIsProven DEF Driving
<1>4. CASE /\ \/ Probe("running") /\ UNCHANGED doubt
              \/ Probe("uncertain") /\ doubt' = TRUE
           /\ RecordsFailure /\ BeginForce("failure")
           /\ UNCHANGED <<path, child>>
  <2> USE DEF RecordsFailure, BeginForce
  <2>1. PICK a \in {"running", "uncertain"} : Probe(a) /\ (a = "uncertain" => doubt' = TRUE)
    BY <1>4
  <2>2. doubt' \in {doubt, TRUE}
    BY <1>4
  <2>3. TypeInv'
    <3>1. pc' \in Labels
      BY <1>4 DEF Labels
    <3>. QED
      BY <1>1, <1>2, <1>4, <2>1, <2>2, <3>1, ProbeTypes DEF TypeInv
  <2>4. HandInv' /\ PathInv'
    BY <1>1, <1>4 DEF HandInv, PathInv, Forcing
  <2>5. ChildInv' /\ StrayInv' /\ DoubtInv' /\ PermitMeansDead'
    BY <1>1, <1>4, <2>1, <2>2, <2>3, LivesOn DEF Driving
  <2>. QED
    BY <2>3, <2>4, <2>5
<1>. QED
  BY <1>3, <1>4 DEF DeliveryFailed

-----------------------------------------------------------------------------
(* The force.                                                              *)

LEMMA ForceChildPreserves ==
  ASSUME SupervisorInv, ForceChild
  PROVE  SupervisorInv'
<1> USE DEF SupervisorInv, Goto
<1>1. /\ pc = "force" /\ pc' = "poll"
      /\ UNCHANGED <<Environment, queue, batch, path, failures, doubt, probes,
                     attempt, reason, result, recorded, doubted>>
  BY DEF ForceChild
<1>2. PICK t \in Terminations : ForceDomain(t) /\ last' = t
  BY DEF ForceChild
<1>3. /\ root' \in {root, "reaped"} /\ stray' = FALSE
      /\ root' = "reaped" => root = "reaped" \/ ~dedicated
  BY <1>1, <1>2, ForceFacts
<1>4. TypeInv'
  <2>1. pc' \in Labels
    BY <1>1 DEF Labels
  <2>2. stray' \in BOOLEAN
    BY <1>3
  <2>3. root' \in {"none", "running", "zombie", "reaped"}
    BY <1>3 DEF TypeInv
  <2>. QED
    BY <1>1, <1>2, <2>1, <2>2, <2>3
       DEF TypeInv, Environment, queue, probes, result
<1>5. HandInv' /\ PathInv'
  BY <1>1, <1>2 DEF HandInv, PathInv, Forcing, Terminations
<1>6. ChildInv' /\ StrayInv' /\ DoubtInv' /\ PermitMeansDead'
  BY <1>1, <1>3, <1>4, SignalsOn DEF Driving, probes, result
<1>. QED
  BY <1>4, <1>5, <1>6

\* What a force makes of the path, and that it never panics.
LEMMA ForcedPathFacts ==
  ASSUME SupervisorInv, pc = "poll"
  PROVE  /\ ForcedPath \in Paths /\ ~Panics
         /\ failures \/ ForcedPath.form # "none"
         /\ reason # "failure" => ForcedPath.form # "none" /\ batch # << >>
         /\ last \in Terminations
<1> USE DEF SupervisorInv
<1>1. last \in Terminations /\ path \in Paths
  BY DEF HandInv, TypeInv
<1>2. CASE reason = "failure"
  BY <1>1, <1>2, FailureForcedIsPath DEF ForcedPath, Panics, PathInv, Forcing
<1>3. CASE reason # "failure"
  <2>1. batch # << >> /\ batch \in Seq(Kinds)
    BY <1>3 DEF HandInv, TypeInv, Forcing
  <2>2. Head(batch) \in Kinds
    BY <2>1
  <2>3. ForcedPath = EventForced(path, Head(batch), last)
    BY <1>3 DEF ForcedPath
  <2>4. ForcedPath \in Paths
    BY <1>1, <2>2, <2>3, EventForcedIsPath
  <2>5. ForcedPath.form # "none"
    BY <1>1, <2>2, <2>3, EventForcedIsPath
  <2>6. ~Panics
    BY DEF Panics, Unreachable, PathInv, Forcing
  <2>. QED
    BY <1>1, <2>1, <2>4, <2>5, <2>6
<1>. QED
  BY <1>2, <1>3

LEMMA ConfirmedPreserves ==
  ASSUME SupervisorInv, PollChild, Confirmed
  PROVE  SupervisorInv'
<1> USE DEF SupervisorInv, Goto, forces
<1>1. pc = "poll" /\ UNCHANGED <<Environment, queue, cleanup, recorded, stray>>
  BY DEF PollChild
<1>2. ForcedPath \in Paths /\ ~Panics
  BY <1>1, ForcedPathFacts
<1>3. /\ Probe("dead") /\ Proves /\ batch' = << >>
      /\ failures' = (failures \/ last = "failed") /\ UNCHANGED doubt
      /\ path' = IF reason = "late" THEN AllExited(ForcedPath, Tail(batch))
                                    ELSE ForcedPath
      /\ UNCHANGED forces
  BY <1>2 DEF Confirmed
<1>4. path' \in Paths
  <2>1. CASE reason = "late"
    <3>1. batch # << >> /\ batch \in Seq(Kinds)
      BY <1>1, <2>1, ForcedPathFacts DEF TypeInv
    <3>2. Tail(batch) \in Seq(Kinds)
      BY <3>1
    <3>. QED
      BY <1>2, <1>3, <2>1, <3>2, AllExitedIsPath
  <2>2. CASE reason # "late"
    BY <1>2, <1>3, <2>2
  <2>. QED
    BY <2>1, <2>2
<1>5. TypeInv'
  <2>1. pc' \in Labels /\ child' \in {"failed", "exited"}
    BY <1>3 DEF Labels, Proves
  <2>2. batch' \in Seq(Kinds)
    BY <1>3
  <2>3. failures' \in BOOLEAN
    BY <1>3
  <2>. QED
    BY <1>1, <1>3, <1>4, <2>1, <2>2, <2>3, ProbeTypes DEF TypeInv
<1>. QED
  BY <1>1, <1>3, <1>5, DeathIsProven DEF Driving

\* An attempt that proved nothing, after a failure or a time-out.
LEMMA AttemptEndsPreserves ==
  ASSUME SupervisorInv, PollChild, NEW a \in {"running", "uncertain"}, Probe(a),
         failures' \in BOOLEAN, failures => failures',
         doubt' \in BOOLEAN, doubt => doubt', a = "uncertain" => doubt', AttemptEnds
  PROVE  SupervisorInv'
<1> USE DEF SupervisorInv, Goto, forces
<1>1. pc = "poll" /\ UNCHANGED <<Environment, queue, cleanup, recorded, stray>>
  BY DEF PollChild
<1>2. ForcedPath \in Paths /\ ~Panics
  BY <1>1, ForcedPathFacts
<1>3. failures \/ ForcedPath.form # "none"
  BY <1>1, ForcedPathFacts
<1>4. reason # "failure" => ForcedPath.form # "none" /\ batch # << >>
  BY <1>1, ForcedPathFacts
<1>5. batch \in Seq(Kinds) /\ path \in Paths
  BY DEF TypeInv
<1>6. CASE attempt < ForceAttempts
  <2>1. pc' = "force" /\ UNCHANGED <<last, reason, path, batch, child>>
    BY <1>6 DEF AttemptEnds
  <2>2. TypeInv'
    <3>1. pc' \in Labels
      BY <2>1 DEF Labels
    <3>. QED
      BY <1>1, <2>1, <3>1, ProbeTypes DEF TypeInv
  <2>3. HandInv' /\ PathInv'
    BY <1>1, <2>1 DEF HandInv, PathInv, Forcing
  <2>4. ChildInv' /\ StrayInv' /\ DoubtInv' /\ PermitMeansDead'
    BY <1>1, <2>1, <2>2, LivesOn DEF Driving
  <2>. QED
    BY <2>2, <2>3, <2>4
<1>7. CASE ~(attempt < ForceAttempts)
  <2>1. /\ path' = ForcedPath /\ UNCHANGED child
        /\ IF reason = "late" /\ Len(batch) > 1
             THEN batch' = Tail(batch) /\ BeginForce("late")
             ELSE batch' = << >> /\ Goto("uncertain") /\ UNCHANGED forces
    BY <1>2, <1>7 DEF AttemptEnds, GiveUp
  <2>2. CASE reason = "late" /\ Len(batch) > 1
    <3>1. pc' = "force" /\ reason' = "late" /\ last' = last /\ batch' = Tail(batch)
      BY <2>1, <2>2 DEF BeginForce
    <3>2. batch' \in Seq(Kinds) /\ batch' # << >>
      <4>1. Tail(batch) \in Seq(Kinds) /\ Len(Tail(batch)) = Len(batch) - 1
        BY <1>4, <1>5, <2>2
      <4>2. Len(batch) \in Nat
        BY <1>5
      <4>. QED
        BY <2>2, <3>1, <4>1, <4>2
    <3>3. TypeInv'
      <4>1. pc' \in Labels
        BY <3>1 DEF Labels
      <4>. QED
        BY <1>1, <1>2, <2>1, <3>1, <3>2, <4>1, ProbeTypes DEF TypeInv
    <3>4. HandInv'
      BY <3>1, <3>2 DEF HandInv, Forcing
    <3>5. PathInv'
      BY <1>4, <2>1, <2>2, <3>1 DEF PathInv, Forcing
    <3>6. ChildInv' /\ StrayInv' /\ DoubtInv' /\ PermitMeansDead'
      BY <1>1, <2>1, <3>1, <3>3, LivesOn DEF Driving
    <3>. QED
      BY <3>3, <3>4, <3>5, <3>6
  <2>3. CASE ~(reason = "late" /\ Len(batch) > 1)
    <3>1. pc' = "uncertain" /\ batch' = << >> /\ UNCHANGED forces
      BY <2>1, <2>3
    <3>2. TypeInv'
      <4>1. pc' \in Labels
        BY <3>1 DEF Labels
      <4>2. batch' \in Seq(Kinds)
        BY <3>1
      <4>. QED
        BY <1>1, <1>2, <2>1, <3>1, <4>1, <4>2, ProbeTypes DEF TypeInv
    <3>3. HandInv' /\ PathInv'
      BY <1>3, <2>1, <3>1 DEF HandInv, PathInv, Forcing
    <3>4. ChildInv' /\ StrayInv' /\ DoubtInv' /\ PermitMeansDead'
      BY <1>1, <2>1, <3>1, <3>2, LivesOn DEF Driving
    <3>. QED
      BY <3>2, <3>3, <3>4
  <2>. QED
    BY <2>2, <2>3
<1>. QED
  BY <1>6, <1>7

LEMMA PollChildPreserves ==
  ASSUME SupervisorInv, PollChild
  PROVE  SupervisorInv'
<1> USE DEF SupervisorInv, Goto, forces
<1>1. pc = "poll" /\ UNCHANGED <<Environment, queue, cleanup, recorded, stray>>
  BY DEF PollChild
<1>2. CASE Confirmed
  BY <1>2, ConfirmedPreserves
<1>3. CASE PollAgain
  <2>1. /\ Probe("running") /\ pc' = pc
        /\ UNCHANGED <<last, reason, path, batch, failures, doubt, child>>
    BY <1>3 DEF PollAgain
  <2>2. TypeInv'
    <3>1. pc' \in Labels
      BY <1>1, <2>1 DEF Labels
    <3>. QED
      BY <1>1, <2>1, <3>1, ProbeTypes DEF TypeInv
  <2>3. HandInv' /\ PathInv'
    BY <1>1, <2>1 DEF HandInv, PathInv, Forcing
  <2>4. ChildInv' /\ StrayInv' /\ DoubtInv' /\ PermitMeansDead'
    BY <1>1, <2>1, <2>2, LivesOn DEF Driving
  <2>. QED
    BY <2>2, <2>3, <2>4
<1>4. CASE PollsSpent
  <2>1. doubt' \in BOOLEAN /\ (doubt => doubt')
    BY <1>4 DEF PollsSpent, RecordsDoubt, TypeInv
  <2>2. failures' \in BOOLEAN /\ (failures => failures')
    BY <1>4 DEF PollsSpent
  <2>3. Probe("running") /\ AttemptEnds
    BY <1>4 DEF PollsSpent
  <2>. QED
    BY <2>1, <2>2, <2>3, AttemptEndsPreserves
<1>5. CASE PollFails
  BY <1>5, AttemptEndsPreserves DEF PollFails, RecordsFailure, RecordsDoubt
<1>. QED
  BY <1>2, <1>3, <1>4, <1>5 DEF PollChild

-----------------------------------------------------------------------------
(* Finalization and cleanup.                                               *)

LEMMA FinalizeProvenPreserves ==
  ASSUME SupervisorInv, FinalizeProven
  PROVE  SupervisorInv'
<1> USE DEF SupervisorInv, Goto, world, forces, result, probes
<1>1. /\ pc \in {"proven", "nochild"} /\ pc' \in {pc, "cleanup"}
      /\ UNCHANGED <<world, batch, failures, doubt, probes, forces, result,
                     recorded, doubted, stray, faults>>
  BY DEF FinalizeProven
<1>2. phase' \in {"inactive", "armed", "active", "finalizing"} /\ pending' \in Seq(Kinds)
  <2>1. << >> \in Seq(Kinds)
    OBVIOUS
  <2>. QED
    BY <2>1 DEF FinalizeProven, Events!Take, Events!Finalize, TypeInv
<1>3. path' \in Paths
  BY AllExitedIsPath DEF FinalizeProven, TypeInv
<1>4. TypeInv'
  <2>1. pc' \in Labels
    BY <1>1 DEF Labels
  <2>. QED
    BY <1>1, <1>2, <1>3, <2>1 DEF TypeInv
<1>5. HandInv' /\ PathInv'
  BY <1>1 DEF HandInv, PathInv, Forcing
<1>6. ChildInv' /\ PermitMeansDead'
  BY <1>1 DEF ChildInv, PermitMeansDead
<1>7. StrayInv'
  BY <1>1 DEF StrayInv, dedicated
<1>8. DoubtInv'
  BY <1>1 DEF DoubtInv, ChildInv
<1>. QED
  BY <1>4, <1>5, <1>6, <1>7, <1>8

LEMMA FinalizeUncertainPreserves ==
  ASSUME SupervisorInv, FinalizeUncertain
  PROVE  SupervisorInv'
<1> USE DEF SupervisorInv, Goto, world, forces, result, probes
<1>1. /\ pc = "uncertain"
      /\ UNCHANGED <<world, path, doubt, probes, recorded, doubted, stray, faults>>
  BY DEF FinalizeUncertain
<1>2. CASE /\ pending # << >> /\ Events!Take
           /\ batch' = pending /\ BeginForce("late")
           /\ UNCHANGED <<failures, result>>
  <2>1. pc' = "force" /\ reason' = "late" /\ last' = last /\ phase' = phase
    BY <1>2 DEF BeginForce, Events!Take
  <2>2. batch' \in Seq(Kinds) /\ pending' \in Seq(Kinds)
    BY <1>2 DEF Events!Take, TypeInv
  <2>3. TypeInv'
    <3>1. pc' \in Labels
      BY <2>1 DEF Labels
    <3>. QED
      BY <1>1, <1>2, <2>1, <2>2, <3>1 DEF TypeInv
  <2>4. HandInv' /\ PathInv'
    BY <1>1, <1>2, <2>1 DEF HandInv, PathInv, Forcing
  <2>5. ChildInv' /\ PermitMeansDead'
    BY <1>1, <1>2, <2>1 DEF ChildInv, PermitMeansDead
  <2>6. StrayInv'
    BY <1>1, <2>1 DEF StrayInv, dedicated
  <2>7. DoubtInv'
    BY <1>1, <1>2, <2>1 DEF DoubtInv
  <2>. QED
    BY <2>3, <2>4, <2>5, <2>6, <2>7
<1>3. CASE /\ Events!Finalize /\ RecordsFailure
           /\ child' = "uncertain" /\ cleanup' = "deferred"
           /\ Goto("drop") /\ UNCHANGED <<batch, forces>>
  <2>1. phase' = "finalizing" /\ pending' = pending /\ failures' = TRUE /\ pc' = "drop"
    BY <1>3 DEF Events!Finalize, RecordsFailure
  <2>2. TypeInv'
    <3>1. pc' \in Labels
      BY <2>1 DEF Labels
    <3>. QED
      BY <1>1, <1>3, <2>1, <3>1 DEF TypeInv
  <2>3. HandInv' /\ PathInv'
    BY <1>1, <1>3, <2>1 DEF HandInv, PathInv, Forcing
  <2>4. ChildInv' /\ PermitMeansDead'
    BY <1>1, <1>3, <2>1 DEF ChildInv, PermitMeansDead
  <2>5. StrayInv'
    BY <1>1, <2>1 DEF StrayInv, dedicated
  <2>6. DoubtInv'
    BY <1>1, <1>3, <2>1 DEF DoubtInv
  <2>. QED
    BY <2>2, <2>3, <2>4, <2>5, <2>6
<1>. QED
  BY <1>2, <1>3 DEF FinalizeUncertain

\* The lease of the signals ends at a return.
LEMMA ReturnsFacts ==
  ASSUME TypeInv, Returns
  PROVE  pc' = "done" /\ phase' = "inactive" /\ pending' \in Seq(Kinds)
<1>1. << >> \in Seq(Kinds)
  OBVIOUS
<1>. QED
  BY <1>1 DEF Returns, Goto, TypeInv, Events!Release, queue

LEMMA RunCleanupPreserves ==
  ASSUME SupervisorInv, RunCleanup
  PROVE  SupervisorInv'
<1> USE DEF SupervisorInv, world, forces, probes
<1>1. /\ pc = "cleanup" /\ cleanup' \in {"succeeded", "failed"}
      /\ UNCHANGED <<world, batch, path, failures, doubt, probes, forces, child,
                     recorded, doubted, stray, faults>>
  BY DEF RunCleanup
<1>2. pc' = "done" /\ phase' = "inactive" /\ pending' \in Seq(Kinds)
  BY ReturnsFacts DEF RunCleanup
<1>3. TypeInv'
  <2>1. pc' \in Labels
    BY <1>2 DEF Labels
  <2>. QED
    BY <1>1, <1>2, <2>1 DEF TypeInv
<1>4. HandInv' /\ PathInv'
  BY <1>1, <1>2 DEF HandInv, PathInv, Forcing
<1>5. ChildInv' /\ PermitMeansDead'
  BY <1>1, <1>2 DEF ChildInv, PermitMeansDead
<1>6. StrayInv'
  BY <1>1, <1>2 DEF StrayInv, dedicated
<1>7. DoubtInv'
  BY <1>1, <1>2 DEF DoubtInv
<1>. QED
  BY <1>3, <1>4, <1>5, <1>6, <1>7

LEMMA DropArmedPreserves ==
  ASSUME SupervisorInv, DropArmed
  PROVE  SupervisorInv'
<1> USE DEF SupervisorInv, Environment, queue, forces, probes, result, Goto
<1>1. /\ pc = "drop" /\ pc' = "reap"
      /\ UNCHANGED <<Environment, queue, batch, path, failures, doubt, probes,
                     forces, result, recorded, doubted>>
  BY DEF DropArmed
<1>2. PICK t \in Terminations : ForceDomain(t)
  BY DEF DropArmed
<1>3. /\ root' \in {root, "reaped"} /\ stray' = FALSE
      /\ root' = "reaped" => root = "reaped" \/ ~dedicated
  BY <1>1, <1>2, ForceFacts
<1>4. TypeInv'
  <2>1. pc' \in Labels
    BY <1>1 DEF Labels
  <2>2. stray' \in BOOLEAN
    BY <1>3
  <2>. QED
    BY <1>1, <1>3, <2>1, <2>2 DEF TypeInv
<1>5. HandInv' /\ PathInv'
  BY <1>1 DEF HandInv, PathInv, Forcing
<1>6. ChildInv' /\ PermitMeansDead'
  BY <1>1, <1>3 DEF ChildInv, PermitMeansDead
<1>7. StrayInv'
  BY <1>1, <1>3 DEF StrayInv, dedicated
<1>8. DoubtInv'
  BY <1>1, <1>3 DEF DoubtInv
<1>. QED
  BY <1>4, <1>5, <1>6, <1>7, <1>8

LEMMA LastWaitPreserves ==
  ASSUME SupervisorInv, LastWait
  PROVE  SupervisorInv'
<1> USE DEF SupervisorInv, Environment, forces, probes, result
<1>1. /\ pc = "reap" /\ root' = (IF root = "zombie" THEN "reaped" ELSE root)
      /\ UNCHANGED <<Environment, batch, path, failures, doubt, probes, forces,
                     result, recorded, doubted, stray, faults>>
  BY DEF LastWait
<1>2. pc' = "done" /\ phase' = "inactive" /\ pending' \in Seq(Kinds)
  BY ReturnsFacts DEF LastWait
<1>3. TypeInv'
  <2>1. pc' \in Labels
    BY <1>2 DEF Labels
  <2>. QED
    BY <1>1, <1>2, <2>1 DEF TypeInv
<1>4. HandInv' /\ PathInv'
  BY <1>1, <1>2 DEF HandInv, PathInv, Forcing
<1>5. ChildInv' /\ PermitMeansDead'
  BY <1>1, <1>2 DEF ChildInv, PermitMeansDead
<1>6. StrayInv'
  BY <1>1, <1>2 DEF StrayInv, dedicated
<1>7. DoubtInv'
  BY <1>1, <1>2 DEF DoubtInv
<1>. QED
  BY <1>3, <1>4, <1>5, <1>6, <1>7

-----------------------------------------------------------------------------
(* The child and the signals.                                              *)

\* What happens outside of the supervisor leaves all of its own state alone.
Outside == UNCHANGED <<pc, batch, path, failures, doubt, known, forces, result, doubted, stray,
                       platform, attached>>

LEMMA OutsidePreserves ==
  ASSUME SupervisorInv, RootExits \/ Forks \/ KinExit \/ NumberReused \/ TimerExpires \/ Signal
  PROVE  SupervisorInv'
<1> USE DEF SupervisorInv, Outside, forces, probes, result, queue, world
<1>1. Outside
  BY DEF RootExits, Forks, KinExit, NumberReused, TimerExpires, Signal
<1>2. /\ root' = root \/ (root = "running" /\ root' = "zombie")
      /\ status' \in {status, 0, 1}
  BY DEF RootExits, Forks, KinExit, NumberReused, TimerExpires, Signal
<1>3. /\ kin' = kin \/ kin' = FALSE \/ (root = "running" /\ kin' = TRUE)
      /\ recycled' \in {recycled, TRUE}
  BY DEF RootExits, Forks, KinExit, NumberReused, TimerExpires, Signal
<1>4. phase' = phase /\ pending' \in Seq(Kinds)
  <2>1. ASSUME NEW k \in Kinds PROVE Events!Enqueue(pending, k) \in Seq(Kinds)
    <3>1. pending \in Seq(Kinds) /\ Len(pending) \in Nat
      BY DEF TypeInv
    <3>2. CASE Len(pending) < 2
      BY <3>1, <3>2 DEF Events!Enqueue
    <3>3. CASE ~(Len(pending) < 2)
      <4>1. pending[1] \in Kinds /\ pending[2] \in Kinds
        BY <3>1, <3>3
      <4>. QED
        BY <3>3, <4>1 DEF Events!Enqueue
    <3>. QED
      BY <3>2, <3>3
  <2>2. CASE Signal
    <3>1. PICK k \in KindsOn[platform] : Events!Record(k)
      BY <2>2 DEF Signal
    <3>2. k \in Kinds
      BY DEF TypeInv, KindsOn, Kinds
    <3>. QED
      BY <2>1, <3>1, <3>2 DEF Events!Record
  <2>3. CASE RootExits \/ Forks \/ KinExit \/ NumberReused \/ TimerExpires
    BY <2>3 DEF RootExits, Forks, KinExit, NumberReused, TimerExpires, TypeInv
  <2>. QED
    BY <2>2, <2>3
<1>5. TypeInv'
  <2>1. root' \in {"none", "running", "zombie", "reaped"} /\ status' \in {0, 1}
    BY <1>2 DEF TypeInv
  <2>2. kin' \in BOOLEAN /\ recycled' \in BOOLEAN
    BY <1>3 DEF TypeInv
  <2>. QED
    BY <1>1, <1>4, <2>1, <2>2 DEF TypeInv
<1>6. HandInv' /\ PathInv'
  BY <1>1 DEF HandInv, PathInv, Forcing
<1>7. ChildInv' /\ PermitMeansDead'
  BY <1>1, <1>2, <1>3 DEF ChildInv, PermitMeansDead
<1>8. StrayInv'
  BY <1>1, <1>2 DEF StrayInv, dedicated
<1>9. DoubtInv'
  BY <1>1, <1>2 DEF DoubtInv
<1>. QED
  BY <1>5, <1>6, <1>7, <1>8, <1>9

-----------------------------------------------------------------------------
(* Every step.                                                             *)

LEMMA NextPreserves == SupervisorInv /\ [Next]_vars => SupervisorInv'
<1> SUFFICES ASSUME SupervisorInv, [Next]_vars PROVE SupervisorInv'
  OBVIOUS
<1>1. CASE LaunchRefused \/ Install \/ SpawnFails \/ Spawn
  BY <1>1, LaunchPreserves
<1>2. CASE Attach
  BY <1>2, AttachPreserves
<1>3. CASE TakePending
  BY <1>3, TakePendingPreserves
<1>4. CASE ProbeChild
  BY <1>4, ProbeChildPreserves
<1>5. CASE HandleEvent
  BY <1>5, HandleEventPreserves
<1>6. CASE DeliverFirst
  BY <1>6, DeliverFirstPreserves
<1>7. CASE DeliveryFailed
  BY <1>7, DeliveryFailedPreserves
<1>8. CASE ForceChild
  BY <1>8, ForceChildPreserves
<1>9. CASE PollChild
  BY <1>9, PollChildPreserves
<1>10. CASE FinalizeProven
  BY <1>10, FinalizeProvenPreserves
<1>11. CASE FinalizeUncertain
  BY <1>11, FinalizeUncertainPreserves
<1>12. CASE RunCleanup
  BY <1>12, RunCleanupPreserves
<1>13. CASE DropArmed
  BY <1>13, DropArmedPreserves
<1>14. CASE LastWait
  BY <1>14, LastWaitPreserves
<1>15. CASE RootExits \/ Forks \/ KinExit \/ NumberReused \/ TimerExpires \/ Signal
  BY <1>15, OutsidePreserves
<1>16. CASE UNCHANGED vars
  <2> USE <1>16 DEF vars, world, queue, probes, forces, result
  <2>1. TypeInv'
    BY DEF SupervisorInv, TypeInv
  <2>2. HandInv' /\ PathInv' /\ ChildInv' /\ PermitMeansDead'
    BY DEF SupervisorInv, HandInv, PathInv, ChildInv, PermitMeansDead
  <2>3. StrayInv' /\ DoubtInv'
    BY DEF SupervisorInv, StrayInv, DoubtInv, dedicated
  <2>. QED
    BY <2>1, <2>2, <2>3 DEF SupervisorInv
<1>. QED
  BY <1>1, <1>2, <1>3, <1>4, <1>5, <1>6, <1>7, <1>8, <1>9, <1>10, <1>11, <1>12,
     <1>13, <1>14, <1>15, <1>16 DEF Next, Driver

\* Everything that is relied on below holds in every state.
THEOREM SupervisorInvariant == Spec => []SupervisorInv
<1>. QED
  BY InitEstablishes, NextPreserves, PTL DEF Spec

\* A cleanup runs only when there is no child or its whole domain is gone,
\* whatever the probes, the forces and the late signals did before.
THEOREM CleanupMeansDead == Spec => []PermitMeansDead
<1>1. SupervisorInv => PermitMeansDead
  BY DEF SupervisorInv
<1>. QED
  BY <1>1, SupervisorInvariant, PTL

\* A signal is only ever sent to a number that is still the child's.
THEOREM StrangersAreLeftAlone == Spec => []NeverSignalsAStranger
<1>1. SupervisorInv => NeverSignalsAStranger
  BY DEF SupervisorInv, StrayInv, NeverSignalsAStranger
<1>. QED
  BY <1>1, SupervisorInvariant, PTL

\* A failed liveness check is the outcome, whatever is proven after it.
THEOREM DoubtStays == Spec => []DoubtIsNeverErased
<1>1. SupervisorInv => DoubtIsNeverErased
  BY DEF SupervisorInv, DoubtInv, DoubtIsNeverErased, ExitCode
<1>. QED
  BY <1>1, SupervisorInvariant, PTL

\* An exit code of success stands for a child that ended well and a cleanup that did.
THEOREM SuccessMeansWhole == Spec => []SuccessIsWhole
<1>1. SupervisorInv => SuccessIsWhole
  <2> SUFFICES ASSUME SupervisorInv, pc = "done", ExitCode = "success"
               PROVE  /\ root = "reaped" /\ status = 0 /\ cleanup = "succeeded"
                      /\ ~doubted /\ ~PathFailed
    BY DEF SuccessIsWhole
  <2>1. child = "exited"
    BY DEF SupervisorInv, TypeInv, DoubtInv, ExitCode
  <2>2. status = 0 /\ ~PathFailed /\ cleanup # "failed"
    BY <2>1 DEF ExitCode
  <2>. QED
    BY <2>1, <2>2 DEF SupervisorInv, DoubtInv
<1>. QED
  BY <1>1, SupervisorInvariant, PTL

\* No order of signals, probes and forces reaches the driver's `unreachable!`.
THEOREM UnreachableIsNotReached == Spec => []NeverPanics
<1>1. SupervisorInv => NeverPanics
  BY DEF SupervisorInv, PathInv, NeverPanics
<1>. QED
  BY <1>1, SupervisorInvariant, PTL

=============================================================================
