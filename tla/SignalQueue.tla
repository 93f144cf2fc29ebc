---------------------------- MODULE SignalQueue ----------------------------
(***************************************************************************)
(* What the supervision driver relies on from the signal machinery: an     *)
(* ordered queue of occurrences that saturates at three and accepts one    *)
(* only while a session is active. EventLedger implements it without a     *)
(* lock (src/process/event.rs).                                            *)
(***************************************************************************)
EXTENDS Naturals, Sequences

CONSTANT Kinds      \* InterruptKind

VARIABLES
    phase,          \* the session's phase
    pending         \* the occurrences to be taken, oldest first

queueVars == <<phase, pending>>

\* A third and later occurrence is kept as a repetition of the second.
Enqueue(q, k) ==
    IF Len(q) < 2 THEN Append(q, k) ELSE <<q[1], q[2], q[2]>>

Empty == phase = "inactive" /\ pending = << >>

Lease == phase = "inactive" /\ phase' = "armed" /\ UNCHANGED pending
Activate == phase = "armed" /\ phase' = "active" /\ UNCHANGED pending

Record(k) ==
    /\ phase = "active"
    /\ pending' = Enqueue(pending, k) /\ UNCHANGED phase

Take == phase = "active" /\ pending' = << >> /\ UNCHANGED phase

\* Nothing accepted is left behind by a finalization.
Finalize ==
    /\ phase \in {"armed", "active"} /\ pending = << >>
    /\ phase' = "finalizing" /\ UNCHANGED pending

Release == phase # "inactive" /\ phase' = "inactive" /\ pending' = << >>

Next ==
    \/ Lease \/ Activate \/ Take \/ Finalize \/ Release
    \/ \E k \in Kinds : Record(k)

Queue == Empty /\ [][Next]_queueVars
=============================================================================
