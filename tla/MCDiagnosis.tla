---------------------------- MODULE MCDiagnosis ----------------------------
(* The two checks of `asm doctor` that do more than look: the `--version` observation *)
(* of an agent and the probe of a link mode. They share nothing, and each has the     *)
(* behaviours in which the other is not under way.                                    *)
EXTENDS Capture, LinkProbe

MCInit ==
    \/ CaptureInit /\ ProbeAt("over") /\ mode = "symlink"
    \/ CaptureAt("done") /\ platform = "unix" /\ ProbeInit

MCNext ==
    \/ CaptureNext /\ UNCHANGED probeVars
    \/ ProbeNext /\ UNCHANGED captureVars

MCFairness ==
    /\ WF_captureVars(ObserverNext /\ UNCHANGED probeVars)
    /\ WF_captureVars(TimerExpires /\ UNCHANGED probeVars)

MCSpec == MCInit /\ [][MCNext]_<<captureVars, probeVars>> /\ MCFairness
=============================================================================
