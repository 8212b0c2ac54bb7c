----------------------------- MODULE IspCommand -----------------------------
(***************************************************************************)
(* What lpc55_isp.py takes for granted of one bootloader command at a      *)
(* time: a command that returns was carried out by the device for this     *)
(* very call; a command that raises leaves open whether it was.            *)
(* SecureBoot builds on this interface; McuBoot implements it.             *)
(***************************************************************************)
VARIABLES
    phase,      \* is a command under way?
    effect,     \* what the device has done of it
    verdict     \* how the last command ended for the host

vars == <<phase, effect, verdict>>

Init == phase = "idle" /\ effect = "none" /\ verdict = "none"

Call ==
    /\ phase = "idle"
    /\ phase' = "busy" /\ effect' = "none" /\ verdict' = "none"

Execute ==
    /\ phase = "busy" /\ effect = "none"
    /\ effect' \in {"done", "failed"}
    /\ UNCHANGED <<phase, verdict>>

Return ==
    /\ phase = "busy" /\ effect = "done"
    /\ phase' = "idle" /\ verdict' = "success"
    /\ UNCHANGED effect

Raise ==
    /\ phase = "busy"
    /\ phase' = "idle" /\ verdict' = "error" /\ effect' = "none"

Next == Call \/ Execute \/ Return \/ Raise

Spec == Init /\ [][Next]_vars
=============================================================================
