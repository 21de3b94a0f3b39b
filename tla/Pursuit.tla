------------------------------ MODULE Pursuit ------------------------------
(***************************************************************************)
(* What the mission manager and Nav2 promise together, without goals,      *)
(* handles, requests or timers: the robot commits itself to the target of  *)
(* the selected mode while that target is fresh, drives to nothing but     *)
(* the target it is committed to, and is not released from a commitment    *)
(* before it has stopped driving.  So it drives to one target at a time    *)
(* and stops between two of them.                                          *)
(***************************************************************************)
CONSTANTS Targets, None

VARIABLES
    mode,       \* the selected mode: a target, or "idle"
    fresh,      \* the targets whose positions are fresh
    chosen,     \* the target the robot is committed to, or None
    driven      \* the target it is driving to, or None

vars == <<mode, fresh, chosen, driven>>

Init ==
    /\ mode \in Targets \cup {"idle"}
    /\ fresh = {}
    /\ chosen = None /\ driven = None

Select ==
    /\ mode' \in Targets \cup {"idle"}
    /\ UNCHANGED <<fresh, chosen, driven>>

Hear ==
    /\ \E m \in Targets : fresh' = fresh \cup {m}
    /\ UNCHANGED <<mode, chosen, driven>>

Forget ==
    /\ fresh' \in SUBSET fresh
    /\ UNCHANGED <<mode, chosen, driven>>

Commit ==
    /\ chosen = None /\ mode \in fresh
    /\ chosen' = mode
    /\ UNCHANGED <<mode, fresh, driven>>

Drive ==
    /\ chosen # None /\ driven = None
    /\ driven' = chosen
    /\ UNCHANGED <<mode, fresh, chosen>>

Halt ==
    /\ driven' = None
    /\ UNCHANGED <<mode, fresh, chosen>>

Release ==
    /\ driven = None
    /\ chosen' = None
    /\ UNCHANGED <<mode, fresh, driven>>

\* The process that made the commitment is replaced by a new one.
Restart ==
    /\ mode' \in Targets \cup {"idle"}
    /\ fresh' = {}
    /\ chosen' = None /\ driven' = None

Next == Select \/ Hear \/ Forget \/ Commit \/ Drive \/ Halt \/ Release \/ Restart

Spec == Init /\ [][Next]_vars
=============================================================================
