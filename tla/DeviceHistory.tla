---------------------------- MODULE DeviceHistory ----------------------------
(***************************************************************************)
(* What the metric database promises, told by device and not by id: a      *)
(* sample that was recorded stays, through address changes, renames,       *)
(* failures and restarts, until retention ages it out.                     *)
(***************************************************************************)
EXTENDS Integers

CONSTANTS Devices, Retention

VARIABLES
    recorded,   \* pairs of a device and the time of a sample of it
    clock

Record(b, t) ==
    /\ t <= clock
    /\ recorded' = recorded \cup {<<b, t>>}
    /\ UNCHANGED clock

Expire ==
    /\ Retention > 0
    /\ recorded' = { x \in recorded : x[2] >= clock - Retention }
    /\ UNCHANGED clock

Tick ==
    /\ clock' = clock + 1
    /\ UNCHANGED recorded

HistoryInit == recorded = {} /\ clock = 1

HistoryNext ==
    \/ \E b \in Devices, t \in 1..clock : Record(b, t)
    \/ Expire
    \/ Tick

HistorySpec == HistoryInit /\ [][HistoryNext]_<<recorded, clock>>
=============================================================================
