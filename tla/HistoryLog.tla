------------------------------ MODULE HistoryLog -----------------------------
(***************************************************************************)
(* What in-memory metric history promises: under each key, the last Size   *)
(* points recorded there, oldest first; folding one key into another       *)
(* appends its points to the other's and forgets the key.                  *)
(***************************************************************************)
EXTENDS Recent

CONSTANTS
    Keys,       \* the miners (one series each)
    Values,     \* the points
    Size        \* history_points

VARIABLE log    \* key |-> its points, oldest first; << >> when it has none

LogInit == log = [k \in Keys |-> << >>]

Record(k, v) ==
    log' = [log EXCEPT ![k] = KeepLast(Append(@, v), Size)]

Fold(src, dst) ==
    log' = [log EXCEPT ![src] = << >>,
                       ![dst] = KeepLast(log[dst] \o log[src], Size)]

LogNext ==
    \/ \E k \in Keys, v \in Values : Record(k, v)
    \/ \E src, dst \in Keys : src # dst /\ Fold(src, dst)

LogSpec == LogInit /\ [][LogNext]_log
=============================================================================
