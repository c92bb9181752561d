------------------------------- MODULE Config -------------------------------
(***************************************************************************)
(* The settings of the process (internal/config/config.go): defaults, then *)
(* what the config file says, then what the environment says, then limits  *)
(* that hold between the settings.  The three that depend on each other    *)
(* are here; those that are limited alone, or not at all, are left out.    *)
(* The other modules take what comes out as constants.  Times are in units *)
(* of the instance.                                                        *)
(***************************************************************************)
EXTENDS Integers

CONSTANTS
    Unset,            \* a setting that is absent, or does not parse
    DefaultPoll, DefaultRetention,
    LeastPoll,        \* the shortest poll interval
    LeastPoints,      \* the smallest ring
    Settings          \* the numbers that can be given

ASSUME ConfigAssumption ==
    /\ {DefaultPoll, DefaultRetention, LeastPoll} \subseteq Nat \ {0}
    /\ LeastPoll <= DefaultPoll /\ DefaultPoll <= DefaultRetention
    /\ LeastPoints \in Nat
    /\ Settings \subseteq Int /\ Unset \notin Int

VARIABLE cfg    \* the settings of the running process, or Unset

Given == Settings \cup {Unset}

Inputs == [poll : Given, retention : Given, points : Given]

Defaults == [poll |-> DefaultPoll, retention |-> DefaultRetention, points |-> 0]

(* applyFile, and applyEnv over its result.                                *)
ApplyGiven(c, given) ==
    [k \in DOMAIN c |-> IF given[k] = Unset THEN c[k] ELSE given[k]]

Largest(a, b) == IF a >= b THEN a ELSE b

(* A retention that is shorter than a poll means the default. *)
KeptFor(c, poll) ==
    IF c.retention < poll THEN DefaultRetention ELSE c.retention

(* Mutant: the retention is compared with the interval as it was given. *)
ClampRetentionFirst(c) ==
    LET poll      == Largest(c.poll, LeastPoll)
        retention == KeptFor(c, c.poll)
    IN  [poll |-> poll, retention |-> retention,
         points |-> Largest(c.points, Largest((retention \div poll) + 2, LeastPoints))]

ClampConfig(c) ==
    LET poll      == Largest(c.poll, LeastPoll)
        retention == KeptFor(c, poll)
    IN  [poll |-> poll, retention |-> retention,
         points |-> Largest(c.points, Largest((retention \div poll) + 2, LeastPoints))]

LoadConfig(file, env) == ClampConfig(ApplyGiven(ApplyGiven(Defaults, file), env))

(* The settings are loaded when the process starts, and stay.              *)
ConfigInit == cfg = Unset

Load ==
    /\ cfg = Unset
    /\ \E file, env \in Inputs : cfg' = LoadConfig(file, env)

Exit == cfg # Unset /\ cfg' = Unset

ConfigNext == Load \/ Exit

ConfigSpec == ConfigInit /\ [][ConfigNext]_cfg

-----------------------------------------------------------------------------
(* "Ring capacity must cover retention at the poll cadence (plus a small   *)
(* buffer)" (config.go:265): whatever the config file and the environment  *)
(* say together, nothing polls faster than the least interval, a ring      *)
(* holds every poll of the retention and one more, so that age and never   *)
(* its size decides what is dropped, and a sample outlives the poll that   *)
(* made it unless polls are further apart than the default retention.      *)
RingCoversRetention ==
    cfg # Unset =>
        /\ cfg.poll >= LeastPoll
        /\ cfg.points * cfg.poll > cfg.retention + cfg.poll
        /\ cfg.retention >= cfg.poll \/ cfg.poll > DefaultRetention
=============================================================================
