------------------------------ MODULE MCParts -------------------------------
(***************************************************************************)
(* Instances of the parts that share no state with any other: the rings,   *)
(* the settings, and the temperatures.  Each moves only while the others   *)
(* are where they began, so that their states add up and do not multiply.  *)
(***************************************************************************)
EXTENDS Ring, Config, Temps

(* Absurd ones, short ones, and one longer than the default retention. *)
MCSettings == {-1, 0, 1, 2, 3, 5, 12}

PartsInit == RingInit /\ ConfigInit /\ TempsInit

PartsNext ==
    \/ ConfigInit /\ TempsInit /\ RingNext /\ UNCHANGED <<cfg, temps>>
    \/ RingInit /\ TempsInit /\ ConfigNext /\ UNCHANGED <<rings, temps>>
    \/ RingInit /\ ConfigInit /\ TempsNext /\ UNCHANGED <<rings, cfg>>

PartsSpec == PartsInit /\ [][PartsNext]_<<rings, cfg, temps>>
=============================================================================
