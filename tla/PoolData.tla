------------------------------ MODULE PoolData ------------------------------
(* What the pools of candidates and of votes hold: data with a key and a     *)
(* wave.  A dictionary is a function to its values or None.                  *)

CONSTANTS
    Data,
    Key, GetKey,   \* get_key of the data
    Wave, GetWave, \* get_wave of the data
    None           \* a key that is not in a dictionary

ASSUME DataAssumption ==
    /\ GetKey \in [Data -> Key] /\ GetWave \in [Data -> Wave]
    /\ None \notin Data /\ None \notin Wave
=============================================================================
