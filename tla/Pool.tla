-------------------------------- MODULE Pool --------------------------------
(* What a pool of data in waves promises its engine: the data it holds, and  *)
(* the data it finds by their keys.  A key may come in several waves; it is  *)
(* found in the wave it came in last.  The pools of LLFC are pools of this   *)
(* kind; StagedDataPool and VotePool implement it.                           *)

CONSTANTS
    Data,         \* what is pooled
    GetKey,       \* get_key of each
    Wave, GetWave \* get_wave of each

VARIABLES held, found

Keys(S) == {GetKey[d] : d \in S}
InWave(S, w) == {d \in S : GetWave[d] = w}

Init == held = {} /\ found = {}

\* The data that d takes the place of
Same(d) == {e \in held : GetKey[e] = GetKey[d] /\ GetWave[e] = GetWave[d]}

Put(d) ==
    /\ held' = (held \ Same(d)) \cup {d}
    /\ found' = {e \in found : GetKey[e] # GetKey[d]} \cup {d}

\* What is removed by its key is what is found by it.
Remove(d) ==
    /\ d \in found
    /\ held' = held \ {d}
    /\ found' = found \ {d}

\* A key of the wave is found no longer, be it in another wave.
RemoveWave(w) ==
    /\ Keys(InWave(held, w)) \subseteq Keys(found)
    /\ held' = held \ InWave(held, w)
    /\ found' = {d \in found : GetKey[d] \notin Keys(InWave(held, w))}

\* A key of the wave is not found: the removal stops half way.
RemoveWaveFails(w) ==
    /\ ~(Keys(InWave(held, w)) \subseteq Keys(found))
    /\ held' = held
    /\ found' \subseteq found
    /\ Keys(found \ found') \subseteq Keys(InWave(held, w))

KeepWave(w) ==
    /\ held' = InWave(held, w)
    /\ found' = InWave(held, w)

Clear == held' = {} /\ found' = {}

Next ==
    \/ \E d \in Data : Put(d) \/ Remove(d)
    \/ \E w \in Wave : RemoveWave(w) \/ RemoveWaveFails(w) \/ KeepWave(w)
    \/ Clear

Spec == Init /\ [][Next]_<<held, found>>
=============================================================================
