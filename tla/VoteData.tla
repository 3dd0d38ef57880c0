------------------------------ MODULE VoteData ------------------------------
(* What the pool of votes holds: data that vote for a hash.                  *)
EXTENDS PoolData, FiniteSets

CONSTANTS Hash, GetHash \* hash_candidate_block of a vote

ASSUME VoteAssumption ==
    /\ IsFiniteSet(Data)
    /\ GetHash \in [Data -> Hash]
    /\ \A S \in SUBSET Data : S # None
    /\ \A f \in [Hash -> {None} \cup SUBSET Data] : f # None

\* Vote.to_hash, the key of a vote, covers the hash voted for.
ASSUME KeyAssumption ==
    \A d, e \in Data : GetKey[d] = GetKey[e] => GetHash[d] = GetHash[e]
=============================================================================
