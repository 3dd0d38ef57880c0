----------------------------- MODULE Selection -----------------------------
(* The rule by which an LLFC engine chooses one of the candidate blocks of a *)
(* wave (gbrick/consensus/llfc/llfc.py, select_*; btree.py, select_tree).    *)
(* The rule is stated on the SET of the candidates; SelectionList runs the   *)
(* same rule on the lists the code uses, in the order they arrived, and      *)
(* checks that the two agree.                                                *)
EXTENDS Integers, FiniteSets

CONSTANTS
    Tx,        \* the transactions
    TxTime,    \* their client timestamps
    Candidate, \* the candidate blocks: records with a field txs
    HashRank   \* the order of hash_candidate_block as a byte string

ASSUME TxAssumption == IsFiniteSet(Tx) /\ TxTime \in [Tx -> Int]
ASSUME CandidateAssumption ==
    \A c \in Candidate : c.txs \in SUBSET Tx /\ c.txs # {}
ASSUME HashAssumption ==
    /\ HashRank \in [Candidate -> Nat]
    /\ \A c, d \in Candidate : HashRank[c] = HashRank[d] => c = d

\* select_maximum_tx: the candidates with the most transactions.
MaximumTx(S) ==
    {c \in S : \A d \in S : Cardinality(d.txs) <= Cardinality(c.txs)}

\* c holds a transaction no younger than all those of d.
AsOld(c, d) == \E t \in c.txs : \A u \in d.txs : TxTime[t] <= TxTime[u]

\* select_oldest_tx: the candidates that hold the oldest transaction.
OldestTx(S) == {c \in S : \A d \in S : AsOld(c, d)}

\* select_conflict_tolerance: the candidate with the greatest hash.
ConflictTolerance(S) == {c \in S : \A d \in S : HashRank[d] <= HashRank[c]}

\* One candidate is left, so the Selector of select_tree stops.
Decided(S) == Cardinality(S) = 1

\* select_tree, without select_timecompatibility, which always returns False
\* and changes nothing.
Select(S) ==
    LET most == MaximumTx(S)
        old  == OldestTx(most)
    IN  IF Decided(most) THEN most
          ELSE IF Decided(old) THEN old
          ELSE ConflictTolerance(old)
=============================================================================
