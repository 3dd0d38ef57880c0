---------------------------- MODULE MCSelection ----------------------------
(* Two candidates that tie on everything but their hashes, with the hash of  *)
(* the previous block below both, as the README has it decide.               *)
EXTENDS SelectionList, TLC

CONSTANTS
    t1, c1, c2,
    PreviousHash \* the hash of the previous block, in the order of HashRank

MCTx == {t1}
MCTxTime == (t1 :> 1)
MCCandidate == {[creator |-> c1, txs |-> {t1}], [creator |-> c2, txs |-> {t1}]}
MCHashRank == [c \in MCCandidate |-> IF c.creator = c1 THEN 4 ELSE 7]

Distance(c) ==
    LET d == HashRank[c] - PreviousHash IN IF d < 0 THEN -d ELSE d

(* README, on blocks of identical criteria: they are selected in "the        *)
(* closest order to the array of the previous block hash".  The code takes   *)
(* the greatest hash and does not look at the previous block.                *)
ClosestHashWins ==
    \A n \in Node :
        step[n] = "selected" =>
            \A c \in OldestTx(MaximumTx(Pooled(n))) :
                Distance(Winner(n)) <= Distance(c)
=============================================================================
