------------------------------ MODULE MCPools ------------------------------
(* What a node stores: three keys in two waves, one of which comes with two  *)
(* data; votes for two hashes.  Transactions of the past, the present and    *)
(* the future, empty blocks that may come again, and one with a transaction  *)
(* that its sender has signed.                                               *)
EXTENDS Storage

CONSTANTS k1, k2, k3, w1, w2, h1, h2, t1, t2, t3, full

MCKey == {k1, k2, k3}
MCWave == {w1, w2}
MCHash == {h1, h2}
MCData == {<<k, w, 1>> : k \in MCKey, w \in MCWave} \cup {<<k1, w1, 2>>}
MCGetKey == [d \in MCData |-> d[1]]
MCGetWave == [d \in MCData |-> d[2]]
MCGetHash == [d \in MCData |-> IF d[1] = k3 THEN h2 ELSE h1]
MCTimeOf == [t \in {t1, t2, t3} |->
                CASE t = t1 -> -1 [] t = t2 -> 1 [] t = t3 -> 3]
MCSender == [t \in {t1, t2, t3} |-> CHOOSE a \in Address : TRUE]
MCTxsOf == [b \in FinalBlock |-> IF b = full THEN {t1} ELSE {}]
=============================================================================
