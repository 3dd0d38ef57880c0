---------------------------- MODULE MCAlgorithms ----------------------------
(* The engine's algorithms, side by side: they share nothing, so a behaviour *)
(* is one of the selection of a block, of records that are made and sent, of *)
(* waves, of passes of the tree, of sums of points, signatures or Merkle     *)
(* roots.                                                                    *)
(*                                                                           *)
(* The curve of 31 points over the field of 43; some points have an x of 31  *)
(* and more.  Hashes to sign are less than, equal to and more than the order.*)
EXTENDS Ecdsa, SelectionList, Passes, Waves, Records, MerkleTree, TLC

CONSTANTS
    t1, t2, t3, c1, c2, c3 \* the selection

MCPrivate == {1, 2, 15, 30}
MCMsgHash == {0, 1, 16, 30, 31, 40}
MCNonce == (1 .. 30) \cup {32, 45}

MCTx == {t1, t2, t3}

\* t2 and t3 carry the same client timestamp.
MCTxTime == (t1 :> 1) @@ (t2 :> 2) @@ (t3 :> 2)

\* Four candidates that tie on the number of transactions, on the oldest
\* transaction, on both or on none.
MCCandidate ==
    { [creator |-> c1, txs |-> {t2}],
      [creator |-> c2, txs |-> {t1, t2}],
      [creator |-> c3, txs |-> {t1, t3}],
      [creator |-> c1, txs |-> {t2, t3}] }

MCHashRank ==
    [c \in MCCandidate |->
        CASE c.creator = c2 -> 7
          [] c.creator = c3 -> 4
          [] OTHER -> 7 + Cardinality(c.txs)]

Transfer(nonce, value, fee) ==
    [tx_hash |-> Empty, type |-> "transfer", nonce |-> nonce, from |-> c1,
     to |-> c2, value |-> value, fee |-> fee, message |-> <<>>, timestamp |-> 5]

\* The first two are of one hash: 1 and 23, 12 and 3 are the same digits.
MCTxLists ==
    { <<Transfer(1, 1, 23)>>,
      <<Transfer(1, 12, 3), Transfer(2, 1, 23)>> }

VARIABLES
    part,                 \* the algorithm that runs
    point, affine, factor \* the sums

walk == <<point, affine, factor>>

Walk == INSTANCE CurveWalk

\* Bound: one dictionary of each type on its way to a node
FewOnTheWire ==
    \A n \in Address : \A p, q \in wire[n] : p[1] = q[1] => p = q

InitAll ==
    /\ SelectionInit /\ RecordsInit /\ WavesInit
    /\ PassesInit /\ Walk!Init /\ MerkleInit

MCInit ==
    \/ /\ part \in {"selection", "records", "waves", "passes", "walk", "merkle"}
       /\ InitAll
       /\ private = None /\ msg_hash = None /\ vrs = None /\ signer = None
    \/ part = "signature" /\ InitAll /\ Init

MCNext ==
    /\ UNCHANGED part
    /\ \/ /\ part = "selection" /\ SelectionNext
          /\ UNCHANGED <<records, waves, passes, walk, merkle, vars>>
       \/ /\ part = "records" /\ RecordsNext /\ FewOnTheWire'
          /\ UNCHANGED <<selection, waves, passes, walk, merkle, vars>>
       \/ /\ part = "waves" /\ WavesNext
          /\ UNCHANGED <<selection, records, passes, walk, merkle, vars>>
       \/ /\ part = "passes" /\ PassesNext
          /\ UNCHANGED <<selection, records, waves, walk, merkle, vars>>
       \/ /\ part = "walk" /\ Walk!Next
          /\ UNCHANGED <<selection, records, waves, passes, merkle, vars>>
       \/ /\ part = "merkle" /\ MerkleNext
          /\ UNCHANGED <<selection, records, waves, passes, walk, vars>>
       \/ /\ part = "signature" /\ Next
          /\ UNCHANGED <<selection, records, waves, passes, walk, merkle>>

MCSpec ==
    MCInit
        /\ [][MCNext]_<<part, selection, records, waves, passes, walk, merkle, vars>>

(* j_double, j_add and j_mul compute in the group of the curve.              *)
ComputesInGroup == Walk!ComputesInGroup
=============================================================================
