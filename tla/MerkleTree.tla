----------------------------- MODULE MerkleTree -----------------------------
(***************************************************************************)
(* merkleroot over the hashes of the transactions or the votes of a block, *)
(* beside a definition of the tree.  It works on the list it is given, and *)
(* an odd list comes back longer by one.                                   *)
(***************************************************************************)
EXTENDS Loops

CONSTANTS
    Leaf,    \* the hashes in the list
    NoRoot,  \* no root has been computed
    MaxLen   \* bound on the list

VARIABLES
    p_list, \* the list, which its owner fills and hands over
    root    \* the root of the list as it is

merkle == <<p_list, root>>

MerkleInit == p_list = <<>> /\ root = NoRoot

\* The owner of the list: generate_tx_root_hash, generate_vote_root_hash
Fill(x) ==
    /\ Len(p_list) < MaxLen
    /\ p_list' = Append(p_list, x)
    /\ root' = NoRoot

\* The empty list raises an exception.  A list of one is its own root.
ComputeRoot ==
    /\ p_list # <<>>
    /\ root' = merkleroot(p_list)
    /\ p_list' = IF Len(p_list) = 1 THEN p_list ELSE Padded(p_list)

MerkleNext == (\E x \in Leaf : Fill(x)) \/ ComputeRoot

MerkleSpec == MerkleInit /\ [][MerkleNext]_merkle

-----------------------------------------------------------------------------

\* How many nodes a tree over n leaves has at a level
Width(n, level) ==
    LET width[l \in 0 .. level] ==
            IF l = 0 THEN n ELSE (width[l - 1] + 1) \div 2
    IN  width[level]

\* The node that is the right one of the pair i of a level
Right(n, level, i) == IF 2 * i <= Width(n, level) THEN 2 * i ELSE Width(n, level)

\* The node i at a level of the tree over s
HashAt(s, level, i) ==
    LET nodes[l \in 0 .. level] ==
            IF l = 0 THEN s
              ELSE [j \in 1 .. Width(Len(s), l) |->
                       Hash(nodes[l - 1][2 * j - 1],
                            nodes[l - 1][Right(Len(s), l - 1, j)])]
    IN  nodes[level][i]

Depth(n) == CHOOSE d \in 0 .. n : Width(n, d) = 1 /\ \A e \in 0 .. d - 1 : Width(n, e) # 1

(* The loop computes the root of the tree in which a node without a right    *)
(* neighbour is its own, level by level.  It does so again from the list     *)
(* that the first call has made longer.                                      *)
RootOfTheTree == root # NoRoot => root = HashAt(p_list, Depth(Len(p_list)), 1)

=============================================================================
