-------------------------------- MODULE Loops -------------------------------
(* The loops over lists, of blocks, votes or hashes.                         *)
EXTENDS Naturals, Sequences

\* The loop that appends what it keeps, in turn
Kept(list, keep) ==
    LET kept[i \in 0 .. Len(list)] ==
            IF i = 0 THEN <<>>
              ELSE IF list[i] \in keep THEN Append(kept[i - 1], list[i])
              ELSE kept[i - 1]
    IN  kept[Len(list)]

\* to_gbrick_hash of two hashes: different pairs have different hashes.
Hash(a, b) == <<a, b>>

\* Mutant: an odd list loses its last element.
PaddedShort(s) == IF Len(s) % 2 # 0 THEN SubSeq(s, 1, Len(s) - 1) ELSE s

\* The last element is appended again to an odd list.
Padded(s) == IF Len(s) % 2 # 0 THEN Append(s, s[Len(s)]) ELSE s

Pairs(s) == [i \in 1 .. Len(s) \div 2 |-> Hash(s[2 * i - 1], s[2 * i])]

\* The list that each call hands to the next, until it has one element: a call
\* for each element of s is more than enough.
merkleroot(s) ==
    LET level[d \in 0 .. Len(s)] ==
            IF d = 0 THEN s
              ELSE LET new_list == level[d - 1]
                   IN  IF Len(new_list) = 1 THEN new_list
                         ELSE Pairs(Padded(new_list))
    IN  level[Len(s)][1]
=============================================================================
