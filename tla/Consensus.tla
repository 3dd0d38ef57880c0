----------------------------- MODULE Consensus -----------------------------
(* What LLFC promises, with no word on candidates, votes or retries: for     *)
(* each height at most one block is ever decided, decided blocks stay        *)
(* decided, and each node's chain only grows, by the block decided for its   *)
(* next height.                                                              *)
EXTENDS Naturals, Sequences

CONSTANTS Node, Height(_)

VARIABLES decided, chain

vars == <<decided, chain>>

Init == decided = {} /\ chain = [n \in Node |-> <<>>]

Decide ==
    /\ \E f \in decided' \ decided :
           /\ decided' = decided \cup {f}
           /\ \A g \in decided : Height(g) # Height(f)
    /\ UNCHANGED chain

Adopt(n) ==
    /\ \E f \in decided :
           /\ Height(f) = Len(chain[n]) + 1
           /\ chain' = [chain EXCEPT ![n] = Append(@, f)]
    /\ UNCHANGED decided

Next == Decide \/ \E n \in Node : Adopt(n)

Spec == Init /\ [][Next]_vars

(* Two chains hold the same block at every height both reach.                *)
Agreement ==
    \A m, n \in Node :
        \A h \in 1 .. Len(chain[m]) :
            h <= Len(chain[n]) => chain[m][h] = chain[n][h]
=============================================================================
