--------------------------- MODULE SelectionList ---------------------------
(* select_tree as the engines run it: each node takes the candidates of its  *)
(* wave from the pool in the order they arrived, and narrows the list one    *)
(* behaviour-tree action at a time.  More candidates may arrive between two  *)
(* rounds, never inside one (one queue thread does both).                    *)
EXTENDS Selection, SequencesExt, Loops

CONSTANTS Node

VARIABLES
    stage_list,           \* pool_candidate_block, one wave, in arrival order
    list_selected_block,  \* list_selected_block
    step                  \* the next child of select_tree

selection == <<stage_list, list_selected_block, step>>

SelectionInit ==
    /\ stage_list = [n \in Node |-> <<>>]
    /\ list_selected_block = [n \in Node |-> <<>>]
    /\ step = [n \in Node |-> "collect"]

\* A candidate is put in the pool; one already there keeps its place.
PutCandidate(n, c) ==
    /\ step[n] \in {"collect", "selected"}
    /\ c \notin ToSet(stage_list[n])
    /\ stage_list' = [stage_list EXCEPT ![n] = Append(@, c)]
    /\ step' = [step EXCEPT ![n] = "collect"]
    /\ UNCHANGED list_selected_block

\* get_propose_block_from_pool
GetProposeBlocks(n) ==
    /\ step[n] = "collect"
    /\ stage_list[n] # <<>>
    /\ list_selected_block' = [list_selected_block EXCEPT ![n] = stage_list[n]]
    /\ step' = [step EXCEPT ![n] = "maximum"]
    /\ UNCHANGED stage_list

\* A narrowing child: it returns True, which ends the Selector, when one block
\* is left, and False, which tries the next child, when there are more.
Narrow(n, kept, next) ==
    /\ list_selected_block' = [list_selected_block EXCEPT ![n] = kept]
    /\ step' = [step EXCEPT ![n] = IF Len(kept) = 1 THEN "selected" ELSE next]
    /\ UNCHANGED stage_list

TxCount(c) == Cardinality(c.txs)

SelectMaximumTx(n) ==
    LET list == list_selected_block[n]
        most == Max({TxCount(c) : c \in ToSet(list)})
        keep == {c \in ToSet(list) : most <= TxCount(c)}
    IN  step[n] = "maximum" /\ Narrow(n, Kept(list, keep), "oldest")

OldestTime(c) == Min({TxTime[t] : t \in c.txs})

\* Mutant: the youngest transaction wins.
SelectYoungestTx(n) ==
    LET list == list_selected_block[n]
        youngest == Max({OldestTime(c) : c \in ToSet(list)})
        keep == {c \in ToSet(list) : youngest <= OldestTime(c)}
    IN  step[n] = "oldest" /\ Narrow(n, Kept(list, keep), "conflict")

\* select_timecompatibility comes next and only returns False.
SelectOldestTx(n) ==
    LET list == list_selected_block[n]
        oldest == Min({OldestTime(c) : c \in ToSet(list)})
        keep == {c \in ToSet(list) : oldest >= OldestTime(c)}
    IN  step[n] = "oldest" /\ Narrow(n, Kept(list, keep), "conflict")

\* Mutant: the scan keeps the block that arrived last.
LastArrived(list) == list[Len(list)]

\* The scan keeps the first of the greatest hashes.
GreatestHash(list) ==
    LET best[i \in 1 .. Len(list)] ==
            IF i = 1 THEN list[1]
              ELSE IF HashRank[best[i - 1]] < HashRank[list[i]] THEN list[i]
              ELSE best[i - 1]
    IN  best[Len(list)]

SelectConflictTolerance(n) ==
    /\ step[n] = "conflict"
    /\ Narrow(n, <<GreatestHash(list_selected_block[n])>>, "selected")

SelectionNext ==
    \E n \in Node :
        \/ \E c \in Candidate : PutCandidate(n, c)
        \/ GetProposeBlocks(n)
        \/ SelectMaximumTx(n)
        \/ SelectOldestTx(n)
        \/ SelectConflictTolerance(n)

SelectionSpec == SelectionInit /\ [][SelectionNext]_selection

-----------------------------------------------------------------------------
Winner(n) == list_selected_block[n][1]
Pooled(n) == ToSet(stage_list[n])

(* The list rule computes the set rule: whatever the order of arrival, the   *)
(* block a node selects is THE block Select names for the candidates it has. *)
SelectsTheRule ==
    \A n \in Node : step[n] = "selected" => Select(Pooled(n)) = {Winner(n)}

(* Selecting again over a larger pool (a candidate came late, the round was  *)
(* retried) gives the block selected before or one of the late candidates,   *)
(* never one of those already refused.  Two nodes with the same candidates   *)
(* select the same, in whatever orders these have reached them: README, "The *)
(* identical block selection algorithm is applied".                          *)
RefusedStaysRefused ==
    \A m, n \in Node :
        (/\ step[m] = "selected" /\ step[n] = "selected"
         /\ Pooled(m) \subseteq Pooled(n))
            => Winner(n) = Winner(m) \/ Winner(n) \notin Pooled(m)
=============================================================================
