------------------------------- MODULE MCLLFC -------------------------------
(* Nodes and transactions are numbers here, so that a candidate can be given *)
(* a hash: its fields in mixed radix, scattered by a multiplication modulo a *)
(* prime greater than any of them, which keeps the hashes distinct.          *)
EXTENDS LLFC, TLC

MCOneTx == {1}
MCTwoTx == {1, 2}
MCTxTime == [t \in Tx |-> t]

Radix == 6
TxCode(S) == (IF 1 \in S THEN 1 ELSE 0) + (IF 2 \in S THEN 2 ELSE 0)
PrevCode(p) ==
    IF p = Genesis THEN 0
      ELSE 1 + p.retry + 2 * (p.height + 3 * (TxCode(p.txs) + 4 * p.creator))
MCHashRank ==
    [c \in Candidate |->
        (c.creator + Radix * (TxCode(c.txs)
            + Radix * (c.height + Radix * PrevCode(c.prev)))) * 12347 % 99991]

\* Bound: at most one node runs into a timeout.
OneRetries ==
    \A m, n \in Node : num_retry_count[m] > 0 /\ num_retry_count[n] > 0 => m = n

\* Bound: no transaction reaches a node once somebody has voted.
TransactionsEarly ==
    cast # {} => \A n \in Node : net_transaction[n] = {}

\* Bound: the transactions reach every node before anyone proposes.
TransactionsFirst ==
    (\E n \in Node : engine[n] = "proposing" \/ stage[n] # "PROPOSE")
        => \A n \in Node : net_transaction[n] = {}

\* Bound: few candidates and votes are on their way, over all nodes.
InFlight(net) == Cardinality(UNION {{<<n, m>> : m \in net[n]} : n \in Node})
FewInFlight == InFlight(net_candidate) <= 2 /\ InFlight(net_vote) <= 3
=============================================================================
