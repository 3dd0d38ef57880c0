----------------------------- MODULE MCLLFCFork -----------------------------
(* One schedule out of many, for the run that looks for a fork: the nodes    *)
(* move in the order of their numbers, the votes of a wave reach only the    *)
(* node that can finalise in it, and its candidate is the only one the       *)
(* others hear of in time.                                                   *)
EXTENDS MCLLFC

FirstHash(S) ==
    CHOOSE n \in S : \A m \in S :
        LET Hash(p) == HashRank[[prev |-> Genesis, height |-> 1,
                                 txs |-> Tx, creator |-> p]]
        IN  Hash(n) >= Hash(m)
FirstProposer == FirstHash(Node)
SecondProposer == FirstHash(Node \ {FirstProposer})
Proposer(retry) == IF retry = 0 THEN FirstProposer ELSE SecondProposer

Waiting(n) == stage[n] = "WAIT_FOR_FINALIZE"
Progress(n) ==
    4 * num_retry_count[n] +
        CASE stage[n] \in {"COLLECT_VOTE", "WAIT_FOR_FINALIZE"} -> 3
          [] stage[n] = "COLLECT_CANDIDATE" -> 2
          [] OTHER -> IF engine[n] = "up" THEN 0 ELSE 1

Heard(n) == {b.retry : b \in {c \in pool_candidate_block[n] :
                                  c.cand.creator = Proposer(c.retry)}}

ForkSchedule ==
    /\ TransactionsFirst
    /\ \A v \in cast : v.cand.creator = Proposer(v.retry)
    /\ \A m, n \in Node : m < n =>
           /\ Waiting(m) \/ Progress(m) >= Progress(n)
           /\ net_transaction[m] # {} => net_transaction[n] # {}
           /\ \A r \in Heard(n) :
                  m = Proposer(0) \/ n = Proposer(r) \/ r \in Heard(m)
    /\ \A n \in Node :
           /\ \A b \in pool_candidate_block[n] :
                  b.cand.creator \in {n, Proposer(b.retry)}
           /\ \A v \in pool_vote[n] :
                  v.creator = n \/ n = Proposer(v.retry)
           /\ chain_queue[n] # <<>> => Waiting(n)
           /\ blocks[n] = <<>>
=============================================================================
