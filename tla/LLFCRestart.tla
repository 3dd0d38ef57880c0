----------------------------- MODULE LLFCRestart -----------------------------
(* LLFC with nodes that crash and start again.  LLFCEngine.__init__ takes the *)
(* height from the database of the BlockChain and nothing else from anywhere: *)
(* the votes, the retry count, the pools and the queues of the node are gone. *)
(* A node that is down is one that takes no step before it restarts.          *)
EXTENDS LLFC

CONSTANT MaxCrash  \* bound

VARIABLE crashes

Sent(net) == UNION {net[p] : p \in Node}

\* Messages the process of n may take along: those for it that wait in its
\* queues or find it down, and its own that no sender thread has sent yet.
InProcess(net, n, own) ==
    {pm \in Node \X Sent(net) :
        pm[2] \in net[pm[1]] /\ (pm[1] = n \/ pm[2] \in own)}

Loses(net, lost) == net' = [p \in Node |-> {m \in net[p] : <<p, m>> \notin lost}]

OwnBlocks(net, n) == {b \in Sent(net) : b.cand.creator = n}
OwnVotes(net, n) == {v \in Sent(net) : v.creator = n}

Restart(n) ==
    /\ crashes < MaxCrash
    /\ crashes' = crashes + 1
    /\ engine' = [engine EXCEPT ![n] = "up"]
    /\ stage' = [stage EXCEPT ![n] = "PROPOSE"]
    /\ num_height' = [num_height EXCEPT ![n] = Len(blocks[n]) + 1]
    /\ num_retry_count' = [num_retry_count EXCEPT ![n] = 0]
    /\ selected' = [selected EXCEPT ![n] = Nothing]
    /\ pool_transaction' = [pool_transaction EXCEPT ![n] = {}]
    /\ pool_candidate_block' = [pool_candidate_block EXCEPT ![n] = {}]
    /\ dict_index' = [dict_index EXCEPT ![n] = {}]
    /\ pool_vote' = [pool_vote EXCEPT ![n] = {}]
    /\ chain_queue' = [chain_queue EXCEPT ![n] = <<>>]
    /\ chain_thread' = [chain_thread EXCEPT ![n] = "idle"]
    /\ block_last' = [block_last EXCEPT ![n] = Nothing]
    /\ last_read' = [last_read EXCEPT ![n] = Nothing]
    /\ \E lost \in SUBSET InProcess(net_transaction, n, {}) :
           Loses(net_transaction, lost)
    /\ \E lost \in SUBSET InProcess(net_candidate, n, OwnBlocks(net_candidate, n)) :
           Loses(net_candidate, lost)
    /\ \E lost \in SUBSET InProcess(net_vote, n, OwnVotes(net_vote, n)) :
           Loses(net_vote, lost)
    /\ \E lost \in SUBSET InProcess(net_finalize, n, OwnBlocks(net_finalize, n)) :
           Loses(net_finalize, lost)
    /\ UNCHANGED <<blocks, history>>

RestartInit == Init /\ crashes = 0

RestartNext == (Next /\ UNCHANGED crashes) \/ \E n \in Node : Restart(n)

RestartSpec == RestartInit /\ [][RestartNext]_<<vars, crashes>>
=============================================================================
