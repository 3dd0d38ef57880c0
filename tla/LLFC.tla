-------------------------------- MODULE LLFC --------------------------------
(* The LLFC consensus of gbrick: the engines (gbrick/consensus/llfc), the    *)
(* candidate and vote pools they own (consensus/base/datapool.py), the local *)
(* chains they share with the BlockChain threads (blockchain/blockchain.py)  *)
(* and the network between the nodes (module/p2p.py).                        *)
(*                                                                           *)
(* An engine is one queue thread (messagequeue.py): it handles every queued  *)
(* message, then runs one pass of the behaviour tree, for ever.  A pass      *)
(* touches only state of the engine, but for the reads of the chain, so it   *)
(* is one action; the PROPOSE pass is cut where it reads the chain again.    *)
(*                                                                           *)
(* A hash is the record of what goes into it.  A candidate hash covers the   *)
(* previous block, the height, the transactions and the creator, NOT the     *)
(* retry count (BlockHeader.pre_candidate_hash).  The hash of a finalised    *)
(* block is named by BlockId; NamesAreUnique says that the name is enough.   *)
EXTENDS Integers, Sequences, FiniteSets

CONSTANTS
    Node,       \* the representative nodes, each an address_coinbase
    NumQuorum,  \* num_quorum (4 in the code)
    Tx,         \* transactions
    TxTime,     \* their timestamps
    HashRank,   \* the byte order of the candidate hashes
    MaxHeight,  \* bound: no engine proposes above this height
    MaxRetry,   \* bound: no engine retries past this count
    PoolFitsEngine,
        \* The engine reads pool_transaction.dict_data and hands hashes to
        \* pool_transaction.remove_data_list.  The DataPool of this commit has
        \* no dict_data and calls get_key() on what it is handed: FALSE.  TRUE
        \* is a pool with the interface the engine is written for.
    Genesis,    \* the hash of the genesis block
    Nothing     \* no block: a None, or the head of an empty list

Heights == 1 .. MaxHeight
Retries == 0 .. MaxRetry

BlockId ==
    [height : Heights, retry : Retries, creator : Node, txs : SUBSET Tx]

\* A candidate hash.
Candidate ==
    [prev : BlockId \cup {Genesis}, height : Heights,
     txs : (SUBSET Tx) \ {{}}, creator : Node]

\* A candidate block, as pooled and broadcast.
Block == [cand : Candidate, retry : Retries]

\* A vote; its height is that of the candidate it names.
Vote == [cand : Candidate, retry : Retries, creator : Node]

\* A finalised block; votes are the creators of its list_vote.
Final == [cand : Candidate, retry : Retries, votes : SUBSET Node]

Id(b) == [height |-> b.cand.height, retry |-> b.retry,
          creator |-> b.cand.creator, txs |-> b.cand.txs]

ASSUME NodeAssumption == IsFiniteSet(Node) /\ Node # {}
ASSUME BoundAssumption ==
    /\ NumQuorum \in Nat \ {0}
    /\ MaxHeight \in Nat \ {0}
    /\ MaxRetry \in Nat
    /\ PoolFitsEngine \in BOOLEAN
ASSUME SentinelAssumption == Genesis \notin BlockId /\ Nothing \notin Block

ASSUME InputAssumption ==
    /\ IsFiniteSet(Tx) /\ TxTime \in [Tx -> Int]
    /\ HashRank \in [Candidate -> Nat]
    /\ \A c, d \in Candidate : HashRank[c] = HashRank[d] => c = d

INSTANCE Selection

VARIABLES
    \* the engine of each node
    engine,           \* its thread: "up", "proposing" (half a pass), "dead"
    stage,
    num_height,
    num_retry_count,
    selected,         \* list_selected_block[0]; Nothing for [] and for [None]
    pool_transaction,
    pool_candidate_block,
    dict_index,       \* of pool_candidate_block: the copies get_data finds
    pool_vote,
    \* the BlockChain of each node
    chain_queue,
    chain_thread,     \* "idle", "publishing" (half of finalize), or the
                      \* ValueError that ended it: "bad_height", "bad_prev"
    blocks,           \* the database and _num_height
    block_last,       \* the hash of _block_last; Nothing before it is cached
    last_read,        \* what get_last_block has read and not yet cached
    \* messages on their way to each node
    net_transaction, net_candidate, net_vote, net_finalize,
    \* history
    cast,             \* every vote ever made
    finals            \* every block ever finalised

engineVars == <<engine, stage, num_height, num_retry_count, selected>>
poolVars == <<pool_transaction, pool_candidate_block, dict_index, pool_vote>>
chainVars == <<chain_thread, blocks, block_last, last_read>>
netVars == <<net_transaction, net_candidate, net_vote, net_finalize>>
history == <<cast, finals>>
vars == <<engineVars, poolVars, chain_queue, chainVars, netVars, history>>

Stages == {"PROPOSE", "COLLECT_CANDIDATE", "COLLECT_VOTE", "WAIT_FOR_FINALIZE"}

TypeOK ==
    /\ engine \in [Node -> {"up", "proposing", "dead"}]
    /\ stage \in [Node -> Stages]
    /\ num_height \in [Node -> 1 .. MaxHeight + 1]
    /\ num_retry_count \in [Node -> Retries]
    /\ selected \in [Node -> Block \cup {Nothing}]
    /\ pool_transaction \in [Node -> SUBSET Tx]
    /\ pool_candidate_block \in [Node -> SUBSET Block]
    /\ dict_index \in [Node -> SUBSET Block]
    /\ pool_vote \in [Node -> SUBSET Vote]
    /\ chain_queue \in [Node -> Seq(Final)]
    /\ chain_thread \in
        [Node -> {"idle", "publishing", "bad_height", "bad_prev"}]
    /\ blocks \in [Node -> Seq(Final)]
    /\ block_last \in [Node -> BlockId \cup {Genesis, Nothing}]
    /\ last_read \in [Node -> BlockId \cup {Genesis, Nothing}]
    /\ net_transaction \in [Node -> SUBSET Tx]
    /\ net_candidate \in [Node -> SUBSET Block]
    /\ net_vote \in [Node -> SUBSET Vote]
    /\ net_finalize \in [Node -> SUBSET Final]
    /\ cast \in SUBSET Vote
    /\ finals \in SUBSET Final

\* Every node starts on the genesis block.  Clients send every transaction to
\* every node; one that never comes, or comes after the 1800 s that
\* DataPool.put_data accepts, is one whose ReceiveTransaction is never taken.
Init ==
    /\ engine = [n \in Node |-> "up"]
    /\ stage = [n \in Node |-> "PROPOSE"]
    /\ num_height = [n \in Node |-> 1]
    /\ num_retry_count = [n \in Node |-> 0]
    /\ selected = [n \in Node |-> Nothing]
    /\ pool_transaction = [n \in Node |-> {}]
    /\ pool_candidate_block = [n \in Node |-> {}]
    /\ dict_index = [n \in Node |-> {}]
    /\ pool_vote = [n \in Node |-> {}]
    /\ chain_queue = [n \in Node |-> <<>>]
    /\ chain_thread = [n \in Node |-> "idle"]
    /\ blocks = [n \in Node |-> <<>>]
    /\ block_last = [n \in Node |-> Nothing]
    /\ last_read = [n \in Node |-> Nothing]
    /\ net_transaction = [n \in Node |-> Tx]
    /\ net_candidate = [n \in Node |-> {}]
    /\ net_vote = [n \in Node |-> {}]
    /\ net_finalize = [n \in Node |-> {}]
    /\ cast = {}
    /\ finals = {}

-----------------------------------------------------------------------------
(* The pools.                                                                *)

\* StagedDataPool.put_data: the wave keeps the block, the index moves to it.
PutCandidate(n, b) ==
    /\ pool_candidate_block' = [pool_candidate_block EXCEPT ![n] = @ \cup {b}]
    /\ dict_index' =
        [dict_index EXCEPT ![n] = {c \in @ : c.cand # b.cand} \cup {b}]

\* StagedDataPool.get_data
GetData(n, c) ==
    IF \E b \in dict_index[n] : b.cand = c
      THEN CHOOSE b \in dict_index[n] : b.cand = c
      ELSE Nothing

\* StagedDataPool.get_stage_list of the engine's wave
StageList(n) ==
    {b.cand : b \in {p \in pool_candidate_block[n] :
                        /\ p.cand.height = num_height[n]
                        /\ p.retry = num_retry_count[n]}}

\* Mutant: the votes of the other waves count too.
VotersOfAnyWave(n, c) ==
    {v.creator : v \in {p \in pool_vote[n] : p.cand = c}}

\* VotePool.get_vote_list of the engine's wave
Voters(n, c) ==
    {v.creator : v \in {p \in pool_vote[n] :
                            p.cand = c /\ p.retry = num_retry_count[n]}}

\* Mutant: the quorum is short of one vote.
HasQuorumShort(n, c) ==
    /\ c.height = num_height[n]
    /\ Cardinality(Voters(n, c)) >= NumQuorum - 1

\* VotePool.get_vote_result and the quorum test of check_select_vote
HasQuorum(n, c) ==
    /\ c.height = num_height[n]
    /\ Cardinality(Voters(n, c)) >= NumQuorum

\* remove_stage_except of both pools
OfWave(S, height, retry) ==
    {m \in S : m.cand.height = height /\ m.retry = retry}

\* Mutant: a node is among its own peers.
BroadcastToAll(net, n, m) == [p \in Node |-> net[p] \cup {m}]

\* sendall: P2P spawns one sender thread per peer, so no order is kept.
Broadcast(net, n, m) ==
    [p \in Node |-> IF p = n THEN net[p] ELSE net[p] \cup {m}]

-----------------------------------------------------------------------------
(* mq_process_queue: the messages a node receives.  A message waits in the   *)
(* network and in the two in-process queues; they are one set, since the     *)
(* network alone already delivers in any order.                              *)

Received(net, n, m) == net' = [net EXCEPT ![n] = @ \ {m}]

ReceiveTransaction(n, t) ==
    /\ engine[n] = "up"
    /\ t \in net_transaction[n]
    /\ Received(net_transaction, n, t)
    /\ pool_transaction' = [pool_transaction EXCEPT ![n] = @ \cup {t}]
    /\ UNCHANGED <<engineVars, pool_candidate_block, dict_index, pool_vote,
                   chain_queue, chainVars, net_candidate, net_vote,
                   net_finalize, history>>

ReceiveCandidate(n, b) ==
    /\ engine[n] = "up"
    /\ b \in net_candidate[n]
    /\ Received(net_candidate, n, b)
    /\ PutCandidate(n, b)
    /\ UNCHANGED <<engineVars, pool_transaction, pool_vote, chain_queue,
                   chainVars, net_transaction, net_vote, net_finalize, history>>

ReceiveVote(n, v) ==
    /\ engine[n] = "up"
    /\ v \in net_vote[n]
    /\ Received(net_vote, n, v)
    /\ pool_vote' = [pool_vote EXCEPT ![n] = @ \cup {v}]
    /\ UNCHANGED <<engineVars, pool_transaction, pool_candidate_block,
                   dict_index, chain_queue, chainVars, net_transaction,
                   net_candidate, net_finalize, history>>

\* Mutant: the block is not handed on.
ReceiveFinalizeLost(n, f) ==
    /\ engine[n] = "up"
    /\ f \in net_finalize[n]
    /\ Received(net_finalize, n, f)
    /\ UNCHANGED <<engineVars, poolVars, chain_queue, chainVars,
                   net_transaction, net_candidate, net_vote, history>>

\* The engine hands the block to the BlockChain unseen.
ReceiveFinalize(n, f) ==
    /\ engine[n] = "up"
    /\ f \in net_finalize[n]
    /\ Received(net_finalize, n, f)
    /\ chain_queue' = [chain_queue EXCEPT ![n] = Append(@, f)]
    /\ UNCHANGED <<engineVars, poolVars, chainVars, net_transaction,
                   net_candidate, net_vote, history>>

-----------------------------------------------------------------------------
(* mq_process_synced: one pass of the behaviour tree.                        *)

\* check_diff_height: the chain has grown past the engine.
DiffHeight(n) == num_height[n] < Len(blocks[n]) + 1

\* A pass that goes on to the stage s.
InStage(n, s) ==
    /\ engine[n] = "up"
    /\ ~DiffHeight(n)
    /\ stage[n] = s

\* An exception leaves the queue thread.
EngineDies(n) ==
    /\ engine' = [engine EXCEPT ![n] = "dead"]
    /\ UNCHANGED <<stage, pool_transaction, chain_queue, chainVars, netVars,
                   history>>

\* new_round_tree: increase_height, clear_pool, update_stage.  clear_pool ends
\* in an exception when no block is selected, after it has cleared two pools.
\* num_retry_count is not reset.
NewRound(n) ==
    LET height == num_height[n] + 1
        Keep(S) == OfWave(S, height, num_retry_count[n])
        cleared == selected[n] # Nothing /\ PoolFitsEngine
    IN  /\ engine[n] = "up"
        /\ DiffHeight(n)
        /\ num_height' = [num_height EXCEPT ![n] = height]
        /\ pool_candidate_block' = [pool_candidate_block EXCEPT ![n] = Keep(@)]
        /\ dict_index' =
            [dict_index EXCEPT ![n] = Keep(pool_candidate_block[n])]
        /\ pool_vote' = [pool_vote EXCEPT ![n] = Keep(@)]
        /\ UNCHANGED num_retry_count
        /\ \/ /\ cleared
              /\ pool_transaction' =
                    [pool_transaction EXCEPT ![n] = @ \ selected[n].cand.txs]
              /\ selected' = [selected EXCEPT ![n] = Nothing]
              /\ stage' = [stage EXCEPT ![n] = "PROPOSE"]
              /\ UNCHANGED <<engine, chain_queue, chainVars, netVars, history>>
           \/ ~cleared /\ EngineDies(n) /\ UNCHANGED selected

\* Mutant: an engine proposes without a transaction.
BeginProposeEmpty(n) ==
    /\ InStage(n, "PROPOSE")
    /\ num_height[n] <= MaxHeight
    /\ engine' = [engine EXCEPT ![n] = "proposing"]
    /\ UNCHANGED <<stage, num_height, num_retry_count, selected, poolVars,
                   chain_queue, chainVars, netVars, history>>

\* propose_block_tree as far as the call of get_last_block: the chain may grow
\* between check_diff_height and that call.  check_exist_transaction is an
\* AttributeError on a pool without dict_data.
BeginPropose(n) ==
    /\ InStage(n, "PROPOSE")
    /\ num_height[n] <= MaxHeight
    /\ PoolFitsEngine => pool_transaction[n] # {}
    /\ engine' = [engine EXCEPT ![n] =
                      IF PoolFitsEngine THEN "proposing" ELSE "dead"]
    /\ UNCHANGED <<stage, num_height, num_retry_count, selected, poolVars,
                   chain_queue, chainVars, netVars, history>>

LastId(chain) == IF chain = <<>> THEN Genesis ELSE Id(chain[Len(chain)])

\* BlockChain.get_last_block on the engine's thread: no block is cached yet, so
\* it reads the database.  The chain may grow before it caches what it read.
ReadLast(n) ==
    /\ engine[n] = "proposing"
    /\ block_last[n] = Nothing
    /\ last_read[n] = Nothing
    /\ last_read' = [last_read EXCEPT ![n] = LastId(blocks[n])]
    /\ UNCHANGED <<engineVars, poolVars, chain_queue, chain_thread, blocks,
                   block_last, netVars, history>>

\* What get_last_block caches and returns
GetLastBlock(n) ==
    IF last_read[n] = Nothing THEN block_last[n] ELSE last_read[n]

\* _generate_candidate
GenerateCandidate(n) ==
    [cand |-> [prev |-> GetLastBlock(n), height |-> num_height[n],
               txs |-> pool_transaction[n], creator |-> n],
     retry |-> num_retry_count[n]]

\* create_candidate_block and update_stage
CreateCandidate(n) ==
    LET b == GenerateCandidate(n)
    IN  /\ engine[n] = "proposing"
        /\ GetLastBlock(n) # Nothing
        /\ engine' = [engine EXCEPT ![n] = "up"]
        /\ block_last' = [block_last EXCEPT ![n] = GetLastBlock(n)]
        /\ last_read' = [last_read EXCEPT ![n] = Nothing]
        /\ PutCandidate(n, b)
        /\ net_candidate' = Broadcast(net_candidate, n, b)
        /\ stage' = [stage EXCEPT ![n] = "COLLECT_CANDIDATE"]
        /\ UNCHANGED <<num_height, num_retry_count, selected, pool_transaction,
                       pool_vote, chain_queue, chain_thread, blocks,
                       net_transaction, net_vote, net_finalize, history>>

\* The vote that create_vote makes
CreateVote(n, c) == [cand |-> c, retry |-> num_retry_count[n], creator |-> n]

\* Mutant: the stage is not updated, so the engine votes again.
SelectAndVoteAgain(n) ==
    /\ InStage(n, "COLLECT_CANDIDATE")
    /\ \E c \in Select(StageList(n)) :
        LET v == CreateVote(n, c)
        IN  /\ selected' = [selected EXCEPT ![n] =
                                [cand |-> c, retry |-> num_retry_count[n]]]
            /\ pool_vote' = [pool_vote EXCEPT ![n] = @ \cup {v}]
            /\ net_vote' = Broadcast(net_vote, n, v)
            /\ cast' = cast \cup {v}
    /\ \/ stage' = [stage EXCEPT ![n] = "COLLECT_VOTE"]
       \/ UNCHANGED stage
    /\ UNCHANGED <<engine, num_height, num_retry_count, pool_transaction,
                   pool_candidate_block, dict_index, chain_queue, chainVars,
                   net_transaction, net_candidate, net_finalize, finals>>

\* select_tree once the wait is over: select, create_vote, update_stage
SelectAndVote(n) ==
    /\ InStage(n, "COLLECT_CANDIDATE")
    /\ \E c \in Select(StageList(n)) :
        LET v == CreateVote(n, c)
        IN  /\ selected' = [selected EXCEPT ![n] =
                                [cand |-> c, retry |-> num_retry_count[n]]]
            /\ pool_vote' = [pool_vote EXCEPT ![n] = @ \cup {v}]
            /\ net_vote' = Broadcast(net_vote, n, v)
            /\ cast' = cast \cup {v}
    /\ stage' = [stage EXCEPT ![n] = "COLLECT_VOTE"]
    /\ UNCHANGED <<engine, num_height, num_retry_count, pool_transaction,
                   pool_candidate_block, dict_index, chain_queue, chainVars,
                   net_transaction, net_candidate, net_finalize, finals>>

\* check_select_vote: the engine takes over the block that has a quorum.
Elected(n, c) ==
    IF selected[n].cand = c THEN selected[n] ELSE GetData(n, c)

\* _generate_finalize
GenerateFinalize(n, c) ==
    [cand |-> c, retry |-> Elected(n, c).retry, votes |-> Voters(n, c)]

\* Mutant: the stage is not updated, so the engine finalises again.
FinalizeOwnAgain(n) ==
    /\ InStage(n, "COLLECT_VOTE")
    /\ \E c \in {v.cand : v \in pool_vote[n]} :
        LET f == GenerateFinalize(n, c)
        IN  /\ HasQuorum(n, c)
            /\ Elected(n, c) # Nothing
            /\ c.creator = n
            /\ f \notin finals
            /\ selected' = [selected EXCEPT ![n] = Elected(n, c)]
            /\ net_finalize' = Broadcast(net_finalize, n, f)
            /\ chain_queue' = [chain_queue EXCEPT ![n] = Append(@, f)]
            /\ finals' = finals \cup {f}
    /\ UNCHANGED <<engine, stage, num_height, num_retry_count, poolVars,
                   chainVars, net_transaction, net_candidate, net_vote, cast>>

\* collect_vote_tree on a quorum for a block of this node:
\* create_finalize_block, update_stage
FinalizeOwn(n) ==
    /\ InStage(n, "COLLECT_VOTE")
    /\ \E c \in {v.cand : v \in pool_vote[n]} :
        LET f == GenerateFinalize(n, c)
        IN  /\ HasQuorum(n, c)
            /\ Elected(n, c) # Nothing
            /\ c.creator = n
            /\ selected' = [selected EXCEPT ![n] = Elected(n, c)]
            /\ net_finalize' = Broadcast(net_finalize, n, f)
            /\ chain_queue' = [chain_queue EXCEPT ![n] = Append(@, f)]
            /\ finals' = finals \cup {f}
    /\ stage' = [stage EXCEPT ![n] = "WAIT_FOR_FINALIZE"]
    /\ UNCHANGED <<engine, num_height, num_retry_count, poolVars, chainVars,
                   net_transaction, net_candidate, net_vote, cast>>

\* Mutant: the two subtrees are in the other order, so a creator may wait for
\* its own block.
AwaitFinalizeFirst(n) ==
    /\ InStage(n, "COLLECT_VOTE")
    /\ \E c \in {v.cand : v \in pool_vote[n]} :
        /\ HasQuorum(n, c)
        /\ Elected(n, c) # Nothing
        /\ selected' = [selected EXCEPT ![n] = Elected(n, c)]
    /\ stage' = [stage EXCEPT ![n] = "WAIT_FOR_FINALIZE"]
    /\ UNCHANGED <<engine, num_height, num_retry_count, poolVars, chain_queue,
                   chainVars, netVars, history>>

\* The same for a block of another node.
AwaitFinalize(n) ==
    /\ InStage(n, "COLLECT_VOTE")
    /\ \E c \in {v.cand : v \in pool_vote[n]} :
        /\ HasQuorum(n, c)
        /\ Elected(n, c) # Nothing
        /\ c.creator # n
        /\ selected' = [selected EXCEPT ![n] = Elected(n, c)]
    /\ stage' = [stage EXCEPT ![n] = "WAIT_FOR_FINALIZE"]
    /\ UNCHANGED <<engine, num_height, num_retry_count, poolVars, chain_queue,
                   chainVars, netVars, history>>

\* The same for a block this node has not received: check_block_creator reads
\* the header of None.
ElectUnknown(n) ==
    /\ InStage(n, "COLLECT_VOTE")
    /\ \E c \in {v.cand : v \in pool_vote[n]} :
        HasQuorum(n, c) /\ Elected(n, c) = Nothing
    /\ selected' = [selected EXCEPT ![n] = Nothing]
    /\ EngineDies(n)
    /\ UNCHANGED <<num_height, num_retry_count, pool_candidate_block,
                   dict_index, pool_vote>>

\* Mutant: the retry count is not advanced.
RetryRoundSameWave(n) ==
    /\ InStage(n, "COLLECT_VOTE")
    /\ \A v \in pool_vote[n] : ~HasQuorum(n, v.cand)
    /\ num_retry_count[n] < MaxRetry
    /\ stage' = [stage EXCEPT ![n] = "PROPOSE"]
    /\ UNCHANGED <<engine, num_height, num_retry_count, selected, poolVars,
                   chain_queue, chainVars, netVars, history>>

\* Mutant: a retry empties list_selected_block.
RetryRoundUnselects(n) ==
    /\ InStage(n, "COLLECT_VOTE")
    /\ \A v \in pool_vote[n] : ~HasQuorum(n, v.cand)
    /\ num_retry_count[n] < MaxRetry
    /\ num_retry_count' = [num_retry_count EXCEPT ![n] = @ + 1]
    /\ selected' = [selected EXCEPT ![n] = Nothing]
    /\ stage' = [stage EXCEPT ![n] = "PROPOSE"]
    /\ UNCHANGED <<engine, num_height, poolVars, chain_queue, chainVars,
                   netVars, history>>

\* collect_vote_tree when the wait is over and no block has a quorum
RetryRound(n) ==
    /\ InStage(n, "COLLECT_VOTE")
    /\ \A v \in pool_vote[n] : ~HasQuorum(n, v.cand)
    /\ num_retry_count[n] < MaxRetry
    /\ num_retry_count' = [num_retry_count EXCEPT ![n] = @ + 1]
    /\ stage' = [stage EXCEPT ![n] = "PROPOSE"]
    /\ UNCHANGED <<engine, num_height, selected, poolVars, chain_queue,
                   chainVars, netVars, history>>

-----------------------------------------------------------------------------
(* BlockChain.finalize, on its own queue thread.  The engine can run between *)
(* the assignments to _num_height and to _block_last.  The third check of    *)
(* finalize, that the block hashes to its hash_block, always succeeds here:  *)
(* both are made of the same fields.  The push to the Wagon touches nothing  *)
(* an engine or a chain reads.                                               *)

FinalizeBlock(n) ==
    LET f == Head(chain_queue[n])
    IN  /\ chain_thread[n] = "idle"
        /\ chain_queue[n] # <<>>
        /\ chain_queue' = [chain_queue EXCEPT ![n] = Tail(@)]
        /\ \/ /\ f.cand.height # Len(blocks[n]) + 1
              /\ chain_thread' = [chain_thread EXCEPT ![n] = "bad_height"]
              /\ UNCHANGED blocks
           \/ /\ f.cand.height = Len(blocks[n]) + 1
              /\ f.cand.prev # LastId(blocks[n])
              /\ chain_thread' = [chain_thread EXCEPT ![n] = "bad_prev"]
              /\ UNCHANGED blocks
           \/ /\ f.cand.height = Len(blocks[n]) + 1
              /\ f.cand.prev = LastId(blocks[n])
              /\ chain_thread' = [chain_thread EXCEPT ![n] = "publishing"]
              /\ blocks' = [blocks EXCEPT ![n] = Append(@, f)]
        /\ UNCHANGED <<engineVars, poolVars, block_last, last_read, netVars,
                       history>>

PublishLast(n) ==
    /\ chain_thread[n] = "publishing"
    /\ chain_thread' = [chain_thread EXCEPT ![n] = "idle"]
    /\ block_last' = [block_last EXCEPT ![n] = LastId(blocks[n])]
    /\ UNCHANGED <<engineVars, poolVars, chain_queue, blocks, last_read,
                   netVars, history>>

-----------------------------------------------------------------------------
ReceiveMessage(n) ==
    \/ \E b \in net_candidate[n] : ReceiveCandidate(n, b)
    \/ \E v \in net_vote[n] : ReceiveVote(n, v)
    \/ \E f \in net_finalize[n] : ReceiveFinalize(n, f)

Pass(n) ==
    \/ NewRound(n)
    \/ BeginPropose(n)
    \/ ReadLast(n)
    \/ CreateCandidate(n)
    \/ SelectAndVote(n)
    \/ FinalizeOwn(n)
    \/ AwaitFinalize(n)
    \/ ElectUnknown(n)
    \/ RetryRound(n)

Chain(n) == FinalizeBlock(n) \/ PublishLast(n)

Next ==
    \E n \in Node :
        \/ \E t \in net_transaction[n] : ReceiveTransaction(n, t)
        \/ ReceiveMessage(n)
        \/ Pass(n)
        \/ Chain(n)

Spec == Init /\ [][Next]_vars

\* The two queue threads of a node never stop running, a wait of the behaviour
\* tree ends with the clock, and what one node sends another is delivered.
\* Nothing is assumed of the clients.
Fairness ==
    \A n \in Node :
        WF_vars(ReceiveMessage(n)) /\ WF_vars(Pass(n)) /\ WF_vars(Chain(n))

FairSpec == Spec /\ Fairness

-----------------------------------------------------------------------------
(* Safety.                                                                   *)

\* The votes of a wave for a candidate, over all nodes.
Supporters(c, retry) ==
    {v.creator : v \in {w \in cast : w.cand = c /\ w.retry = retry}}

Certificate(c, retry) == Cardinality(Supporters(c, retry)) >= NumQuorum

(* A node never votes twice in a wave (create_vote), although it selects     *)
(* again after every retry and every new round.                              *)
VoteOncePerWave ==
    \A v, w \in cast :
        (/\ v.creator = w.creator /\ v.retry = w.retry
         /\ v.cand.height = w.cand.height) => v = w

(* Two candidates never both win the same wave (check_select_vote), when two *)
(* quorums share a node.                                                     *)
OneCertificatePerWave ==
    \A v, w \in cast :
        (/\ v.cand.height = w.cand.height /\ v.retry = w.retry
         /\ Certificate(v.cand, v.retry) /\ Certificate(w.cand, w.retry))
            => v.cand = w.cand

(* A finalised block carries a quorum of votes, each of which its voter made *)
(* for this candidate in the wave the block names, although the candidate    *)
(* comes again in every retry, with its old votes in the pool, and the copy  *)
(* that create_finalize_block completes may be found by the hash, which does *)
(* not cover the retry count.                                                *)
Certified ==
    \A f \in finals :
        /\ Cardinality(f.votes) >= NumQuorum
        /\ f.votes \subseteq Supporters(f.cand, f.retry)

(* The fields of BlockId name a finalised block: a creator never finalises   *)
(* one candidate of one wave twice, with other votes or on another block.    *)
NamesAreUnique == \A f, g \in finals : Id(f) = Id(g) => f = g

(* When the quorum is all the nodes, at most one block is finalised per      *)
(* height, over all retries: "irreversible block" (create_finalize_block).   *)
OneFinalPerHeight ==
    \A f, g \in finals : f.cand.height = g.cand.height => f = g

(* When the quorum is all the nodes, no exception ends an engine: it knows   *)
(* every block it elects, and has one selected whenever its chain grows.     *)
EngineSurvives == \A n \in Node : engine[n] # "dead"

(* When the quorum is all the nodes, no finalised block reaches a BlockChain *)
(* before its predecessor or a second time, in whatever order the sender     *)
(* threads deliver them ("Blockchain height is ..", finalize).               *)
HeightsInOrder == \A n \in Node : chain_thread[n] # "bad_height"

(* When the quorum is all the nodes, no node is left behind by more than the *)
(* block now being finalised: no second block is finalised on top of one     *)
(* that some node does not have yet.                                         *)
Lockstep ==
    \A m, n \in Node : Len(blocks[m]) <= Len(blocks[n]) + 1

(* clear_pool drops the transactions of the block the engine has selected.   *)
(* That is the block its chain got, unless the engine timed out on the wave  *)
(* in which that block was certified, and went on to a later one.            *)
ClearsTheFinalized ==
    \A n \in Node :
        (engine[n] = "up" /\ DiffHeight(n)) =>
            LET f == blocks[n][num_height[n]]
            IN  \/ selected[n].cand = f.cand
                \/ num_retry_count[n] > f.retry

HeightOf(f) == f.cand.height

C == INSTANCE Consensus
         WITH decided <- finals, chain <- blocks, Height <- HeightOf

(* When the quorum is all the nodes, the engines, pools, queues and messages *)
(* implement Consensus.                                                      *)
ImplementsConsensus == C!Spec

(* One chain is always a prefix of the other.                                *)
Agreement == C!Agreement

-----------------------------------------------------------------------------
(* Liveness.                                                                 *)

\* Some wave has votes for two candidates, which no node can then finalise
\* when the quorum is all the nodes.
SplitVote == \E v, w \in cast : v.cand # w.cand

Retried == \E n \in Node : num_retry_count[n] > 0

(* Once every node has a transaction to propose, a block is finalised,       *)
(* unless the votes split or a vote comes after somebody's timeout.          *)
RoundDecides ==
    (\A n \in Node : pool_transaction[n] # {})
        ~> (finals # {} \/ SplitVote \/ Retried)

(* A finalised block reaches every chain, and every engine moves on to the   *)
(* next height, unless a block with a stale prev_hash has ended the chain    *)
(* thread of the node.                                                       *)
FinalReachesAll ==
    \A h \in Heights :
        (\E f \in finals : f.cand.height = h) ~>
            \A n \in Node : num_height[n] > h \/ chain_thread[n] = "bad_prev"

-----------------------------------------------------------------------------
(* What the documents and comments of the repository say, and the code of    *)
(* this commit does not do.                                                  *)

(* README: an agreement node creates a block from the transactions it got,   *)
(* and broadcasts it.                                                        *)
PendingIsProposed ==
    \A n \in Node :
        (pool_transaction[n] # {}) ~> (stage[n] # "PROPOSE")

(* LLFCTerm gives WAIT_FOR_FINALIZE a term, and the tree waits for it: the   *)
(* stage ends, with the block or without.                                    *)
WaitEnds ==
    \A n \in Node :
        (stage[n] = "WAIT_FOR_FINALIZE") ~> (stage[n] # "WAIT_FOR_FINALIZE")

(* README: a block signed by the quorum is applied to the chain.             *)
SignedIsApplied == \A n \in Node : chain_thread[n] # "bad_prev"

=============================================================================
