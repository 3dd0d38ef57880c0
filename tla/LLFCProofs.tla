----------------------------- MODULE LLFCProofs -----------------------------
(* Proofs about LLFC, for every set of nodes and transactions, every order   *)
(* of the hashes and every bound.                                            *)
EXTENDS LLFC, FiniteSetTheorems, TLAPS

-----------------------------------------------------------------------------
(* Types.                                                                    *)

\* A pass that is about to create a candidate has a height and transactions
\* for it, and the chain is no longer than the heights of the blocks.
ProposingInv ==
    \A n \in Node :
        engine[n] = "proposing" =>
            /\ num_height[n] <= MaxHeight
            /\ pool_transaction[n] # {}
            /\ stage[n] = "PROPOSE"

ChainBound == \A n \in Node : Len(blocks[n]) <= MaxHeight

TypeInv == TypeOK /\ ProposingInv /\ ChainBound

\* The name of a block or of a finalised block.
LEMMA IdType ==
    /\ \A b \in Block : Id(b) \in BlockId
    /\ \A f \in Final : Id(f) \in BlockId
BY DEF Block, Final, Candidate, BlockId, Id

\* The last block of a chain is one of its blocks, or the genesis block.
LEMMA LastIdType ==
    \A chain \in Seq(Final) : LastId(chain) \in BlockId \cup {Genesis}
<1> SUFFICES ASSUME NEW chain \in Seq(Final), chain # <<>>
             PROVE  Id(chain[Len(chain)]) \in BlockId
    BY DEF LastId
<1>1. Len(chain) \in 1 .. Len(chain)
    OBVIOUS
<1> QED BY <1>1, IdType

\* What a pool holds stays a set of blocks, and get_data returns one of them.
LEMMA GetDataType ==
    ASSUME TypeOK, NEW n \in Node, NEW c
    PROVE  GetData(n, c) \in Block \cup {Nothing}
BY DEF GetData, TypeOK

LEMMA ElectedType ==
    ASSUME TypeOK, NEW n \in Node, NEW c
    PROVE  Elected(n, c) \in Block \cup {Nothing}
BY GetDataType DEF Elected, TypeOK

LEMMA VotersType ==
    ASSUME TypeOK, NEW n \in Node, NEW c
    PROVE  Voters(n, c) \subseteq Node
BY DEF Voters, TypeOK, Vote

\* The selection rule only ever returns candidates of the wave.
LEMMA SelectType == \A S : Select(S) \subseteq S
BY DEF Select, MaximumTx, OldestTx, ConflictTolerance

LEMMA StageListType ==
    ASSUME TypeOK, NEW n \in Node
    PROVE  \A c \in StageList(n) : c \in Candidate /\ c.height = num_height[n]
BY DEF StageList, TypeOK, Block

LEMMA BroadcastType ==
    ASSUME NEW S, NEW net \in [Node -> SUBSET S], NEW n \in Node, NEW m \in S
    PROVE  Broadcast(net, n, m) \in [Node -> SUBSET S]
BY DEF Broadcast

LEMMA TypeInit == Init => TypeInv
<1> SUFFICES ASSUME Init PROVE TypeInv
    OBVIOUS
<1>1. TypeOK
    BY BoundAssumption DEF Init, TypeOK, Stages, Retries
<1>2. ProposingInv /\ ChainBound
    BY BoundAssumption DEF Init, ProposingInv, ChainBound
<1> QED BY <1>1, <1>2 DEF TypeInv

LEMMA TypeStep == TypeInv /\ [Next]_vars => TypeInv'
<1> SUFFICES ASSUME TypeInv, [Next]_vars PROVE TypeInv'
    OBVIOUS
<1> USE DEF TypeInv, history, netVars, chainVars, poolVars, engineVars
<1>1. ASSUME NEW n \in Node, NEW t \in net_transaction[n],
             ReceiveTransaction(n, t)
      PROVE  TypeInv'
    BY <1>1 DEF ReceiveTransaction, Received, TypeOK, ProposingInv, ChainBound
<1>2. ASSUME NEW n \in Node, NEW b \in net_candidate[n], ReceiveCandidate(n, b)
      PROVE  TypeInv'
    BY <1>2 DEF ReceiveCandidate, Received, PutCandidate, TypeOK,
                ProposingInv, ChainBound
<1>3. ASSUME NEW n \in Node, NEW v \in net_vote[n], ReceiveVote(n, v)
      PROVE  TypeInv'
    BY <1>3 DEF ReceiveVote, Received, TypeOK, ProposingInv, ChainBound
<1>4. ASSUME NEW n \in Node, NEW f \in net_finalize[n], ReceiveFinalize(n, f)
      PROVE  TypeInv'
    BY <1>4 DEF ReceiveFinalize, Received, TypeOK, ProposingInv, ChainBound
<1>5. ASSUME NEW n \in Node, NewRound(n) PROVE TypeInv'
  <2> USE <1>5 DEF NewRound, EngineDies, TypeOK
  <2>1. num_height[n] + 1 \in 1 .. MaxHeight + 1
    BY BoundAssumption DEF DiffHeight, ChainBound
  <2>2. num_height' \in [Node -> 1 .. MaxHeight + 1]
    BY <2>1
  <2>3. /\ pool_candidate_block' \in [Node -> SUBSET Block]
        /\ dict_index' \in [Node -> SUBSET Block]
        /\ pool_vote' \in [Node -> SUBSET Vote]
    BY DEF OfWave
  <2>4. /\ engine' \in [Node -> {"up", "proposing", "dead"}]
        /\ stage' \in [Node -> Stages]
        /\ selected' \in [Node -> Block \cup {Nothing}]
        /\ pool_transaction' \in [Node -> SUBSET Tx]
        /\ UNCHANGED <<num_retry_count, chain_queue, chainVars, netVars, history>>
    <3>1. CASE selected[n] # Nothing /\ PoolFitsEngine
      <4>1. /\ pool_transaction' =
                  [pool_transaction EXCEPT ![n] = @ \ selected[n].cand.txs]
            /\ selected' = [selected EXCEPT ![n] = Nothing]
            /\ stage' = [stage EXCEPT ![n] = "PROPOSE"]
            /\ UNCHANGED <<num_retry_count, engine, chain_queue, chainVars,
                           netVars, history>>
        BY <3>1
      <4> QED BY <4>1 DEF Stages
    <3>2. CASE ~(selected[n] # Nothing /\ PoolFitsEngine)
      BY <3>2
    <3> QED BY <3>1, <3>2
  <2>5. TypeOK'
    BY <2>2, <2>3, <2>4 DEF TypeOK
  <2>6. ProposingInv' /\ ChainBound'
    BY DEF ProposingInv, ChainBound
  <2> QED BY <2>5, <2>6
<1>6. ASSUME NEW n \in Node, BeginPropose(n) PROVE TypeInv'
    BY <1>6 DEF BeginPropose, InStage, EngineDies, TypeOK, ProposingInv,
                ChainBound
<1>r. ASSUME NEW n \in Node, ReadLast(n) PROVE TypeInv'
    BY <1>r, LastIdType DEF ReadLast, TypeOK, ProposingInv, ChainBound
<1>7. ASSUME NEW n \in Node, CreateCandidate(n) PROVE TypeInv'
  <2>1. GetLastBlock(n) \in BlockId \cup {Genesis}
    BY <1>7 DEF CreateCandidate, TypeOK, GetLastBlock
  <2>2. num_height[n] \in Heights /\ pool_transaction[n] \in (SUBSET Tx) \ {{}}
    BY <1>7 DEF CreateCandidate, ProposingInv, TypeOK, Heights
  <2> DEFINE b == GenerateCandidate(n)
  <2>3. b \in Block
    BY <2>1, <2>2 DEF GenerateCandidate, Block, Candidate, TypeOK
  <2> HIDE DEF b
  <2>4. /\ engine' = [engine EXCEPT ![n] = "up"]
        /\ block_last' = [block_last EXCEPT ![n] = GetLastBlock(n)]
        /\ last_read' = [last_read EXCEPT ![n] = Nothing]
        /\ PutCandidate(n, b)
        /\ net_candidate' = Broadcast(net_candidate, n, b)
        /\ stage' = [stage EXCEPT ![n] = "COLLECT_CANDIDATE"]
        /\ UNCHANGED <<num_height, num_retry_count, selected, pool_transaction,
                       pool_vote, chain_queue, chain_thread, blocks,
                       net_transaction, net_vote, net_finalize, history>>
    BY <1>7 DEF CreateCandidate, b
  <2>5. net_candidate' \in [Node -> SUBSET Block]
    BY <2>3, <2>4, BroadcastType DEF TypeOK
  <2>6. /\ pool_candidate_block' \in [Node -> SUBSET Block]
        /\ dict_index' \in [Node -> SUBSET Block]
    BY <2>3, <2>4 DEF TypeOK, PutCandidate
  <2>7. TypeOK'
    BY <2>1, <2>4, <2>5, <2>6 DEF TypeOK, Stages
  <2>8. ProposingInv' /\ ChainBound'
    BY <2>4 DEF ProposingInv, ChainBound, TypeOK
  <2> QED BY <2>7, <2>8
<1>8. ASSUME NEW n \in Node, SelectAndVote(n) PROVE TypeInv'
  <2> USE <1>8 DEF SelectAndVote
  <2>1. PICK c \in Select(StageList(n)) :
            LET v == CreateVote(n, c)
            IN  /\ selected' = [selected EXCEPT ![n] =
                                  [cand |-> c, retry |-> num_retry_count[n]]]
                /\ pool_vote' = [pool_vote EXCEPT ![n] = @ \cup {v}]
                /\ net_vote' = Broadcast(net_vote, n, v)
                /\ cast' = cast \cup {v}
    OBVIOUS
  <2>2. c \in Candidate
    BY SelectType, StageListType
  <2> DEFINE v == CreateVote(n, c)
  <2>3. v \in Vote /\ [cand |-> c, retry |-> num_retry_count[n]] \in Block
    BY <2>2 DEF CreateVote, Vote, Block, TypeOK
  <2> HIDE DEF v
  <2>4. /\ pool_vote' = [pool_vote EXCEPT ![n] = @ \cup {v}]
        /\ net_vote' = Broadcast(net_vote, n, v)
        /\ cast' = cast \cup {v}
    BY <2>1 DEF v
  <2>5. net_vote' \in [Node -> SUBSET Vote]
    BY <2>3, <2>4, BroadcastType DEF TypeOK
  <2>6. /\ selected' \in [Node -> Block \cup {Nothing}]
        /\ pool_vote' \in [Node -> SUBSET Vote]
        /\ cast' \in SUBSET Vote
    BY <2>1, <2>3, <2>4 DEF TypeOK
  <2>7. TypeOK'
    BY <2>5, <2>6 DEF TypeOK, Stages
  <2>8. ProposingInv' /\ ChainBound'
    BY DEF ProposingInv, ChainBound, TypeOK, InStage
  <2> QED BY <2>7, <2>8
<1>9. ASSUME NEW n \in Node, FinalizeOwn(n) PROVE TypeInv'
  <2> USE <1>9 DEF FinalizeOwn
  <2>1. PICK c \in {v.cand : v \in pool_vote[n]} :
            LET f == GenerateFinalize(n, c)
            IN  /\ Elected(n, c) # Nothing
                /\ selected' = [selected EXCEPT ![n] = Elected(n, c)]
                /\ net_finalize' = Broadcast(net_finalize, n, f)
                /\ chain_queue' = [chain_queue EXCEPT ![n] = Append(@, f)]
                /\ finals' = finals \cup {f}
    OBVIOUS
  <2> DEFINE b == Elected(n, c)
             f == GenerateFinalize(n, c)
  <2>2. b \in Block
    BY <2>1, ElectedType
  <2>3. c \in Candidate
    BY DEF TypeOK, Vote
  <2>4. f \in Final
    BY <2>2, <2>3, VotersType DEF GenerateFinalize, Final, Block
  <2> HIDE DEF b, f
  <2>5. /\ selected' = [selected EXCEPT ![n] = b]
        /\ net_finalize' = Broadcast(net_finalize, n, f)
        /\ chain_queue' = [chain_queue EXCEPT ![n] = Append(@, f)]
        /\ finals' = finals \cup {f}
    BY <2>1 DEF b, f
  <2>6. net_finalize' \in [Node -> SUBSET Final]
    BY <2>4, <2>5, BroadcastType DEF TypeOK
  <2>7. /\ selected' \in [Node -> Block \cup {Nothing}]
        /\ chain_queue' \in [Node -> Seq(Final)]
        /\ finals' \in SUBSET Final
    BY <2>2, <2>4, <2>5 DEF TypeOK
  <2>8. TypeOK'
    BY <2>6, <2>7 DEF TypeOK, Stages
  <2>9. ProposingInv' /\ ChainBound'
    BY DEF ProposingInv, ChainBound, TypeOK, InStage
  <2> QED BY <2>8, <2>9
<1>10. ASSUME NEW n \in Node, AwaitFinalize(n) PROVE TypeInv'
    BY <1>10, ElectedType DEF AwaitFinalize, InStage, TypeOK, ProposingInv,
       ChainBound, Stages
<1>11. ASSUME NEW n \in Node, ElectUnknown(n) PROVE TypeInv'
    BY <1>11 DEF ElectUnknown, EngineDies, InStage, TypeOK, ProposingInv,
       ChainBound
<1>12. ASSUME NEW n \in Node, RetryRound(n) PROVE TypeInv'
    BY <1>12, BoundAssumption DEF RetryRound, InStage, TypeOK, ProposingInv,
       ChainBound, Stages, Retries
<1>13. ASSUME NEW n \in Node, FinalizeBlock(n) PROVE TypeInv'
  <2> USE <1>13 DEF FinalizeBlock
  <2> DEFINE f == Head(chain_queue[n])
  <2>1. /\ f \in Final
        /\ Tail(chain_queue[n]) \in Seq(Final)
    BY DEF TypeOK
  <2>2. f.cand.height <= MaxHeight
    BY <2>1, BoundAssumption DEF Final, Candidate, Heights
  <2>3. chain_queue' \in [Node -> Seq(Final)]
    BY <2>1 DEF TypeOK
  <2>4. /\ blocks' \in [Node -> Seq(Final)]
        /\ ChainBound'
    <3>1. CASE UNCHANGED blocks
      BY <3>1 DEF TypeOK, ChainBound
    <3>2. CASE /\ f.cand.height = Len(blocks[n]) + 1
               /\ blocks' = [blocks EXCEPT ![n] = Append(@, f)]
      <4>1. blocks[n] \in Seq(Final)
        BY DEF TypeOK
      <4>2. /\ Append(blocks[n], f) \in Seq(Final)
            /\ Len(Append(blocks[n], f)) = Len(blocks[n]) + 1
        BY <2>1, <4>1
      <4> QED BY <2>2, <3>2, <4>2 DEF TypeOK, ChainBound
    <3> QED BY <3>1, <3>2
  <2>5. chain_thread' \in
            [Node -> {"idle", "publishing", "bad_height", "bad_prev"}]
    <3> DEFINE ends == {"publishing", "bad_height", "bad_prev"}
    <3>1. \E e \in ends : chain_thread' = [chain_thread EXCEPT ![n] = e]
      OBVIOUS
    <3> QED BY <3>1 DEF TypeOK
  <2>6. TypeOK'
    BY <2>3, <2>4, <2>5 DEF TypeOK
  <2>7. ProposingInv'
    BY DEF ProposingInv
  <2> QED BY <2>4, <2>6, <2>7
<1>14. ASSUME NEW n \in Node, PublishLast(n) PROVE TypeInv'
    BY <1>14, LastIdType DEF PublishLast, TypeOK, ProposingInv, ChainBound
<1>15. CASE UNCHANGED vars
    BY <1>15 DEF vars, TypeOK, ProposingInv, ChainBound
<1> QED
    BY <1>1, <1>2, <1>3, <1>4, <1>5, <1>6, <1>r, <1>7, <1>8, <1>9, <1>10,
       <1>11, <1>12, <1>13, <1>14, <1>15
    DEF Next, ReceiveMessage, Pass, Chain

(* Type correctness, for every value of the constants: the heights, retries, *)
(* blocks, votes and chains the code builds are those of the model.          *)
THEOREM TypeCorrect == Spec => []TypeOK
<1>1. Spec => []TypeInv
    BY TypeInit, TypeStep, PTL DEF Spec
<1>2. TypeInv => TypeOK
    BY DEF TypeInv
<1> QED BY <1>1, <1>2, PTL

-----------------------------------------------------------------------------
(* One vote per node and wave, one certificate per wave.                     *)

\* The waves a node has voted in are behind it, up to the one in which it is
\* collecting votes.
VotePast(v) ==
    LET n == v.creator
    IN  \/ v.cand.height < num_height[n]
        \/ /\ v.cand.height = num_height[n]
           /\ \/ v.retry < num_retry_count[n]
              \/ /\ v.retry = num_retry_count[n]
                 /\ stage[n] \in {"COLLECT_VOTE", "WAIT_FOR_FINALIZE"}

VoteInv == (\A v \in cast : VotePast(v)) /\ VoteOncePerWave

LEMMA VoteInit == Init => VoteInv
BY DEF Init, VoteInv, VoteOncePerWave

\* Steps that neither vote nor move an engine to another wave.
LEMMA VoteFrame ==
    VoteInv /\ UNCHANGED <<cast, num_height, num_retry_count, stage>> => VoteInv'
BY DEF VoteInv, VotePast, VoteOncePerWave

LEMMA VoteStep == TypeInv /\ VoteInv /\ [Next]_vars => VoteInv'
<1> SUFFICES ASSUME TypeInv, VoteInv, [Next]_vars PROVE VoteInv'
    OBVIOUS
<1> USE DEF history, engineVars
<1>t. /\ num_height \in [Node -> 1 .. MaxHeight + 1]
      /\ num_retry_count \in [Node -> Retries]
      /\ stage \in [Node -> Stages]
      /\ cast \in SUBSET Vote
    BY DEF TypeInv, TypeOK
<1>v. \A v \in cast : /\ v.creator \in Node
                      /\ v.cand.height \in Int
                      /\ v.retry \in Int
    BY <1>t DEF Vote, Candidate, Heights, Retries
<1>n. \A n \in Node : num_height[n] \in Int /\ num_retry_count[n] \in Int
    BY <1>t DEF Retries
<1>1. ASSUME NEW n \in Node, NEW t \in net_transaction[n],
             ReceiveTransaction(n, t)
      PROVE  VoteInv'
    BY <1>1, VoteFrame DEF ReceiveTransaction
<1>2. ASSUME NEW n \in Node, ReceiveMessage(n) PROVE VoteInv'
    BY <1>2, VoteFrame
    DEF ReceiveMessage, ReceiveCandidate, ReceiveVote, ReceiveFinalize
<1>3. ASSUME NEW n \in Node, NewRound(n) PROVE VoteInv'
  <2>1. /\ num_height' = [num_height EXCEPT ![n] = num_height[n] + 1]
        /\ UNCHANGED <<cast, num_retry_count>>
        /\ \A m \in Node \ {n} : stage'[m] = stage[m]
    BY <1>3, <1>t DEF NewRound, EngineDies
  <2>2. \A v \in cast : VotePast(v)'
    BY <2>1, <1>t, <1>v, <1>n DEF VoteInv, VotePast
  <2> QED BY <2>1, <2>2 DEF VoteInv, VoteOncePerWave
<1>4. ASSUME NEW n \in Node,
             BeginPropose(n) \/ ReadLast(n) \/ ElectUnknown(n)
      PROVE  VoteInv'
    BY <1>4, VoteFrame DEF BeginPropose, ReadLast, ElectUnknown, EngineDies,
       engineVars, history
<1>5. ASSUME NEW n \in Node, NEW s \in Stages,
             stage[n] \in {"PROPOSE", s} \/ s = "WAIT_FOR_FINALIZE",
             stage' = [stage EXCEPT ![n] = s],
             UNCHANGED <<cast, num_height, num_retry_count>>
      PROVE  VoteInv'
    BY <1>5, <1>t, <1>v DEF VoteInv, VotePast, VoteOncePerWave
<1>6. ASSUME NEW n \in Node, CreateCandidate(n) PROVE VoteInv'
    BY <1>5, <1>6 DEF CreateCandidate, TypeInv, ProposingInv, Stages
<1>7. ASSUME NEW n \in Node, FinalizeOwn(n) \/ AwaitFinalize(n) PROVE VoteInv'
    BY <1>5, <1>7 DEF FinalizeOwn, AwaitFinalize, Stages
<1>8. ASSUME NEW n \in Node, SelectAndVote(n) PROVE VoteInv'
  <2>1. PICK c \in Select(StageList(n)) :
            cast' = cast \cup {[cand |-> c, retry |-> num_retry_count[n],
                                creator |-> n]}
    BY <1>8 DEF SelectAndVote, CreateVote
  <2> DEFINE v == [cand |-> c, retry |-> num_retry_count[n], creator |-> n]
  <2>2. c.height = num_height[n]
    BY SelectType, StageListType DEF TypeInv
  <2>3. /\ stage[n] = "COLLECT_CANDIDATE"
        /\ stage' = [stage EXCEPT ![n] = "COLLECT_VOTE"]
        /\ UNCHANGED <<num_height, num_retry_count>>
    BY <1>8 DEF SelectAndVote, InStage
  <2>4. \A w \in cast : w.creator = n =>
            w.cand.height # num_height[n] \/ w.retry # num_retry_count[n]
    BY <2>3, <1>v, <1>n DEF VoteInv, VotePast
  <2>5. VoteOncePerWave'
    BY <2>1, <2>2, <2>4 DEF VoteInv, VoteOncePerWave
  <2>6. /\ num_height'[n] = c.height
        /\ num_retry_count'[n] = num_retry_count[n]
        /\ stage'[n] = "COLLECT_VOTE"
    BY <2>2, <2>3, <1>t
  <2>7. \A w \in cast : VotePast(w)'
    BY <2>3, <1>t, <1>v DEF VoteInv, VotePast
  <2>8. cast' = cast \cup {v}
    BY <2>1
  <2>9. ASSUME NEW w \in cast' PROVE VotePast(w)'
    <3>1. CASE w \in cast
      BY <2>7, <3>1
    <3>2. CASE w = v
      <4>1. w.creator = n /\ w.cand = c /\ w.retry = num_retry_count[n]
        BY <3>2
      <4> QED BY <2>6, <4>1 DEF VotePast
    <3> QED BY <2>8, <3>1, <3>2
  <2> QED BY <2>5, <2>9 DEF VoteInv
<1>9. ASSUME NEW n \in Node, RetryRound(n) PROVE VoteInv'
  <2>1. /\ num_retry_count' =
               [num_retry_count EXCEPT ![n] = num_retry_count[n] + 1]
        /\ stage' = [stage EXCEPT ![n] = "PROPOSE"]
        /\ UNCHANGED <<cast, num_height>>
    BY <1>9, <1>t DEF RetryRound
  <2> QED BY <2>1, <1>t, <1>v, <1>n DEF VoteInv, VotePast, VoteOncePerWave
<1>10. ASSUME NEW n \in Node, Chain(n) PROVE VoteInv'
    BY <1>10, VoteFrame DEF Chain, FinalizeBlock, PublishLast
<1>11. CASE UNCHANGED vars
    BY <1>11, VoteFrame DEF vars
<1> QED
    BY <1>1, <1>2, <1>3, <1>4, <1>6, <1>7, <1>8, <1>9, <1>10, <1>11
    DEF Next, Pass

LEMMA VoteInvariant == Spec => [](TypeInv /\ VoteInv)
BY TypeInit, TypeStep, VoteInit, VoteStep, PTL DEF Spec

(* No node ever votes twice in a wave, whatever the quorum, the number of    *)
(* nodes and the number of retries.                                          *)
THEOREM VotesOnce == Spec => []VoteOncePerWave
<1>1. VoteInv => VoteOncePerWave
    BY DEF VoteInv
<1> QED BY <1>1, VoteInvariant, PTL

\* Two quorums share a node.
Majority == 2 * NumQuorum > Cardinality(Node)

LEMMA QuorumsMeet ==
    ASSUME Majority, NEW S \in SUBSET Node, NEW T \in SUBSET Node,
           Cardinality(S) >= NumQuorum, Cardinality(T) >= NumQuorum
    PROVE  \E n \in Node : n \in S /\ n \in T
<1> SUFFICES ASSUME S \cap T = {} PROVE FALSE
    OBVIOUS
<1>1. IsFiniteSet(Node) /\ IsFiniteSet(S) /\ IsFiniteSet(T)
    BY NodeAssumption, FS_Subset
<1>c. Cardinality(S) \in Nat /\ Cardinality(T) \in Nat
    BY <1>1, FS_CardinalityType
<1>u. Cardinality(S \cup T) =
          Cardinality(S) + Cardinality(T) - Cardinality(S \cap T)
    BY <1>1, FS_Union
<1>2. Cardinality(S \cup T) = Cardinality(S) + Cardinality(T)
  <2>1. Cardinality(S \cap T) = 0
    BY FS_EmptySet
  <2> QED BY <1>c, <1>u, <2>1
<1>3. S \cup T \in SUBSET Node
    OBVIOUS
<1>4. Cardinality(S \cup T) <= Cardinality(Node)
    BY <1>1, <1>3, FS_Subset
<1> QED
    BY <1>1, <1>2, <1>4, BoundAssumption, FS_CardinalityType DEF Majority

(* Two candidates never both win one wave, as soon as two quorums share a    *)
(* node: the quorum of 4 of the code does this for up to seven nodes.        *)
THEOREM OneCertificate == Majority => (Spec => []OneCertificatePerWave)
<1> SUFFICES ASSUME Majority PROVE Spec => []OneCertificatePerWave
    OBVIOUS
<1>1. TypeInv /\ VoteInv => OneCertificatePerWave
  <2> SUFFICES ASSUME TypeInv, VoteInv, NEW v \in cast, NEW w \in cast,
                      v.cand.height = w.cand.height, v.retry = w.retry,
                      Certificate(v.cand, v.retry),
                      Certificate(w.cand, w.retry)
               PROVE  v.cand = w.cand
    BY DEF OneCertificatePerWave
  <2>1. /\ Supporters(v.cand, v.retry) \in SUBSET Node
        /\ Supporters(w.cand, w.retry) \in SUBSET Node
    BY DEF Supporters, TypeInv, TypeOK, Vote
  <2>2. PICK n \in Node : /\ n \in Supporters(v.cand, v.retry)
                          /\ n \in Supporters(w.cand, w.retry)
    BY <2>1, QuorumsMeet DEF Certificate
  <2>3. PICK a \in cast, b \in cast :
            /\ a.creator = n /\ a.cand = v.cand /\ a.retry = v.retry
            /\ b.creator = n /\ b.cand = w.cand /\ b.retry = w.retry
    BY <2>2 DEF Supporters
  <2> QED BY <2>3 DEF VoteInv, VoteOncePerWave
<1> QED BY <1>1, VoteInvariant, PTL

-----------------------------------------------------------------------------
(* One finalised block per height, when the quorum is all the nodes.         *)

Unanimous == NumQuorum = Cardinality(Node)

VoteFor(c, r, n) == [cand |-> c, retry |-> r, creator |-> n]

\* An engine that collects votes has voted, and has that block selected.
SelectedInv ==
    \A n \in Node :
        (engine[n] = "up" /\ stage[n] = "COLLECT_VOTE") =>
            /\ selected[n] # Nothing
            /\ selected[n].retry = num_retry_count[n]
            /\ selected[n].cand.height = num_height[n]
            /\ VoteFor(selected[n].cand, num_retry_count[n], n) \in cast

\* Every vote that is pooled or on its way was cast.
VotesReal == \A n \in Node : pool_vote[n] \cup net_vote[n] \subseteq cast

\* Every block that is on its way, queued or chained was finalised, and the
\* chain holds it at its own height.
FinalsReal ==
    \A n \in Node :
        /\ net_finalize[n] \subseteq finals
        /\ chain_queue[n] \in Seq(finals)
        /\ blocks[n] \in Seq(finals)
        /\ \A h \in 1 .. Len(blocks[n]) : blocks[n][h].cand.height = h

\* All the nodes voted for a finalised block in its wave, and its creator has
\* not voted at that height since.
FinalInv ==
    \A f \in finals :
        LET p == f.cand.creator
        IN  /\ f.votes = Node
            /\ \A n \in Node : VoteFor(f.cand, f.retry, n) \in cast
            /\ \/ num_height[p] > f.cand.height
               \/ /\ num_height[p] = f.cand.height
                  /\ stage[p] = "WAIT_FOR_FINALIZE"
            /\ \A v \in cast :
                   (v.creator = p /\ v.cand.height = f.cand.height)
                       => v.retry <= f.retry

UnanimousInv == SelectedInv /\ VotesReal /\ FinalsReal /\ FinalInv

LEMMA UnanimousInit == Init => UnanimousInv
<1> SUFFICES ASSUME Init PROVE UnanimousInv
    OBVIOUS
<1>1. SelectedInv
    BY DEF Init, SelectedInv
<1>2. VotesReal /\ FinalInv
    BY DEF Init, VotesReal, FinalInv
<1>3. FinalsReal
    BY DEF Init, FinalsReal
<1> QED BY <1>1, <1>2, <1>3 DEF UnanimousInv

\* A step that only moves node n, and not to where it collects votes.
LEMMA SelectedFrame ==
    ASSUME SelectedInv, cast \subseteq cast', NEW n \in Node,
           \A m \in Node \ {n} :
               /\ engine'[m] = engine[m] /\ stage'[m] = stage[m]
               /\ num_height'[m] = num_height[m]
               /\ num_retry_count'[m] = num_retry_count[m]
               /\ selected'[m] = selected[m],
           \/ engine'[n] # "up"
           \/ stage'[n] # "COLLECT_VOTE"
           \/ UNCHANGED engineVars
    PROVE  SelectedInv'
BY DEF SelectedInv, engineVars

LEMMA SelectedStep == TypeInv /\ SelectedInv /\ [Next]_vars => SelectedInv'
<1> SUFFICES ASSUME TypeInv, SelectedInv, [Next]_vars PROVE SelectedInv'
    OBVIOUS
<1> USE DEF history
<1>t. /\ engine \in [Node -> {"up", "proposing", "dead"}]
      /\ stage \in [Node -> Stages]
      /\ num_height \in [Node -> 1 .. MaxHeight + 1]
      /\ num_retry_count \in [Node -> Retries]
      /\ selected \in [Node -> Block \cup {Nothing}]
    BY DEF TypeInv, TypeOK
<1>1. CASE UNCHANGED <<engineVars, cast>>
    BY <1>1 DEF SelectedInv, engineVars
<1>2. ASSUME NEW n \in Node,
             \/ NewRound(n) \/ BeginPropose(n) \/ CreateCandidate(n)
             \/ ElectUnknown(n) \/ RetryRound(n)
      PROVE  SelectedInv'
  <2>1. CASE NewRound(n)
    BY <2>1, <1>t, SelectedFrame DEF NewRound, EngineDies
  <2>2. CASE BeginPropose(n)
    BY <2>2, <1>t, SelectedFrame DEF BeginPropose, EngineDies
  <2>3. CASE CreateCandidate(n)
    BY <2>3, <1>t, SelectedFrame DEF CreateCandidate
  <2>4. CASE ElectUnknown(n)
    BY <2>4, <1>t, SelectedFrame DEF ElectUnknown, EngineDies
  <2>5. CASE RetryRound(n)
    BY <2>5, <1>t, SelectedFrame DEF RetryRound
  <2> QED BY <1>2, <2>1, <2>2, <2>3, <2>4, <2>5
<1>3. ASSUME NEW n \in Node, FinalizeOwn(n) \/ AwaitFinalize(n)
      PROVE  SelectedInv'
  <2>1. PICK b \in Block \cup {Nothing} :
            selected' = [selected EXCEPT ![n] = b]
    BY <1>3, ElectedType DEF FinalizeOwn, AwaitFinalize, TypeInv
  <2>2. /\ stage' = [stage EXCEPT ![n] = "WAIT_FOR_FINALIZE"]
        /\ UNCHANGED <<engine, num_height, num_retry_count, cast>>
    BY <1>3 DEF FinalizeOwn, AwaitFinalize
  <2> QED BY <2>1, <2>2, <1>t, SelectedFrame
<1>4. ASSUME NEW n \in Node, SelectAndVote(n) PROVE SelectedInv'
  <2>1. PICK c \in Select(StageList(n)) :
            /\ selected' = [selected EXCEPT ![n] =
                                [cand |-> c, retry |-> num_retry_count[n]]]
            /\ cast' = cast \cup {VoteFor(c, num_retry_count[n], n)}
    BY <1>4 DEF SelectAndVote, CreateVote, VoteFor
  <2>2. c \in Candidate /\ c.height = num_height[n]
    BY SelectType, StageListType DEF TypeInv
  <2>3. UNCHANGED <<engine, num_height, num_retry_count>>
    BY <1>4 DEF SelectAndVote
  <2>4. \A m \in Node \ {n} : stage'[m] = stage[m] /\ selected'[m] = selected[m]
    BY <1>4, <1>t, <2>1 DEF SelectAndVote
  <2>5. [cand |-> c, retry |-> num_retry_count[n]] \in Block
    BY <2>2, <1>t DEF Block
  <2>6. selected'[n] = [cand |-> c, retry |-> num_retry_count[n]]
    BY <2>1, <1>t
  <2>7. selected'[n] # Nothing
    BY <2>5, <2>6, SentinelAssumption
  <2> QED BY <2>1, <2>2, <2>3, <2>4, <2>6, <2>7 DEF SelectedInv
<1>5. ASSUME NEW n \in Node,
             \/ \E t \in net_transaction[n] : ReceiveTransaction(n, t)
             \/ ReceiveMessage(n) \/ ReadLast(n) \/ Chain(n)
      PROVE  UNCHANGED <<engineVars, cast>>
    BY <1>5 DEF ReadLast, ReceiveTransaction, ReceiveMessage, ReceiveCandidate,
       ReceiveVote, ReceiveFinalize, Chain, FinalizeBlock, PublishLast
<1>6. CASE UNCHANGED vars
    BY <1>1, <1>6 DEF vars
<1> QED BY <1>1, <1>2, <1>3, <1>4, <1>5, <1>6 DEF Next, Pass

LEMMA VotesRealStep == TypeInv /\ VotesReal /\ [Next]_vars => VotesReal'
<1> SUFFICES ASSUME TypeInv, VotesReal, [Next]_vars PROVE VotesReal'
    OBVIOUS
<1> USE DEF history, poolVars, netVars
<1>t. /\ pool_vote \in [Node -> SUBSET Vote]
      /\ net_vote \in [Node -> SUBSET Vote]
    BY DEF TypeInv, TypeOK
<1>1. CASE UNCHANGED <<pool_vote, net_vote, cast>>
    BY <1>1 DEF VotesReal
<1>2. ASSUME NEW n \in Node, NEW v \in net_vote[n], ReceiveVote(n, v)
      PROVE  VotesReal'
    BY <1>2, <1>t DEF ReceiveVote, Received, VotesReal
<1>3. ASSUME NEW n \in Node, NewRound(n) PROVE VotesReal'
  <2>1. /\ UNCHANGED <<net_vote, cast>>
        /\ \A m \in Node : pool_vote'[m] \subseteq pool_vote[m]
    BY <1>3, <1>t DEF NewRound, EngineDies, OfWave
  <2> QED BY <2>1 DEF VotesReal
<1>4. ASSUME NEW n \in Node, SelectAndVote(n) PROVE VotesReal'
  <2>1. PICK v : /\ pool_vote' = [pool_vote EXCEPT ![n] = @ \cup {v}]
                 /\ net_vote' = Broadcast(net_vote, n, v)
                 /\ cast' = cast \cup {v}
    BY <1>4 DEF SelectAndVote
  <2> QED BY <2>1, <1>t DEF Broadcast, VotesReal
<1>5. ASSUME NEW n \in Node,
             \/ \E t \in net_transaction[n] : ReceiveTransaction(n, t)
             \/ \E b \in net_candidate[n] : ReceiveCandidate(n, b)
             \/ \E f \in net_finalize[n] : ReceiveFinalize(n, f)
             \/ BeginPropose(n) \/ ReadLast(n) \/ CreateCandidate(n)
             \/ FinalizeOwn(n) \/ AwaitFinalize(n) \/ ElectUnknown(n)
             \/ RetryRound(n) \/ Chain(n)
      PROVE  UNCHANGED <<pool_vote, net_vote, cast>>
    BY <1>5 DEF ReceiveTransaction, ReceiveCandidate, ReceiveFinalize,
       BeginPropose, ReadLast, CreateCandidate, FinalizeOwn, AwaitFinalize,
       ElectUnknown, RetryRound, EngineDies, Chain, FinalizeBlock, PublishLast
<1>6. CASE UNCHANGED vars
    BY <1>1, <1>6 DEF vars
<1> QED BY <1>1, <1>2, <1>3, <1>4, <1>5, <1>6 DEF Next, Pass, ReceiveMessage

\* Sequences of finalised blocks stay such when one more is finalised.
LEMMA SeqGrows ==
    ASSUME NEW S, NEW T, S \subseteq T, NEW q \in Seq(S)
    PROVE  q \in Seq(T)
OBVIOUS

LEMMA FinalsRealStep == TypeInv /\ FinalsReal /\ [Next]_vars => FinalsReal'
<1> SUFFICES ASSUME TypeInv, FinalsReal, [Next]_vars PROVE FinalsReal'
    OBVIOUS
<1> USE DEF history, netVars, chainVars
<1>t. /\ net_finalize \in [Node -> SUBSET Final]
      /\ chain_queue \in [Node -> Seq(Final)]
      /\ blocks \in [Node -> Seq(Final)]
    BY DEF TypeInv, TypeOK
<1>1. CASE UNCHANGED <<net_finalize, chain_queue, blocks, finals>>
    BY <1>1 DEF FinalsReal
<1>2. ASSUME NEW n \in Node, NEW f \in net_finalize[n], ReceiveFinalize(n, f)
      PROVE  FinalsReal'
  <2>1. Append(chain_queue[n], f) \in Seq(finals)
    BY DEF FinalsReal
  <2> QED BY <1>2, <1>t, <2>1 DEF ReceiveFinalize, Received, FinalsReal
<1>3. ASSUME NEW n \in Node, FinalizeOwn(n) PROVE FinalsReal'
  <2>1. PICK f : /\ net_finalize' = Broadcast(net_finalize, n, f)
                 /\ chain_queue' = [chain_queue EXCEPT ![n] = Append(@, f)]
                 /\ finals' = finals \cup {f}
    BY <1>3 DEF FinalizeOwn
  <2>2. UNCHANGED blocks
    BY <1>3 DEF FinalizeOwn
  <2>3. \A m \in Node : net_finalize'[m] \subseteq finals'
    BY <2>1, <1>t DEF Broadcast, FinalsReal
  <2>4. \A m \in Node : chain_queue[m] \in Seq(finals') /\ blocks[m] \in Seq(finals')
    BY <2>1, SeqGrows DEF FinalsReal
  <2>5. Append(chain_queue[n], f) \in Seq(finals')
    BY <2>1, <2>4
  <2>6. \A m \in Node : chain_queue'[m] \in Seq(finals')
    BY <2>1, <2>4, <2>5, <1>t
  <2> QED BY <2>2, <2>3, <2>4, <2>6 DEF FinalsReal
<1>4. ASSUME NEW n \in Node, FinalizeBlock(n) PROVE FinalsReal'
  <2> DEFINE f == Head(chain_queue[n])
  <2>1. /\ chain_queue[n] # <<>>
        /\ chain_queue' = [chain_queue EXCEPT ![n] = Tail(@)]
        /\ UNCHANGED <<net_finalize, finals>>
    BY <1>4 DEF FinalizeBlock
  <2>2. f \in finals /\ Tail(chain_queue[n]) \in Seq(finals)
    BY <2>1 DEF FinalsReal
  <2>3. \A m \in Node : chain_queue'[m] \in Seq(finals)
    BY <2>1, <2>2, <1>t DEF FinalsReal
  <2>4. CASE UNCHANGED blocks
    BY <2>1, <2>3, <2>4 DEF FinalsReal
  <2>5. CASE /\ f.cand.height = Len(blocks[n]) + 1
             /\ blocks' = [blocks EXCEPT ![n] = Append(@, f)]
    <3>1. blocks'[n] = Append(blocks[n], f)
      BY <2>5, <1>t
    <3>2. blocks[n] \in Seq(finals)
      BY DEF FinalsReal
    <3>3. /\ blocks'[n] \in Seq(finals)
          /\ \A h \in 1 .. Len(blocks'[n]) : blocks'[n][h].cand.height = h
      BY <2>2, <2>5, <3>1, <3>2 DEF FinalsReal
    <3>4. \A m \in Node \ {n} : blocks'[m] = blocks[m]
      BY <2>5, <1>t
    <3> QED BY <2>1, <2>3, <3>3, <3>4 DEF FinalsReal
  <2> QED BY <1>4, <2>4, <2>5 DEF FinalizeBlock
<1>5. ASSUME NEW n \in Node,
             \/ \E t \in net_transaction[n] : ReceiveTransaction(n, t)
             \/ \E b \in net_candidate[n] : ReceiveCandidate(n, b)
             \/ \E v \in net_vote[n] : ReceiveVote(n, v)
             \/ NewRound(n) \/ BeginPropose(n) \/ ReadLast(n)
             \/ CreateCandidate(n) \/ SelectAndVote(n) \/ AwaitFinalize(n)
             \/ ElectUnknown(n) \/ RetryRound(n) \/ PublishLast(n)
      PROVE  UNCHANGED <<net_finalize, chain_queue, blocks, finals>>
    BY <1>5 DEF ReceiveTransaction, ReceiveCandidate, ReceiveVote, NewRound,
       BeginPropose, ReadLast, CreateCandidate, SelectAndVote, AwaitFinalize,
       ElectUnknown, RetryRound, EngineDies, PublishLast
<1>6. CASE UNCHANGED vars
    BY <1>1, <1>6 DEF vars
<1> QED
    BY <1>1, <1>2, <1>3, <1>4, <1>5, <1>6
    DEF Next, Pass, Chain, ReceiveMessage

\* The inductive invariant of the unanimous quorum, before a step.
Before == TypeInv /\ VoteInv /\ UnanimousInv

\* A block an engine finalises has the votes of all the nodes, and is the one
\* the engine itself voted for in its wave.
LEMMA UnanimousQuorum ==
    ASSUME Unanimous, Before, NEW n \in Node, NEW c, HasQuorum(n, c),
           engine[n] = "up", stage[n] = "COLLECT_VOTE"
    PROVE  /\ c.height = num_height[n]
           /\ Voters(n, c) = Node
           /\ \A m \in Node : VoteFor(c, num_retry_count[n], m) \in cast
           /\ Elected(n, c) = selected[n]
           /\ selected[n].retry = num_retry_count[n]
<1> USE DEF Before, UnanimousInv
<1>1. c.height = num_height[n]
    BY DEF HasQuorum
<1>2. Voters(n, c) \in SUBSET Node
    BY VotersType DEF TypeInv
<1>3. IsFiniteSet(Voters(n, c)) /\ Cardinality(Voters(n, c)) <= Cardinality(Node)
    BY <1>2, NodeAssumption, FS_Subset
<1>4. Cardinality(Voters(n, c)) = Cardinality(Node)
    BY <1>3, NodeAssumption, FS_CardinalityType DEF HasQuorum, Unanimous
<1>5. Voters(n, c) = Node
    BY <1>2, <1>4, NodeAssumption, FS_Subset
<1>6. \A m \in Node : VoteFor(c, num_retry_count[n], m) \in cast
  <2> SUFFICES ASSUME NEW m \in Node
               PROVE  VoteFor(c, num_retry_count[n], m) \in cast
    OBVIOUS
  <2>1. PICK v \in pool_vote[n] :
            v.cand = c /\ v.retry = num_retry_count[n] /\ v.creator = m
    BY <1>5 DEF Voters
  <2>2. v \in cast /\ v \in Vote
    BY DEF VotesReal, TypeInv, TypeOK
  <2>3. v = VoteFor(c, num_retry_count[n], m)
    BY <2>1, <2>2 DEF Vote, VoteFor
  <2> QED BY <2>2, <2>3
<1>7. /\ VoteFor(selected[n].cand, num_retry_count[n], n) \in cast
      /\ selected[n].cand.height = num_height[n]
      /\ selected[n].retry = num_retry_count[n]
    BY DEF SelectedInv
<1>8. selected[n].cand = c
    BY <1>1, <1>6, <1>7 DEF VoteInv, VoteOncePerWave, VoteFor
<1> QED BY <1>1, <1>5, <1>6, <1>7, <1>8 DEF Elected

LEMMA FinalStep == Unanimous /\ Before /\ [Next]_vars => FinalInv'
<1> SUFFICES ASSUME Unanimous, Before, [Next]_vars PROVE FinalInv'
    OBVIOUS
<1> USE DEF history
<1>t. /\ num_height \in [Node -> 1 .. MaxHeight + 1]
      /\ num_retry_count \in [Node -> Retries]
      /\ stage \in [Node -> Stages]
      /\ cast \in SUBSET Vote
      /\ finals \in SUBSET Final
    BY DEF Before, TypeInv, TypeOK
<1>f. \A f \in finals : /\ f.cand.creator \in Node
                        /\ f.cand.height \in Int
                        /\ f.retry \in Int
    BY <1>t DEF Final, Candidate, Heights, Retries
<1>n. \A n \in Node : num_height[n] \in Int /\ num_retry_count[n] \in Int
    BY <1>t DEF Retries
<1>i. FinalInv
    BY DEF Before, UnanimousInv
<1>1. ASSUME UNCHANGED <<stage, num_height, cast, finals>> PROVE FinalInv'
    BY <1>1, <1>i DEF FinalInv
<1>2. ASSUME NEW n \in Node,
             \/ \E t \in net_transaction[n] : ReceiveTransaction(n, t)
             \/ ReceiveMessage(n) \/ BeginPropose(n) \/ ReadLast(n)
             \/ ElectUnknown(n) \/ Chain(n)
      PROVE  UNCHANGED <<stage, num_height, cast, finals>>
    BY <1>2 DEF ReceiveTransaction, ReceiveMessage, ReceiveCandidate,
       ReceiveVote, ReceiveFinalize, BeginPropose, ReadLast, ElectUnknown,
       EngineDies, Chain, FinalizeBlock, PublishLast, engineVars
<1>3. ASSUME NEW n \in Node, NewRound(n) PROVE FinalInv'
  <2>1. /\ num_height' = [num_height EXCEPT ![n] = num_height[n] + 1]
        /\ UNCHANGED <<cast, finals>>
        /\ \A m \in Node \ {n} : stage'[m] = stage[m]
    BY <1>3, <1>t DEF NewRound, EngineDies
  <2> QED BY <2>1, <1>t, <1>f, <1>n, <1>i DEF FinalInv
\* An engine that is not waiting for a block leaves the finalised blocks be.
<1>4. ASSUME NEW n \in Node, stage[n] # "WAIT_FOR_FINALIZE",
             NEW s \in Stages, stage' = [stage EXCEPT ![n] = s],
             UNCHANGED <<num_height, cast, finals>>
      PROVE  FinalInv'
    BY <1>4, <1>t, <1>f, <1>i DEF FinalInv
<1>5. ASSUME NEW n \in Node,
             CreateCandidate(n) \/ AwaitFinalize(n) \/ RetryRound(n)
      PROVE  FinalInv'
  <2>1. CASE CreateCandidate(n)
    BY <2>1, <1>4 DEF CreateCandidate, Before, TypeInv, ProposingInv, Stages
  <2>2. CASE AwaitFinalize(n)
    BY <2>2, <1>4 DEF AwaitFinalize, InStage, Stages
  <2>3. CASE RetryRound(n)
    BY <2>3, <1>4 DEF RetryRound, InStage, Stages
  <2> QED BY <1>5, <2>1, <2>2, <2>3
<1>6. ASSUME NEW n \in Node, SelectAndVote(n) PROVE FinalInv'
  <2>1. PICK c \in Select(StageList(n)) :
            cast' = cast \cup {VoteFor(c, num_retry_count[n], n)}
    BY <1>6 DEF SelectAndVote, CreateVote, VoteFor
  <2>2. c.height = num_height[n]
    BY SelectType, StageListType DEF Before, TypeInv
  <2>3. /\ stage[n] = "COLLECT_CANDIDATE"
        /\ \A m \in Node \ {n} : stage'[m] = stage[m]
        /\ UNCHANGED <<num_height, finals>>
    BY <1>6, <1>t DEF SelectAndVote, InStage
  <2>4. \A f \in finals :
            f.cand.creator = n => num_height[n] > f.cand.height
    BY <2>3, <1>i DEF FinalInv
  <2> DEFINE v == VoteFor(c, num_retry_count[n], n)
  <2>5. \A f \in finals :
            (v.creator = f.cand.creator /\ v.cand.height = f.cand.height)
                => v.retry <= f.retry
    BY <2>2, <2>4, <1>f, <1>n DEF VoteFor
  <2> HIDE DEF v
  <2> SUFFICES ASSUME NEW f \in finals
               PROVE  LET p == f.cand.creator
                      IN  /\ f.votes = Node
                          /\ \A m \in Node : VoteFor(f.cand, f.retry, m) \in cast'
                          /\ \/ num_height'[p] > f.cand.height
                             \/ /\ num_height'[p] = f.cand.height
                                /\ stage'[p] = "WAIT_FOR_FINALIZE"
                          /\ \A w \in cast' :
                                 (w.creator = p /\ w.cand.height = f.cand.height)
                                     => w.retry <= f.retry
    BY <2>3 DEF FinalInv
  <2>6. cast' = cast \cup {v}
    BY <2>1 DEF v
  <2>7. \A w \in cast' :
            (w.creator = f.cand.creator /\ w.cand.height = f.cand.height)
                => w.retry <= f.retry
    BY <2>5, <2>6, <1>i DEF FinalInv
  <2>8. \/ num_height'[f.cand.creator] > f.cand.height
        \/ /\ num_height'[f.cand.creator] = f.cand.height
           /\ stage'[f.cand.creator] = "WAIT_FOR_FINALIZE"
    BY <2>3, <2>4, <1>f, <1>i DEF FinalInv
  <2> QED BY <2>6, <2>7, <2>8, <1>i DEF FinalInv
<1>7. ASSUME NEW n \in Node, FinalizeOwn(n) PROVE FinalInv'
  <2>1. PICK c :
            LET b == Elected(n, c)
                f == [cand |-> c, retry |-> b.retry, votes |-> Voters(n, c)]
            IN  /\ HasQuorum(n, c)
                /\ c.creator = n
                /\ finals' = finals \cup {f}
    BY <1>7 DEF FinalizeOwn, GenerateFinalize
  <2>2. engine[n] = "up" /\ stage[n] = "COLLECT_VOTE"
    BY <1>7 DEF FinalizeOwn, InStage
  <2>3. /\ stage' = [stage EXCEPT ![n] = "WAIT_FOR_FINALIZE"]
        /\ UNCHANGED <<num_height, num_retry_count, cast>>
    BY <1>7 DEF FinalizeOwn
  <2>4. /\ c.height = num_height[n]
        /\ \A m \in Node : VoteFor(c, num_retry_count[n], m) \in cast
        /\ finals' = finals \cup {[cand |-> c, retry |-> num_retry_count[n],
                                   votes |-> Node]}
    BY <2>1, <2>2, UnanimousQuorum
  <2> DEFINE g == [cand |-> c, retry |-> num_retry_count[n], votes |-> Node]
  <2>5. \A v \in cast : (v.creator = n /\ v.cand.height = num_height[n])
            => v.retry <= num_retry_count[n]
    <3> SUFFICES ASSUME NEW v \in cast,
                        v.creator = n, v.cand.height = num_height[n]
                 PROVE  v.retry <= num_retry_count[n]
      OBVIOUS
    <3>1. v.retry \in Int
      BY <1>t DEF Vote, Retries
    <3> QED BY <3>1, <1>n DEF Before, VoteInv, VotePast
  <2>6. \A f \in finals :
            LET p == f.cand.creator
            IN  /\ f.votes = Node
                /\ \A m \in Node : VoteFor(f.cand, f.retry, m) \in cast
                /\ \/ num_height[p] > f.cand.height
                   \/ /\ num_height[p] = f.cand.height
                      /\ stage'[p] = "WAIT_FOR_FINALIZE"
                /\ \A v \in cast :
                       (v.creator = p /\ v.cand.height = f.cand.height)
                           => v.retry <= f.retry
    BY <2>2, <2>3, <1>t, <1>f, <1>i DEF FinalInv
  <2>7. stage'[n] = "WAIT_FOR_FINALIZE"
    BY <2>3, <1>t
  <2>8. /\ g.votes = Node /\ g.cand = c /\ g.retry = num_retry_count[n]
        /\ g.cand.creator = n
    BY <2>1
  <2>9. finals' = finals \cup {g}
    BY <2>4
  <2> HIDE DEF g
  <2> QED BY <2>3, <2>4, <2>5, <2>6, <2>7, <2>8, <2>9 DEF FinalInv
<1>8. CASE UNCHANGED vars
    BY <1>1, <1>8 DEF vars, engineVars
<1> QED BY <1>1, <1>2, <1>3, <1>5, <1>6, <1>7, <1>8 DEF Next, Pass

LEMMA UnanimousInvariant == Unanimous => (Spec => []Before)
<1> SUFFICES ASSUME Unanimous PROVE Spec => []Before
    OBVIOUS
<1>1. Init => Before
    BY TypeInit, VoteInit, UnanimousInit DEF Before
<1>2. Before /\ [Next]_vars => Before'
    BY TypeStep, VoteStep, SelectedStep, VotesRealStep, FinalsRealStep,
       FinalStep DEF Before, UnanimousInv
<1> QED BY <1>1, <1>2, PTL DEF Spec

\* Two finalised blocks of one height are the same: the later wave has a vote
\* of the creator of the block of the earlier wave, which has stopped voting.
LEMMA OneFinal == Before => OneFinalPerHeight
<1> SUFFICES ASSUME Before, NEW f \in finals, NEW g \in finals,
                    f.cand.height = g.cand.height
             PROVE  f = g
    BY DEF OneFinalPerHeight
<1>1. f \in Final /\ g \in Final
    BY DEF Before, TypeInv, TypeOK
<1>2. /\ f.cand.creator \in Node /\ g.cand.creator \in Node
      /\ f.retry \in Int /\ g.retry \in Int
    BY <1>1 DEF Final, Candidate, Retries
<1>3. ASSUME NEW h \in finals, NEW k \in finals,
             h.cand.height = k.cand.height, h.cand.creator \in Node
      PROVE  k.retry <= h.retry
  <2> DEFINE v == VoteFor(k.cand, k.retry, h.cand.creator)
  <2>1. v \in cast
    BY <1>3 DEF Before, UnanimousInv, FinalInv
  <2>2. /\ v.creator = h.cand.creator /\ v.cand.height = h.cand.height
        /\ v.retry = k.retry
    BY <1>3 DEF VoteFor
  <2> HIDE DEF v
  <2>3. v.retry <= h.retry
    BY <2>1, <2>2 DEF Before, UnanimousInv, FinalInv
  <2> QED BY <2>2, <2>3
<1>4. f.retry = g.retry
    BY <1>2, <1>3
<1>5. f.cand = g.cand
    BY <1>2, <1>4 DEF Before, VoteInv, VoteOncePerWave, UnanimousInv, FinalInv,
       VoteFor
<1>6. f.votes = g.votes
    BY DEF Before, UnanimousInv, FinalInv
<1> QED BY <1>1, <1>4, <1>5, <1>6 DEF Final

(* When the quorum is all the nodes, no height ever has two finalised        *)
(* blocks, however many rounds were retried and in whatever order the        *)
(* candidates and the votes arrived.                                         *)
THEOREM Irreversible == Unanimous => (Spec => []OneFinalPerHeight)
<1> SUFFICES ASSUME Unanimous PROVE Spec => []OneFinalPerHeight
    OBVIOUS
<1> QED BY OneFinal, UnanimousInvariant, PTL

-----------------------------------------------------------------------------
(* LLFC with a unanimous quorum implements Consensus.                        *)

(* The chains of two nodes never disagree at a height both have reached.     *)
THEOREM ChainsAgree == Unanimous => (Spec => []Agreement)
<1> SUFFICES ASSUME Unanimous PROVE Spec => []Agreement
    OBVIOUS
<1>1. Before => Agreement
  <2> SUFFICES ASSUME Before, NEW m \in Node, NEW n \in Node,
                      NEW h \in 1 .. Len(blocks[m]), h <= Len(blocks[n])
               PROVE  blocks[m][h] = blocks[n][h]
    BY DEF Agreement, C!Agreement
  <2>1. blocks[m] \in Seq(finals) /\ blocks[n] \in Seq(finals)
    BY DEF Before, UnanimousInv, FinalsReal
  <2>2. h \in 1 .. Len(blocks[n])
    BY <2>1
  <2>3. blocks[m][h] \in finals /\ blocks[n][h] \in finals
    BY <2>1, <2>2
  <2>4. blocks[m][h].cand.height = blocks[n][h].cand.height
    BY <2>2 DEF Before, UnanimousInv, FinalsReal
  <2> QED BY <2>3, <2>4, OneFinal DEF OneFinalPerHeight
<1> QED BY <1>1, UnanimousInvariant, PTL

\* finals and blocks change in two actions only.
LEMMA ConsensusStep ==
    Before /\ Before' /\ [Next]_vars => [C!Next]_(C!vars)
<1> SUFFICES ASSUME Before, Before', [Next]_vars
             PROVE  C!Next \/ UNCHANGED <<finals, blocks>>
    BY DEF C!vars
<1> USE DEF history, chainVars
<1>1. ASSUME NEW n \in Node, FinalizeOwn(n)
      PROVE  C!Decide \/ UNCHANGED <<finals, blocks>>
  <2>1. PICK f : finals' = finals \cup {f}
    BY <1>1 DEF FinalizeOwn
  <2>2. UNCHANGED blocks
    BY <1>1 DEF FinalizeOwn
  <2>3. CASE f \in finals
    BY <2>1, <2>2, <2>3
  <2>4. CASE f \notin finals
    <3>1. \A g, h \in finals' : g.cand.height = h.cand.height => g = h
      <4>1. OneFinalPerHeight'
        BY OneFinal, PTL
      <4> QED BY <4>1 DEF OneFinalPerHeight
    <3>2. \A g \in finals : HeightOf(g) # HeightOf(f)
      BY <2>1, <2>4, <3>1 DEF HeightOf
    <3>3. f \in finals' \ finals
      BY <2>1, <2>4
    <3> QED BY <2>1, <2>2, <3>2, <3>3 DEF C!Decide
  <2> QED BY <2>3, <2>4
<1>2. ASSUME NEW n \in Node, FinalizeBlock(n)
      PROVE  C!Adopt(n) \/ UNCHANGED <<finals, blocks>>
  <2> DEFINE f == Head(chain_queue[n])
  <2>1. UNCHANGED finals /\ chain_queue[n] # <<>>
    BY <1>2 DEF FinalizeBlock
  <2>2. f \in finals
    BY <2>1 DEF Before, UnanimousInv, FinalsReal
  <2>3. CASE UNCHANGED blocks
    BY <2>1, <2>3
  <2>4. CASE /\ f.cand.height = Len(blocks[n]) + 1
             /\ blocks' = [blocks EXCEPT ![n] = Append(@, f)]
    BY <2>1, <2>2, <2>4 DEF C!Adopt, HeightOf
  <2> QED BY <1>2, <2>3, <2>4 DEF FinalizeBlock
<1>3. ASSUME NEW n \in Node,
             \/ \E t \in net_transaction[n] : ReceiveTransaction(n, t)
             \/ ReceiveMessage(n)
             \/ NewRound(n) \/ BeginPropose(n) \/ ReadLast(n)
             \/ CreateCandidate(n) \/ SelectAndVote(n) \/ AwaitFinalize(n)
             \/ ElectUnknown(n) \/ RetryRound(n) \/ PublishLast(n)
      PROVE  UNCHANGED <<finals, blocks>>
    BY <1>3 DEF ReceiveTransaction, ReceiveMessage, ReceiveCandidate,
       ReceiveVote, ReceiveFinalize, NewRound, BeginPropose, ReadLast,
       CreateCandidate, SelectAndVote, AwaitFinalize, ElectUnknown, RetryRound,
       EngineDies, PublishLast
<1>4. CASE UNCHANGED vars
    BY <1>4 DEF vars
<1> QED BY <1>1, <1>2, <1>3, <1>4 DEF Next, Pass, Chain, C!Next

(* The engines, with their pools, queues, retries and unordered messages,    *)
(* implement the abstract Consensus: what is finalised is decided, and every *)
(* chain is built of the decided blocks in the order of their heights.       *)
THEOREM Refinement == Unanimous => (Spec => ImplementsConsensus)
<1> SUFFICES ASSUME Unanimous PROVE Spec => ImplementsConsensus
    OBVIOUS
<1>1. Init => C!Init
    BY DEF Init, C!Init
<1> QED
    BY <1>1, ConsensusStep, UnanimousInvariant, PTL
    DEF Spec, ImplementsConsensus, C!Spec
-----------------------------------------------------------------------------
(* A creator finalises once per height, whatever the quorum.                 *)

\* The creator of a finalised block waits for it, or is past it.
Past(f) ==
    LET p == f.cand.creator
    IN  \/ num_height[p] > f.cand.height
        \/ num_height[p] = f.cand.height /\ stage[p] = "WAIT_FOR_FINALIZE"

OnceInv ==
    /\ \A f \in finals : Past(f)
    /\ \A f, g \in finals :
           (/\ f.cand.creator = g.cand.creator
            /\ f.cand.height = g.cand.height) => f = g

LEMMA OnceStep == TypeInv /\ OnceInv /\ [Next]_vars => OnceInv'
<1> SUFFICES ASSUME TypeInv, OnceInv, [Next]_vars PROVE OnceInv'
    OBVIOUS
<1> USE DEF history
<1>t. /\ num_height \in [Node -> 1 .. MaxHeight + 1]
      /\ stage \in [Node -> Stages]
      /\ finals \in SUBSET Final
    BY DEF TypeInv, TypeOK
<1>f. \A f \in finals : f.cand.creator \in Node /\ f.cand.height \in Int
    BY <1>t DEF Final, Candidate, Heights
<1>n. \A n \in Node : num_height[n] \in Int
    BY <1>t
<1>1. ASSUME UNCHANGED <<stage, num_height, finals>> PROVE OnceInv'
    BY <1>1 DEF OnceInv, Past
<1>2. ASSUME NEW n \in Node,
             \/ \E t \in net_transaction[n] : ReceiveTransaction(n, t)
             \/ ReceiveMessage(n) \/ BeginPropose(n) \/ ReadLast(n)
             \/ ElectUnknown(n) \/ Chain(n)
      PROVE  UNCHANGED <<stage, num_height, finals>>
    BY <1>2 DEF ReceiveTransaction, ReceiveMessage, ReceiveCandidate,
       ReceiveVote, ReceiveFinalize, BeginPropose, ReadLast, ElectUnknown,
       EngineDies, Chain, FinalizeBlock, PublishLast, engineVars
<1>3. ASSUME NEW n \in Node, NewRound(n) PROVE OnceInv'
  <2>1. /\ num_height' = [num_height EXCEPT ![n] = num_height[n] + 1]
        /\ UNCHANGED finals
        /\ \A m \in Node \ {n} : stage'[m] = stage[m]
    BY <1>3, <1>t DEF NewRound, EngineDies
  <2> QED BY <2>1, <1>t, <1>f, <1>n DEF OnceInv, Past
\* An engine that is not waiting for a block leaves the finalised blocks be.
<1>4. ASSUME NEW n \in Node, stage[n] # "WAIT_FOR_FINALIZE",
             NEW s \in Stages, stage' = [stage EXCEPT ![n] = s],
             UNCHANGED <<num_height, finals>>
      PROVE  OnceInv'
    BY <1>4, <1>t, <1>f DEF OnceInv, Past
<1>5. ASSUME NEW n \in Node, CreateCandidate(n) PROVE OnceInv'
    BY <1>5, <1>4 DEF CreateCandidate, TypeInv, ProposingInv, Stages
<1>6. ASSUME NEW n \in Node,
             SelectAndVote(n) \/ AwaitFinalize(n) \/ RetryRound(n)
      PROVE  OnceInv'
    BY <1>6, <1>4 DEF SelectAndVote, AwaitFinalize, RetryRound, InStage, Stages
<1>7. ASSUME NEW n \in Node, FinalizeOwn(n) PROVE OnceInv'
  <2>1. PICK f : /\ f.cand.creator = n
                 /\ f.cand.height = num_height[n]
                 /\ finals' = finals \cup {f}
    BY <1>7 DEF FinalizeOwn, GenerateFinalize, HasQuorum
  <2>2. /\ stage[n] = "COLLECT_VOTE"
        /\ stage' = [stage EXCEPT ![n] = "WAIT_FOR_FINALIZE"]
        /\ UNCHANGED num_height
    BY <1>7 DEF FinalizeOwn, InStage
  <2>3. \A g \in finals : Past(g)' /\ (g.cand.creator = n =>
            g.cand.height # num_height[n])
    BY <2>2, <1>t, <1>f, <1>n DEF OnceInv, Past
  <2>4. Past(f)'
    BY <2>1, <2>2, <1>t DEF Past
  <2> QED BY <2>1, <2>3, <2>4 DEF OnceInv
<1>8. CASE UNCHANGED vars
    BY <1>1, <1>8 DEF vars, engineVars
<1> QED BY <1>1, <1>2, <1>3, <1>5, <1>6, <1>7, <1>8 DEF Next, Pass

(* Height, retry count, creator and transactions name a finalised block, for *)
(* any quorum and number of nodes: no creator finalises twice at a height,   *)
(* be it after a retry, with more votes or on another previous block.        *)
THEOREM NamesUnique == Spec => []NamesAreUnique
<1>1. Init => OnceInv
    BY DEF Init, OnceInv
<1>2. OnceInv => NamesAreUnique
    BY DEF OnceInv, NamesAreUnique, Id
<1> QED BY <1>1, <1>2, TypeInit, TypeStep, OnceStep, PTL DEF Spec
-----------------------------------------------------------------------------
(* The votes of a finalised block, whatever the quorum.                      *)

\* The creator c.creator has the block of c in wave r, or is past its height.
Known(c, r) ==
    LET p == c.creator
    IN  \/ num_height[p] > c.height
        \/ /\ num_height[p] = c.height
           /\ r <= num_retry_count[p]
           /\ [cand |-> c, retry |-> r] \in pool_candidate_block[p]

\* What is pooled, on its way or voted for is known to its creator.
KnownInv ==
    /\ \A n \in Node :
           \A b \in pool_candidate_block[n] \cup net_candidate[n] :
               Known(b.cand, b.retry)
    /\ \A v \in cast : Known(v.cand, v.retry)

\* A creator finds its latest copy by the hash, and gets none from the others.
OwnCopyInv ==
    \A n \in Node :
        /\ dict_index[n] \subseteq pool_candidate_block[n]
        /\ \A b \in net_candidate[n] : b.cand.creator # n
        /\ \A b \in pool_candidate_block[n] :
               b.cand.creator = n => \E d \in dict_index[n] : d.cand = b.cand
        /\ \A b \in pool_candidate_block[n], d \in dict_index[n] :
               (b.cand.creator = n /\ d.cand = b.cand) => b.retry <= d.retry

LEMMA CandidateTypes ==
    ASSUME TypeInv
    PROVE  /\ num_height \in [Node -> 1 .. MaxHeight + 1]
           /\ num_retry_count \in [Node -> Retries]
           /\ pool_candidate_block \in [Node -> SUBSET Block]
           /\ dict_index \in [Node -> SUBSET Block]
           /\ net_candidate \in [Node -> SUBSET Block]
           /\ cast \in SUBSET Vote
           /\ \A n \in Node : num_height[n] \in Int /\ num_retry_count[n] \in Int
           /\ \A c \in Candidate : c.creator \in Node /\ c.height \in Int
           /\ \A r \in Retries : r \in Int
           /\ \A b \in Block : b.cand \in Candidate /\ b.retry \in Retries
           /\ \A b \in Block : b = [cand |-> b.cand, retry |-> b.retry]
           /\ \A v \in Vote : v.cand \in Candidate /\ v.retry \in Retries
BY DEF TypeInv, TypeOK, Candidate, Heights, Retries, Block, Vote

\* The steps that change what Known looks at.
LEMMA KnownKept ==
    ASSUME TypeInv, [Next]_vars, NEW c \in Candidate, NEW r \in Retries,
           Known(c, r)
    PROVE  Known(c, r)'
<1> USE CandidateTypes DEF history
<1>1. CASE UNCHANGED <<num_height, num_retry_count, pool_candidate_block>>
    BY <1>1 DEF Known
<1>2. ASSUME NEW n \in Node, NEW b \in net_candidate[n], ReceiveCandidate(n, b)
      PROVE  Known(c, r)'
    BY <1>2 DEF ReceiveCandidate, PutCandidate, engineVars, Known
<1>3. ASSUME NEW n \in Node, NewRound(n) PROVE Known(c, r)'
  <2>1. /\ num_height' = [num_height EXCEPT ![n] = @ + 1]
        /\ UNCHANGED num_retry_count
        /\ \A m \in Node \ {n} :
               pool_candidate_block'[m] = pool_candidate_block[m]
    BY <1>3 DEF NewRound
  <2> QED BY <2>1 DEF Known
<1>4. ASSUME NEW n \in Node, CreateCandidate(n) PROVE Known(c, r)'
    BY <1>4 DEF CreateCandidate, PutCandidate, Known
<1>5. ASSUME NEW n \in Node, RetryRound(n) PROVE Known(c, r)'
    BY <1>5 DEF RetryRound, poolVars, Known
<1>6. ASSUME NEW n \in Node,
             \/ \E t \in net_transaction[n] : ReceiveTransaction(n, t)
             \/ \E v \in net_vote[n] : ReceiveVote(n, v)
             \/ \E f \in net_finalize[n] : ReceiveFinalize(n, f)
             \/ BeginPropose(n) \/ ReadLast(n) \/ SelectAndVote(n)
             \/ FinalizeOwn(n) \/ AwaitFinalize(n) \/ ElectUnknown(n)
             \/ Chain(n)
      PROVE  UNCHANGED <<num_height, num_retry_count, pool_candidate_block>>
    BY <1>6 DEF ReceiveTransaction, ReceiveVote, ReceiveFinalize, BeginPropose,
       ReadLast, SelectAndVote, FinalizeOwn, AwaitFinalize, ElectUnknown,
       EngineDies, Chain, FinalizeBlock, PublishLast, engineVars, poolVars
<1>7. CASE UNCHANGED vars
    BY <1>1, <1>7 DEF vars, engineVars, poolVars
<1> QED BY <1>1, <1>2, <1>3, <1>4, <1>5, <1>6, <1>7
        DEF Next, Pass, ReceiveMessage

\* The blocks and votes that a step adds.
LEMMA KnownStep == TypeInv /\ KnownInv /\ [Next]_vars => KnownInv'
<1> SUFFICES ASSUME TypeInv, KnownInv, [Next]_vars PROVE KnownInv'
    OBVIOUS
<1> USE CandidateTypes DEF history, netVars
<1>1. /\ \A n \in Node :
             \A b \in pool_candidate_block[n] \cup net_candidate[n] :
                 Known(b.cand, b.retry)'
      /\ \A v \in cast : Known(v.cand, v.retry)'
    BY KnownKept DEF KnownInv
<1>2. ASSUME \A n \in Node :
                 /\ pool_candidate_block'[n] \subseteq
                        pool_candidate_block[n] \cup net_candidate[n]
                 /\ net_candidate'[n] \subseteq net_candidate[n],
             cast' = cast
      PROVE  KnownInv'
    BY <1>1, <1>2 DEF KnownInv
<1>3. ASSUME NEW n \in Node, NEW b \in net_candidate[n], ReceiveCandidate(n, b)
      PROVE  KnownInv'
  <2>1. /\ \A m \in Node :
               /\ pool_candidate_block'[m] \subseteq
                      pool_candidate_block[m] \cup net_candidate[m]
               /\ net_candidate'[m] \subseteq net_candidate[m]
        /\ cast' = cast
    BY <1>3 DEF ReceiveCandidate, Received, PutCandidate
  <2> QED BY <1>2, <2>1
<1>4. ASSUME NEW n \in Node, NewRound(n) PROVE KnownInv'
  <2>1. /\ \A m \in Node :
               /\ pool_candidate_block'[m] \subseteq pool_candidate_block[m]
               /\ net_candidate'[m] = net_candidate[m]
        /\ cast' = cast
    BY <1>4 DEF NewRound, EngineDies, OfWave
  <2> QED BY <1>2, <2>1
<1>5. ASSUME NEW n \in Node, CreateCandidate(n) PROVE KnownInv'
  <2> PICK b : b = GenerateCandidate(n)
    OBVIOUS
  <2>1. /\ b.cand.creator = n /\ b.cand.height = num_height[n]
        /\ b.retry = num_retry_count[n]
        /\ b = [cand |-> b.cand, retry |-> b.retry]
    BY DEF GenerateCandidate
  <2>2. /\ pool_candidate_block' =
               [pool_candidate_block EXCEPT ![n] = @ \cup {b}]
        /\ net_candidate' = Broadcast(net_candidate, n, b)
        /\ UNCHANGED <<num_height, num_retry_count, cast>>
    BY <1>5 DEF CreateCandidate, PutCandidate
  <2>3. Known(b.cand, b.retry)'
    BY <2>1, <2>2 DEF Known
  <2>4. \A m \in Node :
            pool_candidate_block'[m] \cup net_candidate'[m] \subseteq
                pool_candidate_block[m] \cup net_candidate[m] \cup {b}
    BY <2>2 DEF Broadcast
  <2> QED BY <1>1, <2>2, <2>3, <2>4 DEF KnownInv
<1>6. ASSUME NEW n \in Node, SelectAndVote(n) PROVE KnownInv'
  <2>1. PICK c \in StageList(n) :
            cast' = cast \cup {VoteFor(c, num_retry_count[n], n)}
    BY <1>6, SelectType DEF SelectAndVote, CreateVote, VoteFor
  <2>2. UNCHANGED <<pool_candidate_block, net_candidate>>
    BY <1>6 DEF SelectAndVote
  <2>3. PICK b \in pool_candidate_block[n] :
            b.cand = c /\ b.retry = num_retry_count[n]
    BY <2>1 DEF StageList
  <2>4. /\ VoteFor(c, num_retry_count[n], n).cand = b.cand
        /\ VoteFor(c, num_retry_count[n], n).retry = b.retry
    BY <2>3 DEF VoteFor
  <2> QED BY <1>1, <2>1, <2>2, <2>4 DEF KnownInv
<1>7. ASSUME NEW n \in Node,
             \/ \E t \in net_transaction[n] : ReceiveTransaction(n, t)
             \/ \E v \in net_vote[n] : ReceiveVote(n, v)
             \/ \E f \in net_finalize[n] : ReceiveFinalize(n, f)
             \/ BeginPropose(n) \/ ReadLast(n) \/ FinalizeOwn(n)
             \/ AwaitFinalize(n) \/ ElectUnknown(n) \/ RetryRound(n)
             \/ Chain(n)
      PROVE  UNCHANGED <<pool_candidate_block, net_candidate, cast>>
    BY <1>7 DEF ReceiveTransaction, ReceiveVote, ReceiveFinalize, BeginPropose,
       ReadLast, FinalizeOwn, AwaitFinalize, ElectUnknown, RetryRound,
       EngineDies, Chain, FinalizeBlock, PublishLast, poolVars
<1>8. CASE UNCHANGED vars
    BY <1>2, <1>8 DEF vars, poolVars
<1> QED BY <1>2, <1>3, <1>4, <1>5, <1>6, <1>7, <1>8
        DEF Next, Pass, ReceiveMessage

LEMMA OwnCopyStep ==
    TypeInv /\ KnownInv /\ OwnCopyInv /\ [Next]_vars => OwnCopyInv'
<1> SUFFICES ASSUME TypeInv, KnownInv, OwnCopyInv, [Next]_vars
             PROVE  OwnCopyInv'
    OBVIOUS
<1> USE CandidateTypes DEF history, netVars
<1>1. CASE UNCHANGED <<pool_candidate_block, dict_index, net_candidate>>
    BY <1>1 DEF OwnCopyInv
<1>2. ASSUME NEW n \in Node, NEW b \in net_candidate[n], ReceiveCandidate(n, b)
      PROVE  OwnCopyInv'
  <2>1. /\ pool_candidate_block' =
               [pool_candidate_block EXCEPT ![n] = @ \cup {b}]
        /\ dict_index' = [dict_index EXCEPT ![n] =
                              {c \in @ : c.cand # b.cand} \cup {b}]
        /\ net_candidate' = [net_candidate EXCEPT ![n] = @ \ {b}]
    BY <1>2 DEF ReceiveCandidate, PutCandidate, Received
  <2>2. b.cand.creator # n
    BY DEF OwnCopyInv
  <2> QED BY <2>1, <2>2 DEF OwnCopyInv
<1>3. ASSUME NEW n \in Node, NewRound(n) PROVE OwnCopyInv'
  <2> DEFINE kept == OfWave(pool_candidate_block[n], num_height[n] + 1,
                            num_retry_count[n])
  <2>1. /\ pool_candidate_block' = [pool_candidate_block EXCEPT ![n] = kept]
        /\ dict_index' = [dict_index EXCEPT ![n] = kept]
        /\ UNCHANGED net_candidate
    BY <1>3 DEF NewRound, EngineDies
  <2>2. \A b \in kept : b \in pool_candidate_block[n]
                            /\ b.cand.height = num_height[n] + 1
    BY DEF OfWave
  <2>3. \A b \in kept : b.cand.creator # n
    BY <2>2 DEF KnownInv, Known
  <2> HIDE DEF kept
  <2> QED BY <2>1, <2>3 DEF OwnCopyInv
<1>4. ASSUME NEW n \in Node, CreateCandidate(n) PROVE OwnCopyInv'
  <2> DEFINE b == GenerateCandidate(n)
  <2>1. /\ b.cand.creator = n /\ b.cand.height = num_height[n]
        /\ b.retry = num_retry_count[n]
    BY DEF GenerateCandidate
  <2>2. /\ pool_candidate_block' =
               [pool_candidate_block EXCEPT ![n] = @ \cup {b}]
        /\ dict_index' = [dict_index EXCEPT ![n] =
                              {c \in @ : c.cand # b.cand} \cup {b}]
        /\ net_candidate' = Broadcast(net_candidate, n, b)
    BY <1>4 DEF CreateCandidate, PutCandidate
  <2> HIDE DEF b
  <2>3. \A d \in pool_candidate_block[n] : d.cand = b.cand => d.retry <= b.retry
    BY <2>1 DEF KnownInv, Known
  <2>4. \A m \in Node : \A d \in net_candidate'[m] : d.cand.creator # m
    BY <2>1, <2>2 DEF Broadcast, OwnCopyInv
  <2>5. \A m \in Node \ {n} :
            /\ pool_candidate_block'[m] = pool_candidate_block[m]
            /\ dict_index'[m] = dict_index[m]
    BY <2>2
  <2>6. /\ pool_candidate_block'[n] = pool_candidate_block[n] \cup {b}
        /\ dict_index'[n] = {c \in dict_index[n] : c.cand # b.cand} \cup {b}
    BY <2>2
  <2>7. /\ dict_index'[n] \subseteq pool_candidate_block'[n]
        /\ \A d \in pool_candidate_block'[n] :
               d.cand.creator = n => \E e \in dict_index'[n] : e.cand = d.cand
    BY <2>6 DEF OwnCopyInv
  <2>8. \A d \in pool_candidate_block'[n], e \in dict_index'[n] :
            (d.cand.creator = n /\ e.cand = d.cand) => d.retry <= e.retry
    BY <2>1, <2>3, <2>6 DEF OwnCopyInv
  <2> QED BY <2>4, <2>5, <2>7, <2>8 DEF OwnCopyInv
<1>5. ASSUME NEW n \in Node,
             \/ \E t \in net_transaction[n] : ReceiveTransaction(n, t)
             \/ \E v \in net_vote[n] : ReceiveVote(n, v)
             \/ \E f \in net_finalize[n] : ReceiveFinalize(n, f)
             \/ BeginPropose(n) \/ ReadLast(n) \/ SelectAndVote(n)
             \/ FinalizeOwn(n) \/ AwaitFinalize(n) \/ ElectUnknown(n)
             \/ RetryRound(n) \/ Chain(n)
      PROVE  UNCHANGED <<pool_candidate_block, dict_index, net_candidate>>
    BY <1>5 DEF ReceiveTransaction, ReceiveVote, ReceiveFinalize, BeginPropose,
       ReadLast, SelectAndVote, FinalizeOwn, AwaitFinalize, ElectUnknown,
       RetryRound, EngineDies, Chain, FinalizeBlock, PublishLast, poolVars
<1>6. CASE UNCHANGED vars
    BY <1>1, <1>6 DEF vars, poolVars
<1> QED BY <1>1, <1>2, <1>3, <1>4, <1>5, <1>6 DEF Next, Pass, ReceiveMessage

\* What an engine elects that is its own is of the wave it is in.
LEMMA ElectsOfItsWave ==
    ASSUME TypeInv, SelectedInv, VotesReal, KnownInv, OwnCopyInv,
           NEW n \in Node, InStage(n, "COLLECT_VOTE"),
           NEW c \in Candidate, c.creator = n, HasQuorum(n, c)
    PROVE  Elected(n, c).retry = num_retry_count[n]
<1> USE CandidateTypes
<1>1. CASE selected[n].cand = c
    BY <1>1 DEF Elected, SelectedInv, InStage
<1>2. CASE selected[n].cand # c
  <2>1. Voters(n, c) # {}
    <3>1. Cardinality({}) = 0 /\ NumQuorum \in Nat \ {0}
      BY FS_EmptySet, BoundAssumption
    <3>2. Cardinality(Voters(n, c)) >= NumQuorum
      BY DEF HasQuorum
    <3>3. Cardinality(Voters(n, c)) # Cardinality({})
      BY <3>1, <3>2
    <3> QED BY <3>3, Zenon
  <2>2. PICK v \in pool_vote[n] : v.cand = c /\ v.retry = num_retry_count[n]
    BY <2>1 DEF Voters
  <2>3. Known(c, num_retry_count[n])
    BY <2>2 DEF VotesReal, KnownInv
  <2>4. PICK b \in pool_candidate_block[n] :
            b.cand = c /\ b.retry = num_retry_count[n]
    BY <2>3 DEF Known, HasQuorum
  <2>5. PICK d : d = GetData(n, c)
    OBVIOUS
  <2>6. d \in dict_index[n] /\ d.cand = c
    BY <2>4, <2>5 DEF OwnCopyInv, GetData
  <2>7. num_retry_count[n] <= d.retry
    BY <2>4, <2>6 DEF OwnCopyInv
  <2>8. d \in pool_candidate_block[n] /\ Known(d.cand, d.retry)
    BY <2>6 DEF OwnCopyInv, KnownInv
  <2>9. d.retry <= num_retry_count[n]
    BY <2>6, <2>8 DEF Known, HasQuorum
  <2> QED BY <1>2, <2>5, <2>6, <2>7, <2>8, <2>9 DEF Elected
<1> QED BY <1>1, <1>2

LEMMA CertifiedStep ==
    (/\ TypeInv /\ SelectedInv /\ VotesReal /\ KnownInv /\ OwnCopyInv
     /\ Certified /\ [Next]_vars)
        => Certified'
<1> SUFFICES ASSUME TypeInv, SelectedInv, VotesReal, KnownInv, OwnCopyInv,
                    Certified, [Next]_vars
             PROVE  Certified'
    OBVIOUS
<1> USE DEF history
<1>1. ASSUME finals' = finals, cast \subseteq cast' PROVE Certified'
    BY <1>1 DEF Certified, Supporters
<1>2. ASSUME NEW n \in Node, FinalizeOwn(n) PROVE Certified'
  <2>1. PICK c \in {v.cand : v \in pool_vote[n]} :
            /\ HasQuorum(n, c) /\ c.creator = n
            /\ finals' = finals \cup {GenerateFinalize(n, c)}
    BY <1>2 DEF FinalizeOwn
  <2>2. InStage(n, "COLLECT_VOTE") /\ cast' = cast
    BY <1>2 DEF FinalizeOwn
  <2>3. c \in Candidate
    BY <2>1 DEF TypeInv, TypeOK, Vote
  <2>4. Elected(n, c).retry = num_retry_count[n]
    BY <2>1, <2>2, <2>3, ElectsOfItsWave
  <2>5. PICK f : f = GenerateFinalize(n, c)
    OBVIOUS
  <2>6. f.cand = c /\ f.retry = num_retry_count[n] /\ f.votes = Voters(n, c)
    BY <2>4, <2>5 DEF GenerateFinalize
  <2>7. Cardinality(f.votes) >= NumQuorum
    BY <2>1, <2>6 DEF HasQuorum
  <2>8. f.votes \subseteq Supporters(f.cand, f.retry)
    BY <2>6 DEF Voters, Supporters, VotesReal
  <2>9. Supporters(f.cand, f.retry)' = Supporters(f.cand, f.retry)
    BY <2>2 DEF Supporters
  <2> QED BY <2>1, <2>2, <2>5, <2>7, <2>8 DEF Certified, Supporters
<1>3. ASSUME NEW n \in Node, SelectAndVote(n) PROVE Certified'
    BY <1>1, <1>3 DEF SelectAndVote
<1>4. ASSUME NEW n \in Node,
             \/ \E t \in net_transaction[n] : ReceiveTransaction(n, t)
             \/ ReceiveMessage(n) \/ NewRound(n) \/ BeginPropose(n)
             \/ ReadLast(n) \/ CreateCandidate(n) \/ AwaitFinalize(n)
             \/ ElectUnknown(n) \/ RetryRound(n) \/ Chain(n)
      PROVE  UNCHANGED <<finals, cast>>
    BY <1>4 DEF ReceiveTransaction, ReceiveMessage, ReceiveCandidate,
       ReceiveVote, ReceiveFinalize, NewRound, BeginPropose, ReadLast,
       CreateCandidate, AwaitFinalize, ElectUnknown, RetryRound, EngineDies,
       Chain, FinalizeBlock, PublishLast
<1>5. CASE UNCHANGED vars
    BY <1>1, <1>5 DEF vars
<1> QED BY <1>1, <1>2, <1>3, <1>4, <1>5 DEF Next, Pass

(* A finalised block carries a quorum of votes, each of which its voter made *)
(* for that candidate in that wave, whatever the quorum and the number of    *)
(* retries: of the copies of a candidate in several waves, create_finalize_  *)
(* block completes the one of the wave whose votes it has counted.           *)
THEOREM FinalsCertified == Spec => []Certified
<1> DEFINE Inv == /\ TypeInv /\ SelectedInv /\ VotesReal
                  /\ KnownInv /\ OwnCopyInv /\ Certified
<1>1. Init => Inv
    BY TypeInit, UnanimousInit
    DEF Init, UnanimousInv, KnownInv, OwnCopyInv, Certified
<1>2. Inv /\ [Next]_vars => Inv'
    BY TypeStep, SelectedStep, VotesRealStep, KnownStep, OwnCopyStep,
       CertifiedStep
<1>3. Inv => Certified
    OBVIOUS
<1> HIDE DEF Inv
<1> QED BY <1>1, <1>2, <1>3, PTL DEF Spec

-----------------------------------------------------------------------------
(* The order in which finalised blocks reach the chains, when the quorum is  *)
(* all the nodes.                                                            *)

\* An engine is at most one height past its chain, and at most one finalised
\* block is on its way to a chain, in one copy: the block of its next height.
DeliveredInv ==
    \A n \in Node :
        /\ num_height[n] <= Len(blocks[n]) + 1
        /\ \A f \in net_finalize[n] :
               f.cand.height = Len(blocks[n]) + 1 /\ chain_queue[n] = <<>>
        /\ chain_queue[n] # <<>> =>
               /\ Len(chain_queue[n]) = 1
               /\ Head(chain_queue[n]).cand.height = Len(blocks[n]) + 1

\* All the nodes voted for a finalised block, so all have come to its height.
LEMMA FinalsReached ==
    Before => \A f \in finals, n \in Node : f.cand.height <= num_height[n]
<1> SUFFICES ASSUME Before, NEW f \in finals, NEW n \in Node
             PROVE  f.cand.height <= num_height[n]
    OBVIOUS
<1> DEFINE v == VoteFor(f.cand, f.retry, n)
<1>1. v \in cast
    BY DEF Before, UnanimousInv, FinalInv
<1>2. v.cand = f.cand /\ v.creator = n
    BY DEF VoteFor
<1> HIDE DEF v
<1>3. VotePast(v)
    BY <1>1 DEF Before, VoteInv
<1>4. num_height[n] \in Int /\ f.cand.height \in Int
    BY DEF Before, TypeInv, TypeOK, Final, Candidate, Heights
<1> QED BY <1>2, <1>3, <1>4 DEF VotePast

LEMMA DeliveredStep ==
    Unanimous /\ Before /\ DeliveredInv /\ [Next]_vars => DeliveredInv'
<1> SUFFICES ASSUME Unanimous, Before, DeliveredInv, [Next]_vars
             PROVE  DeliveredInv'
    OBVIOUS
<1> USE DEF history, netVars, chainVars, engineVars
<1>t. /\ num_height \in [Node -> 1 .. MaxHeight + 1]
      /\ net_finalize \in [Node -> SUBSET Final]
      /\ chain_queue \in [Node -> Seq(Final)]
      /\ blocks \in [Node -> Seq(Final)]
    BY DEF Before, TypeInv, TypeOK
<1>n. \A n \in Node : num_height[n] \in Int /\ Len(blocks[n]) \in Nat
    BY <1>t
<1>1. CASE UNCHANGED <<num_height, net_finalize, chain_queue, blocks>>
    BY <1>1 DEF DeliveredInv
<1>2. ASSUME NEW n \in Node, NEW f \in net_finalize[n], ReceiveFinalize(n, f)
      PROVE  DeliveredInv'
  <2>1. /\ net_finalize' = [net_finalize EXCEPT ![n] = @ \ {f}]
        /\ chain_queue' = [chain_queue EXCEPT ![n] = Append(@, f)]
        /\ UNCHANGED <<num_height, blocks>>
    BY <1>2 DEF ReceiveFinalize, Received
  <2>2. f.cand.height = Len(blocks[n]) + 1 /\ chain_queue[n] = <<>>
    BY DEF DeliveredInv
  <2>3. \A g \in net_finalize[n] : g = f
    <3>1. \A g \in net_finalize[n] :
              g \in finals /\ g.cand.height = f.cand.height
      BY <2>2 DEF DeliveredInv, Before, UnanimousInv, FinalsReal
    <3> QED BY <3>1, OneFinal DEF OneFinalPerHeight
  <2>4. /\ net_finalize'[n] = {}
        /\ chain_queue'[n] = <<f>>
        /\ \A m \in Node \ {n} : /\ net_finalize'[m] = net_finalize[m]
                                 /\ chain_queue'[m] = chain_queue[m]
    BY <2>1, <2>2, <2>3, <1>t
  <2>5. Len(<<f>>) = 1 /\ Head(<<f>>) = f
    OBVIOUS
  <2> QED BY <2>1, <2>2, <2>4, <2>5 DEF DeliveredInv
<1>3. ASSUME NEW n \in Node, FinalizeOwn(n) PROVE DeliveredInv'
  <2>1. PICK c :
            LET f == GenerateFinalize(n, c)
            IN  /\ HasQuorum(n, c)
                /\ c.creator = n
                /\ net_finalize' = Broadcast(net_finalize, n, f)
                /\ chain_queue' = [chain_queue EXCEPT ![n] = Append(@, f)]
    BY <1>3 DEF FinalizeOwn
  <2>2. /\ engine[n] = "up" /\ stage[n] = "COLLECT_VOTE"
        /\ UNCHANGED <<num_height, blocks>>
    BY <1>3 DEF FinalizeOwn, InStage
  <2>3. /\ c.height = num_height[n]
        /\ \A m \in Node : VoteFor(c, num_retry_count[n], m) \in cast
    BY <2>1, <2>2, UnanimousQuorum
  <2>4. \A m \in Node : num_height[n] <= num_height[m]
    <3> SUFFICES ASSUME NEW m \in Node PROVE num_height[n] <= num_height[m]
      OBVIOUS
    <3> DEFINE v == VoteFor(c, num_retry_count[n], m)
    <3>1. v.creator = m /\ v.cand.height = num_height[n]
      BY <2>3 DEF VoteFor
    <3>2. v \in cast
      BY <2>3
    <3> HIDE DEF v
    <3>3. VotePast(v)
      BY <3>2 DEF Before, VoteInv
    <3> QED BY <3>1, <3>3, <1>n DEF VotePast
  \* Another block of this height would be one of this creator, who waits.
  <2>5. \A g \in finals : g.cand.height # num_height[n]
    <3> SUFFICES ASSUME NEW g \in finals, g.cand.height = num_height[n]
                 PROVE  FALSE
      OBVIOUS
    <3> DEFINE v == VoteFor(g.cand, g.retry, n)
               p == g.cand.creator
               w == VoteFor(c, num_retry_count[n], p)
    <3>1. v \in cast /\ p \in Node
      BY <1>t DEF Before, TypeInv, TypeOK, UnanimousInv, FinalInv, Final,
         Candidate
    <3>2. w \in cast
      BY <2>3, <3>1
    <3>3. /\ v.creator = n /\ v.cand = g.cand /\ v.retry = g.retry
          /\ w.creator = p /\ w.cand = c /\ w.retry = num_retry_count[n]
      BY DEF VoteFor
    <3> HIDE DEF v, w
    <3>4. w.retry <= g.retry
      BY <3>2, <3>3, <2>3 DEF Before, UnanimousInv, FinalInv
    <3>t. num_retry_count[n] \in Int /\ g.retry \in Int
      BY BoundAssumption DEF Before, TypeInv, TypeOK, Retries, Final
    <3>p. VotePast(v)
      BY <3>1 DEF Before, VoteInv
    <3>5. v.retry <= num_retry_count[n]
      BY <3>3, <3>t, <3>p, <1>n DEF VotePast
    <3>6. v.retry = w.retry
      BY <3>3, <3>4, <3>5, <3>t
    <3>7. g.cand = c
      <4> DEFINE u == VoteFor(g.cand, g.retry, p)
      <4>1. u \in cast
        BY <3>1 DEF Before, UnanimousInv, FinalInv
      <4>2. u.creator = p /\ u.cand = g.cand /\ u.retry = g.retry
        BY DEF VoteFor
      <4> HIDE DEF u
      <4>3. u = w
        BY <4>1, <4>2, <3>2, <3>3, <3>6, <2>3
        DEF Before, VoteInv, VoteOncePerWave
      <4> QED BY <4>2, <4>3, <3>3
    <3>8. num_height[n] > g.cand.height \/ stage[n] = "WAIT_FOR_FINALIZE"
      BY <2>1, <3>7 DEF Before, UnanimousInv, FinalInv
    <3> QED BY <3>8, <2>2, <1>n
  <2>6. ASSUME NEW m \in Node
        PROVE  /\ Len(blocks[m]) + 1 = num_height[n]
               /\ net_finalize[m] = {} /\ chain_queue[m] = <<>>
    <3>1. Len(blocks[m]) < num_height[n]
      <4> SUFFICES ASSUME Len(blocks[m]) >= num_height[n] PROVE FALSE
        BY <1>n
      <4>1. num_height[n] \in 1 .. Len(blocks[m])
        BY <1>t, <1>n
      <4>2. blocks[m] \in Seq(finals)
        BY DEF Before, UnanimousInv, FinalsReal
      <4>3. /\ blocks[m][num_height[n]] \in finals
            /\ blocks[m][num_height[n]].cand.height = num_height[n]
        BY <4>1, <4>2 DEF Before, UnanimousInv, FinalsReal
      <4> QED BY <4>3, <2>5
    <3>2. Len(blocks[m]) + 1 = num_height[n]
      BY <3>1, <2>4, <1>n DEF DeliveredInv
    <3>3. net_finalize[m] = {}
      BY <3>2, <2>5 DEF DeliveredInv, Before, UnanimousInv, FinalsReal
    <3>4. chain_queue[m] = <<>>
      <4> SUFFICES ASSUME chain_queue[m] # <<>> PROVE FALSE
        OBVIOUS
      <4>1. Head(chain_queue[m]) \in finals
        BY DEF Before, UnanimousInv, FinalsReal
      <4> QED BY <4>1, <3>2, <2>5 DEF DeliveredInv
    <3> QED BY <3>2, <3>3, <3>4
  <2> DEFINE f == GenerateFinalize(n, c)
  <2>7. f.cand.height = num_height[n]
    BY <2>3 DEF GenerateFinalize
  <2>8. /\ net_finalize' = Broadcast(net_finalize, n, f)
        /\ chain_queue' = [chain_queue EXCEPT ![n] = Append(@, f)]
    BY <2>1
  <2> HIDE DEF f
  <2>9. /\ net_finalize'[n] = {} /\ chain_queue'[n] = <<f>>
        /\ \A m \in Node \ {n} : /\ net_finalize'[m] = {f}
                                 /\ chain_queue'[m] = <<>>
    <3>1. \A m \in Node : net_finalize[m] = {} /\ chain_queue[m] = <<>>
      BY <2>6
    <3>2. net_finalize' = [p \in Node |-> IF p = n THEN {} ELSE {f}]
      BY <2>8, <3>1 DEF Broadcast
    <3>3. Append(<<>>, f) = <<f>>
      OBVIOUS
    <3>4. chain_queue' = [chain_queue EXCEPT ![n] = <<f>>]
      BY <2>8, <3>1, <3>3
    <3> QED BY <3>1, <3>2, <3>4, <1>t
  <2>10. Len(<<f>>) = 1 /\ Head(<<f>>) = f
    OBVIOUS
  <2>11. ASSUME NEW m \in Node
         PROVE  /\ num_height'[m] <= Len(blocks'[m]) + 1
                /\ \A g \in net_finalize'[m] :
                       /\ g.cand.height = Len(blocks'[m]) + 1
                       /\ chain_queue'[m] = <<>>
                /\ chain_queue'[m] # <<>> =>
                       /\ Len(chain_queue'[m]) = 1
                       /\ Head(chain_queue'[m]).cand.height
                              = Len(blocks'[m]) + 1
    <3>1. num_height'[m] = num_height[m] /\ blocks'[m] = blocks[m]
      BY <2>2
    <3>2. num_height[m] <= Len(blocks[m]) + 1
      BY DEF DeliveredInv
    <3>3. Len(blocks[m]) + 1 = num_height[n]
      BY <2>6
    <3>4. CASE m = n
      BY <3>1, <3>2, <3>3, <3>4, <2>7, <2>9, <2>10
    <3>5. CASE m # n
      BY <3>1, <3>2, <3>3, <3>5, <2>7, <2>9
    <3> QED BY <3>4, <3>5
  <2> QED BY <2>11 DEF DeliveredInv
<1>4. ASSUME NEW n \in Node, FinalizeBlock(n) PROVE DeliveredInv'
  <2> DEFINE f == Head(chain_queue[n])
  <2>1. /\ chain_queue[n] # <<>>
        /\ chain_queue' = [chain_queue EXCEPT ![n] = Tail(@)]
        /\ UNCHANGED <<num_height, net_finalize>>
    BY <1>4 DEF FinalizeBlock
  <2>2. Len(chain_queue[n]) = 1 /\ net_finalize[n] = {}
    BY <2>1 DEF DeliveredInv
  <2>3. Tail(chain_queue[n]) = <<>>
    <3>1. chain_queue[n] \in Seq(Final)
      BY <1>t
    <3>2. /\ Tail(chain_queue[n]) \in Seq(Final)
          /\ Len(Tail(chain_queue[n])) = 0
      BY <2>1, <2>2, <3>1
    <3>3. \A s \in Seq(Final) : Len(s) = 0 => s = <<>>
      OBVIOUS
    <3> QED BY <3>2, <3>3
  <2>4. /\ chain_queue'[n] = <<>>
        /\ \A m \in Node \ {n} : chain_queue'[m] = chain_queue[m]
    BY <2>1, <2>3, <1>t
  <2>5. \/ UNCHANGED blocks
        \/ blocks' = [blocks EXCEPT ![n] = Append(@, f)]
    BY <1>4 DEF FinalizeBlock
  <2>6. f \in Final
    BY <2>1, <1>t
  <2> HIDE DEF f
  <2>7. /\ Len(blocks[n]) <= Len(blocks'[n])
        /\ \A m \in Node \ {n} : blocks'[m] = blocks[m]
        /\ Len(blocks'[n]) \in Nat
    BY <2>5, <2>6, <1>t
  <2>8. ASSUME NEW m \in Node
        PROVE  /\ num_height[m] <= Len(blocks'[m]) + 1
               /\ \A g \in net_finalize[m] :
                      /\ g.cand.height = Len(blocks'[m]) + 1
                      /\ chain_queue'[m] = <<>>
               /\ chain_queue'[m] # <<>> =>
                      /\ Len(chain_queue'[m]) = 1
                      /\ Head(chain_queue'[m]).cand.height
                             = Len(blocks'[m]) + 1
    <3>1. CASE m = n
      <4>1. num_height[n] <= Len(blocks[n]) + 1
        BY DEF DeliveredInv
      <4> QED BY <3>1, <4>1, <2>2, <2>4, <2>7, <1>n
    <3>2. CASE m # n
      <4>1. /\ chain_queue'[m] = chain_queue[m]
            /\ blocks'[m] = blocks[m]
        BY <3>2, <2>4, <2>7
      <4> QED BY <4>1 DEF DeliveredInv
    <3> QED BY <3>1, <3>2
  <2> QED BY <2>1, <2>8 DEF DeliveredInv
<1>5. ASSUME NEW n \in Node, NewRound(n) PROVE DeliveredInv'
  <2>1. /\ num_height' = [num_height EXCEPT ![n] = num_height[n] + 1]
        /\ num_height[n] < Len(blocks[n]) + 1
        /\ UNCHANGED <<net_finalize, chain_queue, blocks>>
    BY <1>5 DEF NewRound, EngineDies, DiffHeight
  <2> QED BY <2>1, <1>t, <1>n DEF DeliveredInv
<1>6. ASSUME NEW n \in Node,
             \/ \E t \in net_transaction[n] : ReceiveTransaction(n, t)
             \/ \E b \in net_candidate[n] : ReceiveCandidate(n, b)
             \/ \E v \in net_vote[n] : ReceiveVote(n, v)
             \/ BeginPropose(n) \/ ReadLast(n) \/ CreateCandidate(n)
             \/ SelectAndVote(n) \/ AwaitFinalize(n) \/ ElectUnknown(n)
             \/ RetryRound(n) \/ PublishLast(n)
      PROVE  UNCHANGED <<num_height, net_finalize, chain_queue, blocks>>
    BY <1>6 DEF ReceiveTransaction, ReceiveCandidate, ReceiveVote,
       BeginPropose, ReadLast, CreateCandidate, SelectAndVote, AwaitFinalize,
       ElectUnknown, RetryRound, EngineDies, PublishLast
<1>7. CASE UNCHANGED vars
    BY <1>1, <1>7 DEF vars
<1> QED
    BY <1>1, <1>2, <1>3, <1>4, <1>5, <1>6, <1>7
    DEF Next, Pass, Chain, ReceiveMessage

LEMMA DeliveredInvariant == Unanimous => (Spec => [](Before /\ DeliveredInv))
<1> SUFFICES ASSUME Unanimous PROVE Spec => [](Before /\ DeliveredInv)
    OBVIOUS
<1>1. Init => DeliveredInv
    BY DEF Init, DeliveredInv
<1>2. Before /\ DeliveredInv /\ [Next]_vars => DeliveredInv'
    BY DeliveredStep
<1> QED BY <1>1, <1>2, UnanimousInvariant, PTL DEF Spec

(* No BlockChain gets a finalised block before its predecessor or twice, in  *)
(* whatever order the sender threads deliver them: when the quorum is all    *)
(* the nodes, a block is finalised only when all chains have come to it.     *)
THEOREM InOrder == Unanimous => (Spec => []HeightsInOrder)
<1> SUFFICES ASSUME Unanimous PROVE Spec => []HeightsInOrder
    OBVIOUS
<1>1. Init => HeightsInOrder
    BY DEF Init, HeightsInOrder
<1>2. Before /\ DeliveredInv /\ HeightsInOrder /\ [Next]_vars => HeightsInOrder'
  <2> SUFFICES ASSUME Before, DeliveredInv, HeightsInOrder, [Next]_vars
               PROVE  HeightsInOrder'
    OBVIOUS
  <2> USE DEF history, chainVars
  <2>t. chain_thread \in
            [Node -> {"idle", "publishing", "bad_height", "bad_prev"}]
    BY DEF Before, TypeInv, TypeOK
  <2>1. ASSUME NEW n \in Node, FinalizeBlock(n) PROVE HeightsInOrder'
    <3>1. Head(chain_queue[n]).cand.height = Len(blocks[n]) + 1
      BY <2>1 DEF FinalizeBlock, DeliveredInv
    <3>2. \E e \in {"publishing", "bad_prev"} :
              chain_thread' = [chain_thread EXCEPT ![n] = e]
      BY <2>1, <3>1 DEF FinalizeBlock
    <3> QED BY <3>2, <2>t DEF HeightsInOrder
  <2>2. ASSUME NEW n \in Node, PublishLast(n) PROVE HeightsInOrder'
    BY <2>2, <2>t DEF PublishLast, HeightsInOrder
  <2>3. ASSUME NEW n \in Node,
               \/ \E t \in net_transaction[n] : ReceiveTransaction(n, t)
               \/ ReceiveMessage(n) \/ Pass(n)
        PROVE  UNCHANGED chain_thread
    BY <2>3 DEF ReceiveTransaction, ReceiveMessage, ReceiveCandidate,
       ReceiveVote, ReceiveFinalize, Pass, NewRound, BeginPropose, ReadLast,
       CreateCandidate, SelectAndVote, FinalizeOwn, AwaitFinalize,
       ElectUnknown, RetryRound, EngineDies
  <2>4. CASE UNCHANGED chain_thread
    BY <2>4 DEF HeightsInOrder
  <2> QED BY <2>1, <2>2, <2>3, <2>4 DEF Next, Chain, vars
<1> QED BY <1>1, <1>2, DeliveredInvariant, PTL DEF Spec

(* No chain is more than one block behind another: a block is finalised only *)
(* with the votes of all the nodes, and a node votes at a height when its    *)
(* chain has all the blocks below.                                           *)
THEOREM InLockstep == Unanimous => (Spec => []Lockstep)
<1> SUFFICES ASSUME Unanimous PROVE Spec => []Lockstep
    OBVIOUS
<1>1. Before /\ DeliveredInv => Lockstep
  <2> SUFFICES ASSUME Before, DeliveredInv, NEW m \in Node, NEW n \in Node
               PROVE  Len(blocks[m]) <= Len(blocks[n]) + 1
    BY DEF Lockstep
  <2>1. blocks[m] \in Seq(finals) /\ blocks[n] \in Seq(finals)
    BY DEF Before, UnanimousInv, FinalsReal
  <2>2. CASE Len(blocks[m]) = 0
    BY <2>1, <2>2
  <2>3. CASE Len(blocks[m]) # 0
    <3> DEFINE f == blocks[m][Len(blocks[m])]
    <3>1. Len(blocks[m]) \in 1 .. Len(blocks[m])
      BY <2>1, <2>3
    <3>2. f \in finals /\ f.cand.height = Len(blocks[m])
      BY <2>1, <3>1 DEF Before, UnanimousInv, FinalsReal
    <3>3. f.cand.height <= num_height[n]
      BY <3>2, FinalsReached
    <3>4. num_height[n] \in Int /\ num_height[n] <= Len(blocks[n]) + 1
      BY DEF Before, TypeInv, TypeOK, DeliveredInv
    <3> QED BY <2>1, <3>2, <3>3, <3>4
  <2> QED BY <2>2, <2>3
<1> QED BY <1>1, DeliveredInvariant, PTL
-----------------------------------------------------------------------------
(* What an engine has selected, when the quorum is all the nodes.            *)

\* An engine that waits for a block waits for the one it voted for.
WaitingInv ==
    \A n \in Node :
        (engine[n] = "up" /\ stage[n] = "WAIT_FOR_FINALIZE") =>
            /\ selected[n].cand.height = num_height[n]
            /\ VoteFor(selected[n].cand, num_retry_count[n], n) \in cast

\* An engine that has voted at its height has a block selected.
RememberedInv ==
    \A v \in cast :
        v.cand.height = num_height[v.creator] => selected[v.creator] # Nothing

KeptInv == WaitingInv /\ RememberedInv

\* The block an engine elects is the one it has selected already.
LEMMA ElectsItsOwn ==
    ASSUME Unanimous, Before, NEW n \in Node
    PROVE  /\ ~ElectUnknown(n)
           /\ FinalizeOwn(n) \/ AwaitFinalize(n) => UNCHANGED selected
<1>1. ASSUME NEW c, HasQuorum(n, c), engine[n] = "up", stage[n] = "COLLECT_VOTE"
      PROVE  Elected(n, c) = selected[n] /\ selected[n] # Nothing
    BY <1>1, UnanimousQuorum DEF Before, UnanimousInv, SelectedInv
<1>2. ~ElectUnknown(n)
    BY <1>1 DEF ElectUnknown, InStage
<1>3. ASSUME FinalizeOwn(n) \/ AwaitFinalize(n) PROVE UNCHANGED selected
  <2>1. PICK c : /\ HasQuorum(n, c)
                 /\ selected' = [selected EXCEPT ![n] = Elected(n, c)]
    BY <1>3 DEF FinalizeOwn, AwaitFinalize
  <2>2. engine[n] = "up" /\ stage[n] = "COLLECT_VOTE"
    BY <1>3 DEF FinalizeOwn, AwaitFinalize, InStage
  <2>3. Elected(n, c) = selected[n]
    BY <2>1, <2>2, <1>1
  <2>4. selected \in [Node -> Block \cup {Nothing}]
    BY DEF Before, TypeInv, TypeOK
  <2> QED BY <2>1, <2>3, <2>4
<1> QED BY <1>2, <1>3

LEMMA KeptStep == Unanimous /\ Before /\ KeptInv /\ [Next]_vars => KeptInv'
<1> SUFFICES ASSUME Unanimous, Before, KeptInv, [Next]_vars PROVE KeptInv'
    OBVIOUS
<1> USE DEF history
<1>t. /\ engine \in [Node -> {"up", "proposing", "dead"}]
      /\ stage \in [Node -> Stages]
      /\ num_height \in [Node -> 1 .. MaxHeight + 1]
      /\ num_retry_count \in [Node -> Retries]
      /\ selected \in [Node -> Block \cup {Nothing}]
    BY DEF Before, TypeInv, TypeOK
<1>n. \A n \in Node : num_height[n] \in Int
    BY <1>t
<1>v. \A v \in cast : /\ v.creator \in Node /\ v.cand.height \in Int
                      /\ v.cand.height <= num_height[v.creator]
  <2> SUFFICES ASSUME NEW v \in cast
               PROVE  /\ v.creator \in Node /\ v.cand.height \in Int
                      /\ v.cand.height <= num_height[v.creator]
    OBVIOUS
  <2>1. v.creator \in Node /\ v.cand.height \in Int
    BY DEF Before, TypeInv, TypeOK, Vote, Candidate, Heights
  <2>2. VotePast(v)
    BY DEF Before, VoteInv
  <2> QED BY <2>1, <2>2, <1>n DEF VotePast
<1>1. CASE UNCHANGED <<engineVars, cast>>
    BY <1>1 DEF KeptInv, WaitingInv, RememberedInv, engineVars
\* Steps of an engine that keep its height and its selection, and do not make
\* it wait for a block.
<1>2. ASSUME NEW n \in Node, UNCHANGED <<num_height, selected, cast>>,
             \A m \in Node \ {n} :
                 /\ engine'[m] = engine[m] /\ stage'[m] = stage[m]
                 /\ num_retry_count'[m] = num_retry_count[m],
             \/ engine'[n] # "up"
             \/ stage'[n] # "WAIT_FOR_FINALIZE"
      PROVE  KeptInv'
    BY <1>2 DEF KeptInv, WaitingInv, RememberedInv
<1>3. ASSUME NEW n \in Node, BeginPropose(n) \/ CreateCandidate(n)
      PROVE  KeptInv'
  <2>1. CASE BeginPropose(n)
    <3>1. engine'[n] # "up"
      BY <2>1, <1>t DEF BeginPropose
    <3>2. \A m \in Node \ {n} : engine'[m] = engine[m]
      BY <2>1, <1>t DEF BeginPropose
    <3> QED BY <2>1, <3>1, <3>2, <1>2 DEF BeginPropose
  <2>2. CASE CreateCandidate(n)
    BY <2>2, <1>t, <1>2 DEF CreateCandidate
  <2> QED BY <1>3, <2>1, <2>2
<1>4. ASSUME NEW n \in Node, RetryRound(n) PROVE KeptInv'
    BY <1>4, <1>t, <1>2 DEF RetryRound
<1>5. ASSUME NEW n \in Node, NewRound(n) PROVE KeptInv'
  <2>1. /\ num_height' = [num_height EXCEPT ![n] = num_height[n] + 1]
        /\ UNCHANGED cast
        /\ \A m \in Node \ {n} :
               /\ engine'[m] = engine[m] /\ stage'[m] = stage[m]
               /\ num_retry_count'[m] = num_retry_count[m]
               /\ selected'[m] = selected[m]
    BY <1>5, <1>t DEF NewRound, EngineDies
  <2>2. engine'[n] # "up" \/ stage'[n] # "WAIT_FOR_FINALIZE"
    BY <1>5, <1>t DEF NewRound, EngineDies
  <2>3. WaitingInv'
    BY <2>1, <2>2, <1>t DEF KeptInv, WaitingInv
  <2>4. RememberedInv'
    BY <2>1, <1>t, <1>n, <1>v DEF KeptInv, RememberedInv
  <2> QED BY <2>3, <2>4 DEF KeptInv
<1>6. ASSUME NEW n \in Node, SelectAndVote(n) PROVE KeptInv'
  <2>1. PICK c \in Select(StageList(n)) :
            /\ selected' = [selected EXCEPT ![n] =
                                [cand |-> c, retry |-> num_retry_count[n]]]
            /\ cast' = cast \cup {CreateVote(n, c)}
    BY <1>6 DEF SelectAndVote
  <2>2. /\ UNCHANGED <<engine, num_height, num_retry_count>>
        /\ stage' = [stage EXCEPT ![n] = "COLLECT_VOTE"]
    BY <1>6 DEF SelectAndVote
  <2>3. c \in Candidate
    BY SelectType, StageListType DEF Before, TypeInv
  <2>4. [cand |-> c, retry |-> num_retry_count[n]] \in Block
    BY <2>3, <1>t DEF Block
  <2>5. /\ selected'[n] # Nothing
        /\ \A m \in Node \ {n} : selected'[m] = selected[m]
    BY <2>1, <2>4, <1>t, SentinelAssumption
  <2>6. WaitingInv'
    BY <2>1, <2>2, <2>5, <1>t DEF KeptInv, WaitingInv
  <2>7. RememberedInv'
    BY <2>1, <2>2, <2>5, <1>v DEF KeptInv, RememberedInv, CreateVote
  <2> QED BY <2>6, <2>7 DEF KeptInv
\* The engine waits for the block it has voted for.
<1>7. ASSUME NEW n \in Node, FinalizeOwn(n) \/ AwaitFinalize(n) PROVE KeptInv'
  <2>1. /\ UNCHANGED <<engine, num_height, num_retry_count, cast>>
        /\ stage' = [stage EXCEPT ![n] = "WAIT_FOR_FINALIZE"]
    BY <1>7 DEF FinalizeOwn, AwaitFinalize
  <2>2. UNCHANGED selected
    BY <1>7, ElectsItsOwn
  <2>3. engine[n] = "up" /\ stage[n] = "COLLECT_VOTE"
    BY <1>7 DEF FinalizeOwn, AwaitFinalize, InStage
  <2>4. /\ selected[n].cand.height = num_height[n]
        /\ VoteFor(selected[n].cand, num_retry_count[n], n) \in cast
    BY <2>3 DEF Before, UnanimousInv, SelectedInv
  <2>5. WaitingInv'
    BY <2>1, <2>2, <2>4, <1>t DEF KeptInv, WaitingInv
  <2>6. RememberedInv'
    BY <2>1, <2>2 DEF KeptInv, RememberedInv
  <2> QED BY <2>5, <2>6 DEF KeptInv
<1>8. ASSUME NEW n \in Node,
             \/ \E t \in net_transaction[n] : ReceiveTransaction(n, t)
             \/ ReceiveMessage(n) \/ ReadLast(n) \/ Chain(n)
      PROVE  UNCHANGED <<engineVars, cast>>
    BY <1>8 DEF ReadLast, ReceiveTransaction, ReceiveMessage, ReceiveCandidate,
       ReceiveVote, ReceiveFinalize, Chain, FinalizeBlock, PublishLast
<1>9. CASE UNCHANGED vars
    BY <1>1, <1>9 DEF vars
<1> QED
    BY <1>1, <1>3, <1>4, <1>5, <1>6, <1>7, <1>8, <1>9, ElectsItsOwn
    DEF Next, Pass

LEMMA KeptInvariant == Unanimous => (Spec => [](Before /\ KeptInv))
<1> SUFFICES ASSUME Unanimous PROVE Spec => [](Before /\ KeptInv)
    OBVIOUS
<1>1. Init => KeptInv
    BY DEF Init, KeptInv, WaitingInv, RememberedInv
<1>2. Before /\ KeptInv /\ [Next]_vars => KeptInv'
    BY KeptStep
<1> QED BY <1>1, <1>2, UnanimousInvariant, PTL DEF Spec

\* The block by which a chain is ahead of an engine has the engine's vote.
LEMMA VotedForTheNext ==
    ASSUME Before, NEW n \in Node, DiffHeight(n)
    PROVE  LET f == blocks[n][num_height[n]]
           IN  /\ f \in finals
               /\ f.cand.height = num_height[n]
               /\ VoteFor(f.cand, f.retry, n) \in cast
<1>1. blocks[n] \in Seq(finals) /\ num_height[n] \in 1 .. MaxHeight + 1
    BY DEF Before, TypeInv, TypeOK, UnanimousInv, FinalsReal
<1>2. num_height[n] \in 1 .. Len(blocks[n])
    BY <1>1, BoundAssumption DEF DiffHeight
<1> QED BY <1>1, <1>2 DEF Before, UnanimousInv, FinalsReal, FinalInv

(* No exception ends an engine, when the quorum is all the nodes and the     *)
(* pool of transactions has the interface the engine is written for: it has  *)
(* selected every block it elects, and has a block selected whenever its     *)
(* chain grows.                                                              *)
THEOREM Survives ==
    Unanimous /\ PoolFitsEngine => (Spec => []EngineSurvives)
<1> SUFFICES ASSUME Unanimous, PoolFitsEngine PROVE Spec => []EngineSurvives
    OBVIOUS
<1>1. Init => EngineSurvives
    BY DEF Init, EngineSurvives
<1>2. Before /\ KeptInv /\ EngineSurvives /\ [Next]_vars => EngineSurvives'
  <2> SUFFICES ASSUME Before, KeptInv, EngineSurvives, [Next]_vars
               PROVE  EngineSurvives'
    OBVIOUS
  <2>t. engine \in [Node -> {"up", "proposing", "dead"}]
    BY DEF Before, TypeInv, TypeOK
  <2>1. CASE UNCHANGED engine
    BY <2>1 DEF EngineSurvives
  <2>2. ASSUME NEW n \in Node, NewRound(n) PROVE UNCHANGED engine
    <3> DEFINE f == blocks[n][num_height[n]]
               v == VoteFor(f.cand, f.retry, n)
    <3>1. v \in cast /\ f.cand.height = num_height[n]
      BY <2>2, VotedForTheNext DEF NewRound
    <3>2. v.creator = n /\ v.cand = f.cand
      BY DEF VoteFor
    <3> HIDE DEF f, v
    <3>3. selected[n] # Nothing
      BY <3>1, <3>2 DEF KeptInv, RememberedInv
    <3> QED BY <2>2, <3>3 DEF NewRound
  <2>3. ASSUME NEW n \in Node, BeginPropose(n) \/ CreateCandidate(n)
        PROVE  EngineSurvives'
    BY <2>3, <2>t DEF BeginPropose, CreateCandidate, EngineSurvives
  <2>4. ASSUME NEW n \in Node,
               \/ \E t \in net_transaction[n] : ReceiveTransaction(n, t)
               \/ ReceiveMessage(n) \/ ReadLast(n) \/ SelectAndVote(n)
               \/ FinalizeOwn(n) \/ AwaitFinalize(n) \/ RetryRound(n)
               \/ Chain(n)
        PROVE  UNCHANGED engine
    BY <2>4 DEF ReceiveTransaction, ReceiveMessage, ReceiveCandidate,
       ReceiveVote, ReceiveFinalize, ReadLast, SelectAndVote, FinalizeOwn,
       AwaitFinalize, RetryRound, Chain, FinalizeBlock, PublishLast, engineVars
  <2>5. CASE UNCHANGED vars
    BY <2>1, <2>5 DEF vars, engineVars
  <2> QED
      BY <2>1, <2>2, <2>3, <2>4, <2>5, ElectsItsOwn DEF Next, Pass
<1> QED BY <1>1, <1>2, KeptInvariant, PTL DEF Spec

(* The transactions that clear_pool drops are those of the block the chain   *)
(* of the node got, unless the engine timed out on the wave of that block,   *)
(* when the quorum is all the nodes.                                         *)
THEOREM ClearsFinalized == Unanimous => (Spec => []ClearsTheFinalized)
<1> SUFFICES ASSUME Unanimous PROVE Spec => []ClearsTheFinalized
    OBVIOUS
<1>1. Before /\ KeptInv => ClearsTheFinalized
  <2> SUFFICES ASSUME Before, KeptInv, NEW n \in Node,
                      engine[n] = "up", DiffHeight(n)
               PROVE  LET f == blocks[n][num_height[n]]
                      IN  \/ selected[n].cand = f.cand
                          \/ num_retry_count[n] > f.retry
    BY DEF ClearsTheFinalized
  <2> DEFINE f == blocks[n][num_height[n]]
             v == VoteFor(f.cand, f.retry, n)
             w == VoteFor(selected[n].cand, num_retry_count[n], n)
  <2>1. v \in cast /\ f \in finals /\ f.cand.height = num_height[n]
    BY VotedForTheNext
  <2>2. /\ v.creator = n /\ v.cand = f.cand /\ v.retry = f.retry
        /\ w.creator = n /\ w.cand = selected[n].cand
        /\ w.retry = num_retry_count[n]
    BY DEF VoteFor
  <2>3. /\ num_height[n] \in Int /\ num_retry_count[n] \in Int
        /\ f.retry \in Int
    BY <2>1, BoundAssumption DEF Before, TypeInv, TypeOK, Final, Retries
  <2>4. stage[n] \in {"COLLECT_VOTE", "WAIT_FOR_FINALIZE"} =>
            w \in cast /\ selected[n].cand.height = num_height[n]
    BY DEF Before, UnanimousInv, SelectedInv, KeptInv, WaitingInv
  <2> HIDE DEF f, v, w
  <2>5. VotePast(v)
    BY <2>1 DEF Before, VoteInv
  <2>6. CASE f.retry < num_retry_count[n]
    BY <2>3, <2>6 DEF f
  <2>7. CASE /\ f.retry = num_retry_count[n]
             /\ stage[n] \in {"COLLECT_VOTE", "WAIT_FOR_FINALIZE"}
    <3>1. v = w
      BY <2>1, <2>2, <2>4, <2>7 DEF Before, VoteInv, VoteOncePerWave
    <3> QED BY <3>1, <2>2 DEF f
  <2> QED BY <2>1, <2>2, <2>3, <2>5, <2>6, <2>7 DEF VotePast
<1> QED BY <1>1, KeptInvariant, PTL
=============================================================================
