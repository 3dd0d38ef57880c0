--------------------------- MODULE StorageProofs ---------------------------
(* Theorems about what a node stores: StagedDataPool here, the other parts   *)
(* from the theorems about each of them.                                     *)
EXTENDS Storage, FiniteSetTheorems, TLAPS

-----------------------------------------------------------------------------
(* StagedDataPool, for any keys, waves and data.                             *)


USE DataAssumption

LEMMA TypeInit == Init => TypeOK
BY DEF Init, TypeOK, Empty

LEMMA TypeStep == TypeOK /\ [Next]_vars => TypeOK'
<1> SUFFICES ASSUME TypeOK, [Next]_vars PROVE TypeOK'
    OBVIOUS
<1> USE DEF TypeOK
<1>1. ASSUME NEW d \in Data, put_data(d) PROVE TypeOK'
    BY <1>1 DEF put_data
<1>2. ASSUME NEW k \in Key, remove_data(k) PROVE TypeOK'
    <2>1. CASE Finds(k) /\ GetData(k) # None
        <3> DEFINE w == dict_index[k]
        <3>1. w \in Wave
            BY <2>1 DEF Finds
        <3>2. /\ dict_data' = [dict_data EXCEPT ![w][k] = None]
              /\ dict_index' = [dict_index EXCEPT ![k] = None]
              /\ UNCHANGED <<error, twice>>
            BY <1>2, <2>1 DEF remove_data
        <3> HIDE DEF w
        <3> QED BY <3>1, <3>2
    <2>2. CASE ~(Finds(k) /\ GetData(k) # None)
        BY <1>2, <2>2 DEF remove_data
    <2> QED BY <2>1, <2>2
<1>3. ASSUME NEW w \in Wave, remove_stage(w) PROVE TypeOK'
    <2>1. dict_index' \in [Key -> Wave \cup {None}]
        BY <1>3 DEF remove_stage
    <2>2. dict_data' \in [Wave -> [Key -> Data \cup {None}]]
        BY <1>3 DEF remove_stage, Empty
    <2> QED BY <1>3, <2>1, <2>2 DEF remove_stage
<1>4. ASSUME NEW w \in Wave, remove_stage_except(w) PROVE TypeOK'
    <2>1. \A k \in StageKeys(w) : dict_data[w][k] \in Data
        BY DEF StageKeys
    <2>2. dict_index' \in [Key -> Wave \cup {None}]
        BY <1>4, <2>1 DEF remove_stage_except
    <2>3. dict_data' \in [Wave -> [Key -> Data \cup {None}]]
        BY <1>4 DEF remove_stage_except, Empty
    <2> QED BY <1>4, <2>2, <2>3 DEF remove_stage_except
<1>5. ASSUME clear PROVE TypeOK'
    BY <1>5 DEF clear, Empty
<1>6. CASE UNCHANGED vars
    BY <1>6 DEF vars
<1> QED BY <1>1, <1>2, <1>3, <1>4, <1>5, <1>6 DEF Next, Call

(* The dictionaries and the index are well typed.                            *)
THEOREM TypeCorrect == Spec => []TypeOK
BY TypeInit, TypeStep, PTL DEF Spec

-----------------------------------------------------------------------------
(* The index.                                                                *)

\* What is in a dictionary is where its key and its wave say.
Placed ==
    \A w \in Wave, k \in Key :
        dict_data[w][k] # None =>
            GetKey[dict_data[w][k]] = k /\ GetWave[dict_data[w][k]] = w

IndexInv == TypeOK /\ Placed /\ IndexFits /\ FailsOnTwiceOnly

LEMMA IndexInit == Init => IndexInv
BY TypeInit DEF Init, IndexInv, Placed, IndexFits, FailsOnTwiceOnly, Empty, Finds

LEMMA IndexStep == IndexInv /\ [Next]_vars => IndexInv'
<1> SUFFICES ASSUME IndexInv, [Next]_vars PROVE IndexInv'
    OBVIOUS
<1>1. /\ TypeOK /\ TypeOK'
      /\ \A k \in Key : dict_index[k] # None => dict_index[k] \in Wave
    BY TypeStep DEF IndexInv, TypeOK
<1> USE <1>1 DEF IndexInv, Placed, IndexFits, FailsOnTwiceOnly, Finds, GetData
<1>2. ASSUME NEW d \in Data, put_data(d) PROVE IndexInv'
    <2> DEFINE j == GetKey[d]
               v == GetWave[d]
    <2>1. /\ j \in Key /\ v \in Wave /\ d # None
          /\ \A w \in Wave, k \in Key :
                 dict_data'[w][k] =
                     IF w = v /\ k = j THEN d ELSE dict_data[w][k]
          /\ \A k \in Key : dict_index'[k] = IF k = j THEN v ELSE dict_index[k]
          /\ error' = error
        BY <1>2 DEF put_data, TypeOK
    <2>2. /\ \A k \in Key : k \notin twice' => k \notin twice
          /\ j \notin twice' => \A w \in Wave \ {v} : dict_data[w][j] = None
          /\ twice = {} \/ twice' # {}
        BY <1>2 DEF put_data
    <2> HIDE DEF j, v
    <2>3. Placed'
        BY <2>1 DEF j, v
    <2>4. IndexFits'
        BY <2>1, <2>2
    <2>5. FailsOnTwiceOnly'
        BY <2>1, <2>2
    <2> QED BY <2>3, <2>4, <2>5
<1>3. ASSUME NEW j \in Key, remove_data(j) PROVE IndexInv'
    <2>1. CASE Finds(j) /\ GetData(j) # None
        <3> DEFINE v == dict_index[j]
        <3>1. /\ v \in Wave
              /\ \A w \in Wave, k \in Key :
                     dict_data'[w][k] =
                         IF w = v /\ k = j THEN None ELSE dict_data[w][k]
              /\ \A k \in Key :
                     dict_index'[k] = IF k = j THEN None ELSE dict_index[k]
              /\ error' = error /\ twice' = twice
            BY <1>3, <2>1 DEF remove_data, TypeOK
        <3> HIDE DEF v
        <3>2. Placed'
            BY <3>1
        <3>3. IndexFits'
            BY <3>1 DEF v
        <3> QED BY <3>1, <3>2, <3>3
    <2>2. CASE ~(Finds(j) /\ GetData(j) # None)
        BY <1>3, <2>2 DEF remove_data
    <2> QED BY <2>1, <2>2
<1>4. ASSUME NEW v \in Wave, remove_stage(v), error = "none" PROVE IndexInv'
    <2>1. CASE \A k \in StageKeys(v) : Finds(k)
        <3>1. /\ \A w \in Wave, k \in Key :
                     dict_data'[w][k] = IF w = v THEN None ELSE dict_data[w][k]
              /\ \A k \in Key :
                     dict_index'[k] =
                         IF dict_data[v][k] # None THEN None ELSE dict_index[k]
              /\ error' = error /\ twice' = twice
            BY <1>4, <2>1 DEF remove_stage, TypeOK, Empty, StageKeys
        <3>2. Placed'
            BY <3>1
        <3>3. IndexFits'
            BY <3>1 DEF TypeOK
        <3> QED BY <3>1, <3>2, <3>3
    <2>2. CASE ~ \A k \in StageKeys(v) : Finds(k)
        <3>1. /\ dict_data' = dict_data /\ error' = "KeyError" /\ twice' = twice
              /\ \A k \in Key : dict_index'[k] \in {None, dict_index[k]}
            BY <1>4, <2>2 DEF remove_stage, TypeOK
        <3>2. twice # {}
            BY <1>4, <2>2 DEF StageKeys
        <3>3. Placed' /\ FailsOnTwiceOnly'
            BY <3>1, <3>2
        <3>4. IndexFits'
            BY <3>1
        <3> QED BY <3>3, <3>4
    <2> QED BY <2>1, <2>2
<1>5. ASSUME NEW v \in Wave, remove_stage_except(v) PROVE IndexInv'
    <2>1. /\ \A w \in Wave, k \in Key :
                 dict_data'[w][k] = IF w = v THEN dict_data[v][k] ELSE None
          /\ \A k \in Key :
                 dict_index'[k] = IF dict_data[v][k] # None THEN v ELSE None
          /\ error' = error /\ twice' = twice
        BY <1>5 DEF remove_stage_except, TypeOK, Empty, StageKeys
    <2>2. Placed'
        BY <2>1
    <2>3. IndexFits'
        BY <2>1
    <2> QED BY <2>1, <2>2, <2>3
<1>6. ASSUME clear PROVE IndexInv'
    BY <1>6 DEF clear, Empty
<1>7. CASE UNCHANGED vars
    BY <1>7 DEF vars
<1> QED BY <1>2, <1>3, <1>4, <1>5, <1>6, <1>7 DEF Next, Call

LEMMA IndexInvariant == Spec => []IndexInv
BY IndexInit, IndexStep, PTL DEF Spec

(* get_data never ends in an exception, and what was put in one wave only is *)
(* always found there.                                                       *)
THEOREM IndexCorrect == Spec => []IndexFits
<1>1. IndexInv => IndexFits
    BY DEF IndexInv
<1> QED BY <1>1, IndexInvariant, PTL

(* A removal ends in a KeyError only if a key has been in two waves at once. *)
THEOREM FailsOnlyOnTwice == Spec => []FailsOnTwiceOnly
<1>1. IndexInv => FailsOnTwiceOnly
    BY DEF IndexInv
<1> QED BY <1>1, IndexInvariant, PTL

-----------------------------------------------------------------------------
(* The refinement.                                                           *)

\* The same sets, by what a datum says of itself.
HeldIn(dict) == {d \in Data : dict[GetWave[d]][GetKey[d]] = d}
FoundIn(dict, index) == {d \in HeldIn(dict) : index[GetKey[d]] = GetWave[d]}

LEMMA Mapping ==
    ASSUME IndexInv
    PROVE  Held = HeldIn(dict_data) /\ Found = FoundIn(dict_data, dict_index)
<1>p. \A w \in Wave, k \in Key :
          dict_data[w][k] # None =>
              GetKey[dict_data[w][k]] = k /\ GetWave[dict_data[w][k]] = w
    BY DEF IndexInv, Placed
<1> USE DEF IndexInv, TypeOK, Placed, IndexFits, Finds, GetData
<1>1. \A d \in Held : d \in HeldIn(dict_data)
    BY DEF Held, HeldIn
<1>2. \A d \in HeldIn(dict_data) : d \in Held
    BY DEF Held, HeldIn
<1>3. \A d \in Found : d \in FoundIn(dict_data, dict_index)
    <2> SUFFICES ASSUME NEW k \in Key, Finds(k)
                 PROVE  GetData(k) \in FoundIn(dict_data, dict_index)
        BY DEF Found
    <2>1. dict_index[k] \in Wave /\ GetData(k) \in Data
        OBVIOUS
    <2>2. GetKey[GetData(k)] = k /\ GetWave[GetData(k)] = dict_index[k]
        <3>1. PICK w \in Wave : w = dict_index[k]
            BY <2>1
        <3>2. GetData(k) = dict_data[w][k] /\ GetData(k) # None
            BY <2>1, <3>1
        <3> HIDE DEF IndexInv, TypeOK, IndexFits, Finds, GetData
        <3>3. GetKey[dict_data[w][k]] = k /\ GetWave[dict_data[w][k]] = w
            BY <1>p, <3>2
        <3> QED BY <3>1, <3>2, <3>3
    <2> QED BY <2>1, <2>2 DEF FoundIn, HeldIn
<1>4. \A d \in FoundIn(dict_data, dict_index) : d \in Found
    <2> SUFFICES ASSUME NEW d \in FoundIn(dict_data, dict_index) PROVE d \in Found
        OBVIOUS
    <2>1. /\ GetKey[d] \in Key /\ Finds(GetKey[d]) /\ GetData(GetKey[d]) = d
        BY DEF FoundIn, HeldIn
    <2> QED BY <2>1 DEF Found
<1> HIDE DEF IndexInv, TypeOK, Placed, IndexFits, Finds, GetData
<1>5. Held = HeldIn(dict_data)
    BY <1>1, <1>2
<1>6. Found = FoundIn(dict_data, dict_index)
    BY <1>3, <1>4
<1> QED BY <1>5, <1>6

MappingHolds ==
    /\ Held = HeldIn(dict_data)
    /\ Found = FoundIn(dict_data, dict_index)

LEMMA MappingNow == IndexInv => MappingHolds
BY Mapping DEF MappingHolds

LEMMA MappingNext == IndexInv' => MappingHolds'
BY MappingNow, PTL

LEMMA RefineInit == Init => Abstract!Init
<1> SUFFICES ASSUME Init PROVE Abstract!Init
    OBVIOUS
<1>1. MappingHolds
    BY IndexInit, MappingNow
<1>2. HeldIn(dict_data) = {}
    BY DEF Init, HeldIn, Empty
<1> QED BY <1>1, <1>2 DEF Abstract!Init, MappingHolds, FoundIn

LEMMA RefineStep ==
    IndexInv /\ IndexInv' /\ [Next]_vars => [Abstract!Next]_<<Held, Found>>
<1> SUFFICES ASSUME IndexInv, IndexInv', [Next]_vars
             PROVE  Abstract!Next \/ UNCHANGED <<Held, Found>>
    OBVIOUS
<1> DEFINE H == HeldIn(dict_data)
           F == FoundIn(dict_data, dict_index)
           H2 == HeldIn(dict_data')
           F2 == FoundIn(dict_data', dict_index')
<1>1. Held = H /\ Found = F /\ Held' = H2 /\ Found' = F2
    BY MappingNow, MappingNext DEF MappingHolds
<1>2. TypeOK /\ TypeOK'
    BY DEF IndexInv
<1> USE <1>2
<1>3. ASSUME NEW d \in Data, put_data(d) PROVE Abstract!Put(d)
    <2>1. \A e \in Data :
              /\ dict_data'[GetWave[e]][GetKey[e]] =
                     IF GetWave[e] = GetWave[d] /\ GetKey[e] = GetKey[d] THEN d
                       ELSE dict_data[GetWave[e]][GetKey[e]]
              /\ dict_index'[GetKey[e]] =
                     IF GetKey[e] = GetKey[d] THEN GetWave[d]
                                              ELSE dict_index[GetKey[e]]
        BY <1>3 DEF put_data, TypeOK
    <2>2. H2 = (H \ {e \in H : /\ GetKey[e] = GetKey[d]
                               /\ GetWave[e] = GetWave[d]}) \cup {d}
        BY <2>1 DEF HeldIn
    <2>3. F2 = {e \in F : GetKey[e] # GetKey[d]} \cup {d}
        BY <2>1 DEF HeldIn, FoundIn
    <2> QED BY <1>1, <2>2, <2>3 DEF Abstract!Put, Abstract!Same
<1>4. ASSUME NEW j \in Key, remove_data(j)
      PROVE  (\E d \in Data : Abstract!Remove(d)) \/ UNCHANGED <<Held, Found>>
    <2>1. CASE Finds(j) /\ GetData(j) # None
        <3> DEFINE d == GetData(j)
        <3>1. /\ d \in Data /\ GetKey[d] = j /\ dict_index[j] = GetWave[d]
              /\ dict_data[GetWave[d]][j] = d
            BY <2>1 DEF Finds, GetData, TypeOK, IndexInv, Placed
        <3>2. \A e \in Data :
                  /\ dict_data'[GetWave[e]][GetKey[e]] =
                         IF GetWave[e] = GetWave[d] /\ GetKey[e] = j THEN None
                           ELSE dict_data[GetWave[e]][GetKey[e]]
                  /\ dict_index'[GetKey[e]] =
                         IF GetKey[e] = j THEN None ELSE dict_index[GetKey[e]]
            BY <1>4, <2>1, <3>1 DEF remove_data, TypeOK
        <3> HIDE DEF d
        <3>3. d \in F /\ H2 = H \ {d} /\ F2 = F \ {d}
            BY <3>1, <3>2 DEF HeldIn, FoundIn
        <3> QED BY <1>1, <3>1, <3>3 DEF Abstract!Remove
    <2>2. CASE ~(Finds(j) /\ GetData(j) # None)
        <3>1. H2 = H /\ F2 = F
            BY <1>4, <2>2 DEF remove_data
        <3> QED BY <1>1, <3>1
    <2> QED BY <2>1, <2>2
<1>5. ASSUME NEW v \in Wave, remove_stage(v)
      PROVE  Abstract!RemoveWave(v) \/ Abstract!RemoveWaveFails(v)
    <2> DEFINE K == {GetKey[d] : d \in {e \in H : GetWave[e] = v}}
               G == {GetKey[d] : d \in F}
    <2>1. K = StageKeys(v)
        <3>1. \A k \in StageKeys(v) : k \in K
            BY DEF StageKeys, HeldIn, TypeOK, IndexInv, Placed
        <3>2. \A k \in K : k \in StageKeys(v)
            BY DEF StageKeys, HeldIn
        <3> QED BY <3>1, <3>2
    <2>2. G = {k \in Key : Finds(k)}
        <3>1. \A k \in Key : Finds(k) => k \in G
            <4> SUFFICES ASSUME NEW k \in Key, Finds(k) PROVE k \in G
                OBVIOUS
            <4>1. /\ GetData(k) \in Data /\ GetKey[GetData(k)] = k
                  /\ GetData(k) \in F
                BY DEF IndexInv, IndexFits, Placed, Finds, GetData, TypeOK,
                       HeldIn, FoundIn
            <4> QED BY <4>1
        <3>2. \A k \in G : k \in Key /\ Finds(k)
            BY DEF FoundIn, HeldIn, Finds
        <3> QED BY <3>1, <3>2
    <2>3. CASE \A k \in StageKeys(v) : Finds(k)
        <3>1. \A e \in Data :
                  /\ dict_data'[GetWave[e]][GetKey[e]] =
                         IF GetWave[e] = v THEN None
                           ELSE dict_data[GetWave[e]][GetKey[e]]
                  /\ dict_index'[GetKey[e]] =
                         IF GetKey[e] \in StageKeys(v) THEN None
                           ELSE dict_index[GetKey[e]]
            BY <1>5, <2>3 DEF remove_stage, TypeOK, Empty
        <3>2. \A e \in H : GetWave[e] = v => GetKey[e] \in StageKeys(v)
            BY DEF HeldIn, StageKeys
        <3>3. H2 = H \ {e \in H : GetWave[e] = v}
            BY <3>1 DEF HeldIn
        <3>4. F2 = {e \in F : GetKey[e] \notin StageKeys(v)}
            BY <3>1, <3>2 DEF HeldIn, FoundIn
        <3>5. StageKeys(v) \subseteq {k \in Key : Finds(k)}
            BY <2>3 DEF StageKeys
        <3> HIDE DEF H, F, H2, F2, K, G
        <3>6. Abstract!Keys(Abstract!InWave(Held, v)) = StageKeys(v)
            BY <1>1, <2>1 DEF Abstract!Keys, Abstract!InWave, K
        <3>7. Abstract!Keys(Found) = {k \in Key : Finds(k)}
            BY <1>1, <2>2 DEF Abstract!Keys, G
        <3>8. Abstract!RemoveWave(v)
            BY <1>1, <3>3, <3>4, <3>5, <3>6, <3>7
            DEF Abstract!RemoveWave, Abstract!InWave
        <3> QED BY <3>8
    <2>4. CASE ~ \A k \in StageKeys(v) : Finds(k)
        <3>1. PICK L \in SUBSET {k \in StageKeys(v) : Finds(k)} :
                  /\ dict_data' = dict_data
                  /\ dict_index' =
                         [k \in Key |-> IF k \in L THEN None ELSE dict_index[k]]
            BY <1>5, <2>4 DEF remove_stage
        <3>2. H2 = H
            BY <3>1
        <3>3. F2 \subseteq F /\ \A e \in F : e \notin F2 => GetKey[e] \in L
            BY <3>1 DEF FoundIn, HeldIn
        <3>4. {GetKey[e] : e \in F \ F2} \subseteq K
            BY <2>1, <3>1, <3>3
        <3>5. ~(K \subseteq G)
            BY <2>1, <2>2, <2>4 DEF StageKeys
        <3> HIDE DEF H, F, H2, F2
        <3>6. Abstract!RemoveWaveFails(v)
            BY <1>1, <3>2, <3>3, <3>4, <3>5
            DEF Abstract!RemoveWaveFails, Abstract!Keys, Abstract!InWave
        <3> QED BY <3>6
    <2> QED BY <2>3, <2>4
<1>6. ASSUME NEW v \in Wave, remove_stage_except(v) PROVE Abstract!KeepWave(v)
    <2>1. \A e \in Data :
              /\ dict_data'[GetWave[e]][GetKey[e]] =
                     IF GetWave[e] = v THEN dict_data[v][GetKey[e]] ELSE None
              /\ dict_index'[GetKey[e]] =
                     IF dict_data[v][GetKey[e]] # None THEN v ELSE None
        BY <1>6 DEF remove_stage_except, TypeOK, Empty, StageKeys, IndexInv, Placed
    <2>2. H2 = {e \in H : GetWave[e] = v}
        BY <2>1 DEF HeldIn
    <2>3. F2 = {e \in H : GetWave[e] = v}
        BY <2>1 DEF HeldIn, FoundIn
    <2> QED BY <1>1, <2>2, <2>3 DEF Abstract!KeepWave, Abstract!InWave
<1>7. ASSUME clear PROVE Abstract!Clear
    <2>1. H2 = {} /\ F2 = {}
        BY <1>7 DEF clear, Empty, HeldIn, FoundIn
    <2> QED BY <1>1, <2>1 DEF Abstract!Clear
<1>8. CASE UNCHANGED vars
    BY <1>1, <1>8 DEF vars
<1> QED
    BY <1>3, <1>4, <1>5, <1>6, <1>7, <1>8 DEF Next, Call, Abstract!Next

(* The dictionaries and the index implement the Pool of LLFC, whatever the   *)
(* sequence of the calls.                                                    *)
THEOREM Refinement == Spec => ImplementsPool
<1>1. Spec => Abstract!Init /\ [][Abstract!Next]_<<Held, Found>>
    BY IndexInit, IndexInvariant, RefineInit, RefineStep, PTL DEF Spec
<1> QED BY <1>1 DEF ImplementsPool, Abstract!Spec

-----------------------------------------------------------------------------
(* What a node stores: each part steps as its component.                     *)

VotesFacts ==
    INSTANCE VotePoolProofs
        WITH dict_data <- vote_data, dict_index <- vote_index,
             error <- vote_error, twice <- vote_twice
TxPoolFacts == INSTANCE DataPoolProofs

LEMMA CandidatesSpec == StorageSpec => Spec
<1>1. [StorageNext]_storage => [Next]_vars
    BY DEF StorageNext, storage, vars
<1> QED BY <1>1, PTL DEF StorageSpec, StorageInit, Spec

LEMMA VotesSpec == StorageSpec => Votes!Spec
<1>1. StorageInit => Votes!Init
    BY DEF StorageInit
<1>2. [StorageNext]_storage => [Votes!Next]_(Votes!vars)
    BY DEF StorageNext, storage, votes, Votes!vars
<1> QED BY <1>1, <1>2, PTL DEF StorageSpec, Votes!Spec

LEMMA TransactionsSpec == StorageSpec => TxPool!Spec
<1>1. StorageInit => TxPool!Init
    BY DEF StorageInit
<1>2. [StorageNext]_storage => [TxPool!Next]_(TxPool!vars)
    BY DEF StorageNext, storage, transactions, TxPool!vars
<1> QED BY <1>1, <1>2, PTL DEF StorageSpec, TxPool!Spec

\* Where nothing is called of the profile, there is none.
LEMMA IdentitySpec == StorageSpec => Identity!Spec
<1>1. StorageInit => Identity!Init
    BY DEF StorageInit, NoProfile, Identity!Init
<1>2. [StorageNext]_storage => [Identity!Next]_(Identity!vars)
    BY DEF StorageNext, storage, identity, Identity!vars
<1> QED BY <1>1, <1>2, PTL DEF StorageSpec, Identity!Spec

LEMMA DbSpec == StorageSpec => Db!Spec
<1>1. StorageInit => Db!Init
    BY DEF StorageInit
<1>2. [StorageNext]_storage => [Db!Next]_(Db!vars)
    BY DEF StorageNext, storage, database, Db!vars
<1> QED BY <1>1, <1>2, PTL DEF StorageSpec, Db!Spec

\* The component of Storage is the one that was proved about.
LEMMA VotesSame ==
    /\ VotesFacts!Init <=> Votes!Init
    /\ [VotesFacts!Next]_(VotesFacts!vars) <=> [Votes!Next]_(Votes!vars)
    /\ VotesFacts!TypeOK <=> Votes!TypeOK
    /\ VotesFacts!IndexFits <=> Votes!IndexFits
    /\ VotesFacts!CountsOnce <=> Votes!CountsOnce
    /\ VotesFacts!FailsOnTwiceOnly <=> Votes!FailsOnTwiceOnly
    /\ VotesFacts!IsFiniteSet(Data) <=> IsFiniteSet(Data)
BY DEF VotesFacts!Init, VotesFacts!Next, VotesFacts!vars, VotesFacts!Call,
   VotesFacts!Stage, VotesFacts!TypeOK, VotesFacts!Voted, VotesFacts!Votes,
   VotesFacts!Keys, VotesFacts!WithKey, VotesFacts!Finds, VotesFacts!HashOf,
   VotesFacts!GetData, VotesFacts!GetVoteResult, VotesFacts!Cardinality,
   VotesFacts!NewStage, VotesFacts!WithVote, VotesFacts!put_data,
   VotesFacts!Leads, VotesFacts!get_data, VotesFacts!remove_data,
   VotesFacts!remove_stage, VotesFacts!remove_stage_except, VotesFacts!clear,
   VotesFacts!IndexFits, VotesFacts!CountsOnce, VotesFacts!FailsOnTwiceOnly,
   Votes!Init, Votes!Next, Votes!vars, Votes!Call, Votes!Stage, Votes!TypeOK,
   Votes!Voted, Votes!Votes, Votes!Keys, Votes!WithKey, Votes!Finds,
   Votes!HashOf, Votes!GetData, Votes!GetVoteResult, Votes!Cardinality,
   Votes!NewStage, Votes!WithVote, Votes!put_data, Votes!Leads,
   Votes!get_data, Votes!remove_data, Votes!remove_stage,
   Votes!remove_stage_except, Votes!clear, Votes!IndexFits, Votes!CountsOnce,
   Votes!FailsOnTwiceOnly, VotesFacts!IsFiniteSet, IsFiniteSet

LEMMA TransactionsSame ==
    /\ TxPoolFacts!Init <=> TxPool!Init
    /\ [TxPoolFacts!Next]_(TxPoolFacts!vars)
           <=> [TxPool!Next]_(TxPool!vars)
    /\ TxPoolFacts!KeepsTheNewest <=> TxPool!KeepsTheNewest
    /\ TxPoolFacts!AcceptedStays <=> TxPool!AcceptedStays
BY DEF TxPoolFacts!Init, TxPoolFacts!Next,
   TxPoolFacts!vars, TxPoolFacts!Never, TxPoolFacts!TypeOK,
   TxPoolFacts!Tick, TxPoolFacts!Age, TxPoolFacts!ToSet,
   TxPoolFacts!put_data, TxPoolFacts!put_finalize_data,
   TxPoolFacts!is_valid, TxPoolFacts!Bytes, TxPoolFacts!Str,
   TxPoolFacts!remove_data_list, TxPoolFacts!Newest,
   TxPoolFacts!Trimmed, TxPoolFacts!pool_manager,
   TxPoolFacts!AtLeast, TxPoolFacts!IsSuffix,
   TxPoolFacts!IsPrefix, TxPoolFacts!Reverse,
   TxPoolFacts!KeepsTheNewest, TxPoolFacts!AcceptedStays,
   TxPool!Init, TxPool!Next, TxPool!vars,
   TxPool!Never, TxPool!TypeOK, TxPool!Tick,
   TxPool!Age, TxPool!ToSet, TxPool!put_data,
   TxPool!put_finalize_data, TxPool!is_valid, TxPool!Bytes,
   TxPool!Str, TxPool!remove_data_list,
   TxPool!Newest, TxPool!Trimmed, TxPool!pool_manager,
   TxPool!AtLeast, TxPool!IsSuffix, TxPool!IsPrefix,
   TxPool!Reverse, TxPool!KeepsTheNewest,
   TxPool!AcceptedStays

(* The index of the votes leads to a vote, a vote counts once in its wave,   *)
(* and a KeyError takes a vote that has been in two waves at once.           *)
THEOREM VotesFitAlways == StorageSpec => []VotesFit
<1>1. Votes!Spec => VotesFacts!Spec
    BY VotesSame, PTL DEF Votes!Spec, VotesFacts!Spec
<1> USE VotesSame, DataAssumption, VoteAssumption, KeyAssumption
<1>2. VotesFacts!Spec => []VotesFacts!TypeOK
    BY VotesFacts!TypeCorrect
<1>3. VotesFacts!Spec => []VotesFacts!IndexFits
    BY VotesFacts!IndexRight
<1>4. VotesFacts!Spec => []VotesFacts!CountsOnce
    BY VotesFacts!CountedOnce
<1>5. VotesFacts!Spec => []VotesFacts!FailsOnTwiceOnly
    BY VotesFacts!FailsOnTwice
<1> QED BY VotesSpec, <1>1, <1>2, <1>3, <1>4, <1>5, PTL DEF VotesFit

\* The Pool that the one implements is the Pool of the other.
LEMMA PoolSame ==
    /\ VotesFacts!Held = Votes!Held /\ VotesFacts!Found = Votes!Found
    /\ VotesFacts!Abstract!Init <=> Votes!Abstract!Init
    /\ [VotesFacts!Abstract!Next]_<<VotesFacts!Held, VotesFacts!Found>>
           <=> [Votes!Abstract!Next]_<<Votes!Held, Votes!Found>>
BY DEF VotesFacts!Abstract!Init, VotesFacts!Abstract!Next,
   VotesFacts!Abstract!Keys, VotesFacts!Abstract!InWave,
   VotesFacts!Abstract!Same, VotesFacts!Abstract!Put,
   VotesFacts!Abstract!Remove, VotesFacts!Abstract!RemoveWave,
   VotesFacts!Abstract!RemoveWaveFails, VotesFacts!Abstract!KeepWave,
   VotesFacts!Abstract!Clear, Votes!Abstract!Init, Votes!Abstract!Next,
   Votes!Abstract!Keys, Votes!Abstract!InWave, Votes!Abstract!Same,
   Votes!Abstract!Put, Votes!Abstract!Remove, Votes!Abstract!RemoveWave,
   Votes!Abstract!RemoveWaveFails, Votes!Abstract!KeepWave,
   Votes!Abstract!Clear, VotesFacts!Held, VotesFacts!Found, VotesFacts!Votes,
   VotesFacts!Voted, VotesFacts!Keys, VotesFacts!WithKey, VotesFacts!Finds,
   VotesFacts!GetData, Votes!Held, Votes!Found, Votes!Votes, Votes!Voted,
   Votes!Keys, Votes!WithKey, Votes!Finds, Votes!GetData

(* The pool of votes implements Pool, whatever is called of the other parts. *)
THEOREM VotesRefine == StorageSpec => VotesImplementPool
<1>1. Votes!Spec => VotesFacts!Spec
    BY VotesSame, PTL DEF Votes!Spec, VotesFacts!Spec
<1>2. VotesFacts!Spec => VotesFacts!ImplementsPool
    BY VotesSame, DataAssumption, VoteAssumption, KeyAssumption,
       VotesFacts!Refinement
<1>3. VotesFacts!ImplementsPool => Votes!ImplementsPool
    BY PoolSame, PTL
    DEF Votes!ImplementsPool, VotesFacts!ImplementsPool,
        Votes!Abstract!Spec, VotesFacts!Abstract!Spec
<1> QED BY VotesSpec, <1>1, <1>2, <1>3, PTL DEF VotesImplementPool

(* An accepted transaction that is not removed stays for the time the two    *)
(* ages leave it.  A block with a transaction is never recorded, as a sender *)
(* is compared as bytes with a str; of the empty ones that are, the newest   *)
(* are kept.                                                                 *)
THEOREM TransactionsStayAlways == StorageSpec => []TransactionsStay
<1>1. TxPool!Spec => TxPoolFacts!Spec
    BY TransactionsSame, PTL DEF TxPool!Spec, TxPoolFacts!Spec
<1>2. TxPoolFacts!Spec => []TxPoolFacts!KeepsTheNewest
    BY PoolAssumption, TxPoolFacts!NewestKept
<1>3. TxPoolFacts!Spec => []TxPoolFacts!AcceptedStays
    BY PoolAssumption, TxPoolFacts!AcceptedKept
<1> QED
    BY TransactionsSpec, TransactionsSame, <1>1, <1>2, <1>3, PTL
    DEF TransactionsStay

-----------------------------------------------------------------------------
(* The database, for any threads, keys and values.                           *)

HIDE DataAssumption

DbValue == Val \cup {Missing}

DbTypeOK ==
    /\ db \in [DbKey -> DbValue]
    /\ acked \in [DbKey -> DbValue]
    /\ updating \in [Thread -> (DbKey \X Val) \cup {Missing}]
    /\ broken \subseteq DbKey

\* The key is in the middle of an update of the thread.
DbUpdates(t, k) == ~Db!Idle(t) /\ updating[t][1] = k

\* An update of the key is under way or was cut.
DbOpen(k) == k \in broken \/ \E t \in Thread : DbUpdates(t, k)

DbSettled(k) == db[k] = acked[k] \/ (db[k] = Missing /\ DbOpen(k))

AckInv == DbTypeOK /\ \A k \in DbKey : DbSettled(k)

(* A call changes the keys it writes, and no other.                          *)
LEMMA WritesOver ==
    ASSUME NEW K \in SUBSET DbKey, NEW data \in [K -> DbValue],
           NEW old \in [DbKey -> DbValue]
    PROVE  /\ Db!Over(data, old) \in [DbKey -> DbValue]
           /\ \A k \in DbKey :
                Db!Over(data, old)[k] = IF k \in K THEN data[k] ELSE old[k]
BY DEF Db!Over

(* The invariant holds at the start.                                         *)
LEMMA AckInit == Db!Init => AckInv
BY DEF Db!Init, AckInv, DbTypeOK, DbSettled, DbValue

(* A key that a step does not write stays settled if an open update of it    *)
(* stays open.                                                               *)
LEMMA StaysSettled ==
    ASSUME NEW k \in DbKey, DbSettled(k), db'[k] = db[k], acked'[k] = acked[k],
           k \in broken => k \in broken',
           \A t \in Thread :
               DbUpdates(t, k) => DbUpdates(t, k)' \/ k \in broken'
    PROVE  DbSettled(k)'
BY DEF DbSettled, DbOpen

(* A call in one step, which writes the keys K, keeps every key settled.     *)
LEMMA CallSettles ==
    ASSUME AckInv, UNCHANGED updating, NEW K \in SUBSET DbKey,
           broken' = broken \ K,
           \A k \in DbKey : k \in K => db'[k] = acked'[k],
           \A k \in DbKey : k \notin K => db'[k] = db[k] /\ acked'[k] = acked[k]
    PROVE  \A k \in DbKey : DbSettled(k)'
<1> SUFFICES ASSUME NEW k \in DbKey PROVE DbSettled(k)'
  OBVIOUS
<1>1. CASE k \in K
  BY <1>1 DEF DbSettled
<1>2. CASE k \notin K
  <2>1. \A t \in Thread : DbUpdates(t, k) => DbUpdates(t, k)'
    BY DEF DbUpdates, Db!Idle
  <2> QED  BY <1>2, <2>1, StaysSettled DEF AckInv
<1> QED  BY <1>1, <1>2

(* Every call, failure and crash preserves the invariant.                    *)
LEMMA AckStep == AckInv /\ [Db!Next]_(Db!vars) => AckInv'
<1> SUFFICES ASSUME AckInv, [Db!Next]_(Db!vars) PROVE AckInv'
  OBVIOUS
<1>0. /\ Missing \in DbValue
      /\ \A v \in Val : v \in DbValue
      /\ acked \in [DbKey -> DbValue] /\ db \in [DbKey -> DbValue]
  BY DEF DbValue, AckInv, DbTypeOK
<1>1. ASSUME NEW t \in Thread, NEW j \in DbKey, NEW v \in Val,
             Db!insert(t, j, v)
      PROVE  AckInv'
  <2>1. /\ acked' = Db!Over(Db!One(j, v), acked)
        /\ broken' = broken \ DOMAIN Db!One(j, v)
        /\ db' = [db EXCEPT ![j] = v]
        /\ UNCHANGED updating
    BY <1>1 DEF Db!insert, Db!Done
  <2>2. /\ DOMAIN Db!One(j, v) = {j}
        /\ acked' \in [DbKey -> DbValue]
        /\ \A k \in DbKey : acked'[k] = IF k = j THEN v ELSE acked[k]
    <3>1. /\ DOMAIN Db!One(j, v) = {j}
          /\ Db!Over(Db!One(j, v), acked) \in [DbKey -> DbValue]
          /\ \A k \in DbKey :
               Db!Over(Db!One(j, v), acked)[k] = IF k = j THEN v ELSE acked[k]
      BY <1>0 DEF Db!Over, Db!One
    <3>2. acked' = Db!Over(Db!One(j, v), acked)
      BY <2>1
    <3> QED  BY <3>1, <3>2, Zenon
  <2>3. DbTypeOK'
    BY <1>0, <2>1, <2>2 DEF AckInv, DbTypeOK
  <2>4. \A k \in DbKey : DbSettled(k)'
    BY <2>1, <2>2, CallSettles DEF AckInv, DbTypeOK
  <2> QED  BY <2>3, <2>4 DEF AckInv
<1>2. ASSUME NEW t \in Thread, NEW j \in DbKey, NEW v \in Val,
             Db!UpdateDelete(t, j, v)
      PROVE  AckInv'
  <2>1. /\ db' = [db EXCEPT ![j] = Missing]
        /\ updating' = [updating EXCEPT ![t] = <<j, v>>]
        /\ UNCHANGED <<acked, broken>>
        /\ updating[t] = Missing
    BY <1>2 DEF Db!UpdateDelete, Db!Idle
  <2>2. <<j, v>> \in DbKey \X Val /\ <<j, v>> # Missing
    BY StorageAssumption
  <2>3. DbTypeOK'
    BY <1>0, <2>1, <2>2 DEF AckInv, DbTypeOK
  <2>4. DbUpdates(t, j)'
    BY <2>1, <2>2 DEF DbUpdates, Db!Idle, AckInv, DbTypeOK
  <2>5. ASSUME NEW k \in DbKey PROVE DbSettled(k)'
    <3>1. CASE k = j
      <4>1. db'[k] = Missing
        BY <2>1, <3>1 DEF AckInv, DbTypeOK
      <4> QED  BY <2>4, <3>1, <4>1 DEF DbSettled, DbOpen
    <3>2. CASE k # j
      <4>1. db'[k] = db[k]
        BY <2>1, <3>2 DEF AckInv, DbTypeOK
      <4>2. \A s \in Thread : DbUpdates(s, k) => DbUpdates(s, k)'
        BY <2>1 DEF DbUpdates, Db!Idle, AckInv, DbTypeOK
      <4> QED  BY <2>1, <4>1, <4>2, StaysSettled DEF AckInv
    <3> QED  BY <3>1, <3>2
  <2> QED  BY <2>3, <2>5 DEF AckInv
<1>3. ASSUME NEW t \in Thread, Db!UpdatePut(t) PROVE AckInv'
  <2>1. PICK j \in DbKey, v \in Val : updating[t] = <<j, v>>
    BY <1>3 DEF Db!UpdatePut, Db!Idle, AckInv, DbTypeOK
  <2>2. /\ acked' = Db!Over(Db!One(j, v), acked)
        /\ broken' = broken \ DOMAIN Db!One(j, v)
        /\ db' = [db EXCEPT ![j] = v]
        /\ updating' = [updating EXCEPT ![t] = Missing]
    BY <1>3, <2>1 DEF Db!UpdatePut, Db!Done
  <2>3. /\ DOMAIN Db!One(j, v) = {j}
        /\ acked' \in [DbKey -> DbValue]
        /\ \A k \in DbKey : acked'[k] = IF k = j THEN v ELSE acked[k]
    <3>1. /\ DOMAIN Db!One(j, v) = {j}
          /\ Db!Over(Db!One(j, v), acked) \in [DbKey -> DbValue]
          /\ \A k \in DbKey :
               Db!Over(Db!One(j, v), acked)[k] = IF k = j THEN v ELSE acked[k]
      BY <1>0 DEF Db!Over, Db!One
    <3>2. acked' = Db!Over(Db!One(j, v), acked)
      BY <2>2
    <3> QED  BY <3>1, <3>2, Zenon
  <2>4. DbTypeOK'
    BY <1>0, <2>2, <2>3 DEF AckInv, DbTypeOK
  <2>5. ASSUME NEW k \in DbKey PROVE DbSettled(k)'
    <3>1. CASE k = j
      BY <2>2, <2>3, <3>1 DEF DbSettled, AckInv, DbTypeOK
    <3>2. CASE k # j
      <4>1. db'[k] = db[k] /\ acked'[k] = acked[k]
        BY <2>2, <2>3, <3>2 DEF AckInv, DbTypeOK
      <4>2. k \in broken => k \in broken'
        BY <2>2, <2>3, <3>2
      <4>3. \A s \in Thread : DbUpdates(s, k) => DbUpdates(s, k)'
        BY <2>1, <2>2, <3>2 DEF DbUpdates, Db!Idle, AckInv, DbTypeOK
      <4> QED  BY <4>1, <4>2, <4>3, StaysSettled DEF AckInv
    <3> QED  BY <3>1, <3>2
  <2> QED  BY <2>4, <2>5 DEF AckInv
<1>4. ASSUME NEW t \in Thread, Db!UpdateFails(t) PROVE AckInv'
  <2>1. PICK j \in DbKey, v \in Val : updating[t] = <<j, v>>
    BY <1>4 DEF Db!UpdateFails, Db!Idle, AckInv, DbTypeOK
  <2>2. /\ broken' = broken \cup {j}
        /\ updating' = [updating EXCEPT ![t] = Missing]
        /\ UNCHANGED <<db, acked>>
    BY <1>4, <2>1 DEF Db!UpdateFails
  <2>3. DbTypeOK'
    BY <2>2 DEF AckInv, DbTypeOK
  <2>4. ASSUME NEW k \in DbKey PROVE DbSettled(k)'
    <3>1. \A s \in Thread : DbUpdates(s, k) => DbUpdates(s, k)' \/ k \in broken'
      BY <2>1, <2>2 DEF DbUpdates, Db!Idle, AckInv, DbTypeOK
    <3> QED  BY <2>2, <3>1, StaysSettled DEF AckInv
  <2> QED  BY <2>3, <2>4 DEF AckInv
<1>5. ASSUME NEW t \in Thread, NEW j \in DbKey, Db!delete(t, j) PROVE AckInv'
  <2>1. /\ acked' = Db!Over(Db!One(j, Missing), acked)
        /\ broken' = broken \ DOMAIN Db!One(j, Missing)
        /\ db' = [db EXCEPT ![j] = Missing]
        /\ UNCHANGED updating
    BY <1>5 DEF Db!delete, Db!Done
  <2>2. /\ DOMAIN Db!One(j, Missing) = {j}
        /\ acked' \in [DbKey -> DbValue]
        /\ \A k \in DbKey : acked'[k] = IF k = j THEN Missing ELSE acked[k]
    <3>1. /\ DOMAIN Db!One(j, Missing) = {j}
          /\ Db!Over(Db!One(j, Missing), acked) \in [DbKey -> DbValue]
          /\ \A k \in DbKey :
               Db!Over(Db!One(j, Missing), acked)[k] =
                   IF k = j THEN Missing ELSE acked[k]
      BY <1>0 DEF Db!Over, Db!One
    <3>2. acked' = Db!Over(Db!One(j, Missing), acked)
      BY <2>1
    <3> QED  BY <3>1, <3>2, Zenon
  <2>3. DbTypeOK'
    BY <1>0, <2>1, <2>2 DEF AckInv, DbTypeOK
  <2>4. \A k \in DbKey : DbSettled(k)'
    BY <2>1, <2>2, CallSettles DEF AckInv, DbTypeOK
  <2> QED  BY <2>3, <2>4 DEF AckInv
<1>6. ASSUME NEW t \in Thread, NEW K \in SUBSET DbKey, NEW data \in [K -> Val],
             Db!batch_process(t, data)
      PROVE  AckInv'
  <2>1. /\ acked' = Db!Over(data, acked) /\ db' = Db!Over(data, db)
        /\ broken' = broken \ K
        /\ UNCHANGED updating
    BY <1>6 DEF Db!batch_process, Db!Done
  <2>2. data \in [K -> DbValue]
    BY <1>0
  <2>3. /\ acked' \in [DbKey -> DbValue]
        /\ \A k \in DbKey : acked'[k] = IF k \in K THEN data[k] ELSE acked[k]
    BY <2>1, <2>2, WritesOver, <1>0
  <2>4. /\ db' \in [DbKey -> DbValue]
        /\ \A k \in DbKey : db'[k] = IF k \in K THEN data[k] ELSE db[k]
    BY <2>1, <2>2, WritesOver, <1>0
  <2>5. DbTypeOK'
    BY <2>1, <2>3, <2>4 DEF AckInv, DbTypeOK
  <2>6. \A k \in DbKey : DbSettled(k)'
    BY <2>1, <2>3, <2>4, CallSettles
  <2> QED  BY <2>5, <2>6 DEF AckInv
<1>7. CASE Db!Crash
  <2>1. /\ UNCHANGED <<db, acked>>
        /\ updating' = [t \in Thread |-> Missing]
        /\ broken' = broken \cup
               {updating[t][1] : t \in {s \in Thread : ~Db!Idle(s)}}
    BY <1>7 DEF Db!Crash
  <2>2. \A t \in Thread : ~Db!Idle(t) => updating[t][1] \in DbKey
    BY DEF Db!Idle, AckInv, DbTypeOK
  <2>3. DbTypeOK'
    BY <1>0, <2>1, <2>2 DEF AckInv, DbTypeOK
  <2>4. ASSUME NEW k \in DbKey PROVE DbSettled(k)'
    <3>1. \A t \in Thread : DbUpdates(t, k) => k \in broken'
      BY <2>1 DEF DbUpdates
    <3> QED  BY <2>1, <3>1, StaysSettled DEF AckInv
  <2> QED  BY <2>3, <2>4 DEF AckInv
<1>8. CASE UNCHANGED (Db!vars)
  BY <1>8 DEF Db!vars, AckInv, DbTypeOK, DbSettled, DbOpen, DbUpdates, Db!Idle
<1> QED  BY <1>1, <1>2, <1>3, <1>4, <1>5, <1>6, <1>7, <1>8 DEF Db!Next

(* What a call of the database that returned True has left is found, but for *)
(* a key whose update is under way or was cut.                               *)
THEOREM Durable == StorageSpec => []Acknowledged
<1>1. AckInv => Acknowledged
    BY DEF AckInv, DbSettled, DbOpen, DbUpdates,
           Acknowledged, Db!Acknowledged, Db!select, Db!get_key_list
<1>2. AckInv /\ [Db!Next]_(Db!vars) => AckInv'
    BY AckStep
<1> QED BY DbSpec, AckInit, <1>1, <1>2, PTL DEF Db!Spec

-----------------------------------------------------------------------------
(* The profile, for any addresses and processes.                             *)

\* Who writes has loaded; what is loaded is known; one coinbase is known, and
\* the profile names it or is cut.
OneInv ==
    /\ address_coinbase \in [Process -> known \cup {None}]
    /\ \A p \in writing : p \in Process /\ address_coinbase[p] # None
    /\ \A a, b \in known : a = b
    /\ known # {} => profile \in known \cup {Cut}

LEMMA OneInit == Identity!Init => OneInv
BY DEF Identity!Init, OneInv

\* No start, write or end of a process makes a second coinbase.
LEMMA OneStep == OneInv /\ [Identity!Next]_(Identity!vars) => OneInv'
<1> SUFFICES ASSUME OneInv, [Identity!Next]_(Identity!vars) PROVE OneInv'
  OBVIOUS
<1> USE DEF OneInv
<1>1. ASSUME NEW p \in Process, Identity!loads(p) PROVE OneInv'
  <2>1. known' = {profile}
    BY <1>1, StorageAssumption DEF Identity!loads
  <2>2. known \subseteq known'
    BY <1>1 DEF Identity!loads
  <2> QED  BY <1>1, <2>1, <2>2 DEF Identity!loads
<1>2. ASSUME NEW p \in Process, Identity!CreateAccount(p) PROVE OneInv'
  BY <1>2 DEF Identity!CreateAccount
<1>3. ASSUME NEW p \in Process, Identity!OpenProfile(p) PROVE OneInv'
  BY <1>3 DEF Identity!OpenProfile
<1>4. ASSUME NEW p \in Process, Identity!WriteProfile(p) PROVE OneInv'
  BY <1>4 DEF Identity!WriteProfile
<1>5. ASSUME NEW p \in Process, Identity!End(p) PROVE OneInv'
  BY <1>5 DEF Identity!End
<1>6. CASE UNCHANGED Identity!vars
  BY <1>6 DEF Identity!vars
<1> QED  BY <1>1, <1>2, <1>3, <1>4, <1>5, <1>6 DEF Identity!Next

(* A node has at most one coinbase over all the starts, writes and ends of   *)
(* its processes, and its profile names no other.                            *)
THEOREM OneIdentity == StorageSpec => []IdentityStays
<1>1. OneInv => IdentityStays
  <2>0. Identity!Cardinality(known) = Cardinality(known)
    BY DEF Cardinality, Identity!Cardinality
  <2> SUFFICES ASSUME OneInv PROVE Cardinality(known) <= 1
    BY <2>0 DEF OneInv, IdentityStays, Identity!IdentityStays
  <2>1. CASE known = {}
    BY <2>1, FS_EmptySet
  <2>2. ASSUME NEW a \in known PROVE Cardinality(known) <= 1
    <3>1. known = {a}
      BY DEF OneInv
    <3>2. Cardinality({a}) = 1
      BY FS_Singleton
    <3> QED  BY <3>1, <3>2
  <2> QED  BY <2>1, <2>2
<1>2. OneInv /\ [Identity!Next]_(Identity!vars) => OneInv'
  BY OneStep
<1> QED
  BY IdentitySpec, OneInit, <1>1, <1>2, PTL DEF Identity!Spec
=============================================================================
