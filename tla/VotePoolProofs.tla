--------------------------- MODULE VotePoolProofs ---------------------------
(* Theorems about VotePool, for any votes, keys, waves and hashes.           *)
EXTENDS VotePool, FiniteSetTheorems, TLAPS

USE DataAssumption, VoteAssumption

-----------------------------------------------------------------------------
(* Types, and what a call leaves in each wave under each hash.               *)

LEMMA TypeInit == Init => TypeOK
BY DEF Init, TypeOK

LEMMA StageType ==
    /\ NewStage \in Stage
    /\ \A s \in Stage, h \in Hash, T \in {None} \cup SUBSET Data :
           [s EXCEPT ![h] = T] \in Stage
    /\ None \notin Stage
BY DEF Stage, NewStage

LEMMA VotedType ==
    ASSUME TypeOK, NEW w \in Wave, NEW h \in Hash
    PROVE  Voted(w, h) \in SUBSET Data
BY DEF TypeOK, Stage, Voted

LEMMA VotesType ==
    ASSUME TypeOK, NEW w \in Wave
    PROVE  Votes(w) \in SUBSET Data
BY VotedType DEF Votes

\* put_data adds the vote, in the place of the one with its key.
LEMMA PutVoted ==
    ASSUME TypeOK, NEW d \in Data, put_data(d)
    PROVE  /\ TypeOK'
           /\ \A v \in Wave, g \in Hash :
                  Voted(v, g)' =
                      IF v = GetWave[d] /\ g = GetHash[d]
                        THEN (Voted(v, g) \ WithKey(Data, GetKey[d])) \cup {d}
                        ELSE Voted(v, g)
<1> DEFINE w == GetWave[d]
           h == GetHash[d]
           k == GetKey[d]
           stage == IF dict_data[w] = None THEN NewStage ELSE dict_data[w]
           T == (Voted(w, h) \ WithKey(Data, k)) \cup {d}
<1>1. w \in Wave /\ h \in Hash /\ k \in Key
    OBVIOUS
<1>2. stage \in Stage
    BY <1>1, StageType DEF TypeOK
<1>3. T \in SUBSET Data
    BY <1>1, VotedType
<1>4. /\ dict_data' = [dict_data EXCEPT ![w] = [stage EXCEPT ![h] = T]]
      /\ dict_index' = [dict_index EXCEPT ![k] = w]
      /\ twice' \subseteq twice \cup {k}
      /\ UNCHANGED error
    BY DEF put_data, WithVote
<1>5. [stage EXCEPT ![h] = T] \in Stage
    BY <1>1, <1>2, <1>3, StageType
<1>6. \A g \in Hash : [stage EXCEPT ![h] = T][g] =
                          IF g = h THEN T ELSE stage[g]
    BY <1>2 DEF Stage
<1>7. \A g \in Hash : stage[g] = None \/ stage[g] = Voted(w, g)
    BY <1>1 DEF Voted, NewStage
<1>8. \A g \in Hash : stage[g] = None => Voted(w, g) = {}
    BY <1>1 DEF Voted, NewStage
<1> HIDE DEF stage, T
<1>9. TypeOK'
    BY <1>1, <1>4, <1>5 DEF TypeOK
<1>10. \A v \in Wave, g \in Hash :
           Voted(v, g)' = IF v = w /\ g = h THEN T ELSE Voted(v, g)
  <2> SUFFICES ASSUME NEW v \in Wave, NEW g \in Hash
               PROVE  Voted(v, g)' = IF v = w /\ g = h THEN T ELSE Voted(v, g)
    OBVIOUS
  <2>1. CASE v # w
    <3>1. dict_data'[v] = dict_data[v]
      BY <1>4, <2>1 DEF TypeOK
    <3> QED BY <2>1, <3>1 DEF Voted
  <2>2. CASE v = w
    <3>1. dict_data'[w] = [stage EXCEPT ![h] = T]
      BY <1>1, <1>4 DEF TypeOK
    <3>2. dict_data'[w] # None
      BY <3>1, <1>5, StageType
    <3>3. dict_data'[w][g] = IF g = h THEN T ELSE stage[g]
      BY <3>1, <1>6
    <3>4. T # None
      BY <1>3
    <3> QED BY <2>2, <3>2, <3>3, <3>4, <1>7, <1>8 DEF Voted
  <2> QED BY <2>1, <2>2
<1> QED BY <1>9, <1>10 DEF T

\* Voted, of the dictionaries dd
In(dd, w, h) ==
    IF dd[w] = None THEN {} ELSE IF dd[w][h] = None THEN {} ELSE dd[w][h]

\* dd without the vote of a key
Without(dd, w, h, k) == [dd EXCEPT ![w][h] = @ \ WithKey(Data, k)]

LEMMA VotedIn ==
    \A w \in Wave, h \in Hash : /\ Voted(w, h) = In(dict_data, w, h)
                              /\ Voted(w, h)' = In(dict_data', w, h)
BY DEF Voted, In

\* remove_data takes one vote out of the dictionary the index leads to.
LEMMA RemoveVoted ==
    ASSUME TypeOK, NEW w \in Wave, NEW h \in Hash, NEW k \in Key,
           dict_data[w] # None, dict_data[w][h] # None,
           dict_data' = Without(dict_data, w, h, k)
    PROVE  /\ dict_data' \in [Wave -> {None} \cup Stage]
           /\ \A v \in Wave, g \in Hash :
                  In(dict_data', v, g) =
                      IF v = w /\ g = h
                        THEN In(dict_data, v, g) \ WithKey(Data, k)
                        ELSE In(dict_data, v, g)
<1> DEFINE T == dict_data[w][h] \ WithKey(Data, k)
<1>1. dict_data[w] \in Stage /\ dict_data[w][h] \in SUBSET Data
    BY DEF TypeOK, Stage
<1>2. T \in SUBSET Data /\ T # None /\ In(dict_data, w, h) = dict_data[w][h]
    BY <1>1 DEF In
<1>3. dict_data' = [dict_data EXCEPT ![w] = [dict_data[w] EXCEPT ![h] = T]]
    BY <1>1 DEF TypeOK, Without
<1> HIDE DEF T
<1>4. [dict_data[w] EXCEPT ![h] = T] \in Stage
    BY <1>1, <1>2, StageType
<1>5. \A g \in Hash : [dict_data[w] EXCEPT ![h] = T][g] =
                          IF g = h THEN T ELSE dict_data[w][g]
    BY <1>1 DEF Stage
<1>6. dict_data' \in [Wave -> {None} \cup Stage]
  <2> DEFINE X == [dict_data[w] EXCEPT ![h] = T]
  <2> HIDE DEF X
  <2>1. X \in Stage /\ dict_data' = [dict_data EXCEPT ![w] = X]
    BY <1>3, <1>4 DEF X
  <2> DEFINE S == {None} \cup Stage
  <2>2. dict_data \in [Wave -> S] /\ X \in S
    BY <2>1 DEF TypeOK
  <2> HIDE DEF S
  <2>3. dict_data' \in [Wave -> S]
    BY <2>1, <2>2
  <2> QED BY <2>3 DEF S
<1>7. \A v \in Wave, g \in Hash :
          In(dict_data', v, g) =
              IF v = w /\ g = h THEN T ELSE In(dict_data, v, g)
  <2> SUFFICES ASSUME NEW v \in Wave, NEW g \in Hash
               PROVE  In(dict_data', v, g) =
                          IF v = w /\ g = h THEN T ELSE In(dict_data, v, g)
    OBVIOUS
  <2>1. CASE v # w
    <3>1. dict_data'[v] = dict_data[v]
      BY <1>3, <2>1 DEF TypeOK
    <3> QED BY <2>1, <3>1 DEF In
  <2>2. CASE v = w
    <3>1. dict_data'[w] = [dict_data[w] EXCEPT ![h] = T]
      BY <1>3 DEF TypeOK
    <3>2. dict_data'[w] # None
      BY <3>1, <1>4, StageType
    <3>3. dict_data'[w][g] = IF g = h THEN T ELSE dict_data[w][g]
      BY <3>1, <1>5
    <3> QED BY <2>2, <3>2, <3>3, <1>2 DEF In
  <2> QED BY <2>1, <2>2
<1> QED BY <1>2, <1>6, <1>7 DEF T

\* remove_stage leaves an empty dictionary for the wave.
LEMMA RemoveStageVoted ==
    ASSUME TypeOK, NEW w \in Wave,
           dict_data' = [dict_data EXCEPT ![w] = NewStage]
    PROVE  /\ dict_data' \in [Wave -> {None} \cup Stage]
           /\ \A v \in Wave, g \in Hash :
                  Voted(v, g)' = IF v = w THEN {} ELSE Voted(v, g)
<1>1. dict_data' \in [Wave -> {None} \cup Stage]
    BY StageType DEF TypeOK
<1>2. \A v \in Wave : dict_data'[v] = IF v = w THEN NewStage ELSE dict_data[v]
    BY DEF TypeOK
<1>3. \A g \in Hash : NewStage[g] = None
    BY DEF NewStage
<1> QED BY <1>1, <1>2, <1>3 DEF Voted

\* remove_stage_except leaves one wave.
LEMMA KeepVoted ==
    ASSUME TypeOK, NEW w \in Wave, remove_stage_except(w)
    PROVE  /\ dict_data' \in [Wave -> {None} \cup Stage]
           /\ \A v \in Wave, g \in Hash :
                  Voted(v, g)' = IF v = w THEN Voted(v, g) ELSE {}
<1>1. dict_data' \in [Wave -> {None} \cup Stage]
    BY DEF TypeOK, remove_stage_except
<1>2. \A v \in Wave : dict_data'[v] = IF v = w THEN dict_data[w] ELSE None
    BY DEF remove_stage_except
<1> QED BY <1>1, <1>2 DEF Voted

\* Every call keeps the types.
LEMMA TypeStep == TypeOK /\ [Next]_vars => TypeOK'
<1> SUFFICES ASSUME TypeOK, [Next]_vars PROVE TypeOK'
    OBVIOUS
<1>1. ASSUME NEW d \in Data, put_data(d) PROVE TypeOK'
    BY <1>1, PutVoted
<1>2. ASSUME NEW k \in Key, get_data(k) PROVE TypeOK'
    BY <1>2 DEF get_data, TypeOK
<1>3. ASSUME NEW k \in Key, remove_data(k) PROVE TypeOK'
  <2>1. /\ dict_index' \in [Key -> {None} \cup Wave]
        /\ error' \in {"none", "KeyError"} /\ twice' \in SUBSET Key
    BY <1>3 DEF remove_data, TypeOK
  <2>2. dict_data' \in [Wave -> {None} \cup Stage]
    <3> DEFINE w == dict_index[k]
               h == HashOf(k)
    <3>1. CASE UNCHANGED dict_data
      BY <3>1 DEF TypeOK
    <3>2. CASE /\ Leads(k) /\ k \in Keys(dict_data[w][h])
               /\ dict_data' = [dict_data EXCEPT ![w][h] = @ \ WithKey(Data, k)]
      <4>1. w \in Wave
        BY <1>3 DEF remove_data, Finds, TypeOK
      <4>2. dict_data[w] # None /\ dict_data[w][h] # None
        BY <3>2 DEF Leads
      <4> HIDE DEF w, h
      <4>3. CASE h \in Hash
        <5>1. dict_data' = Without(dict_data, w, h, k)
          BY <3>2 DEF Without
        <5> QED BY <4>1, <4>2, <4>3, <5>1, RemoveVoted
      <4>4. CASE h \notin Hash
        <5> DEFINE f == dict_data[w]
                   T == f[h] \ WithKey(Data, k)
        <5>1. f \in Stage
          BY <4>1, <4>2 DEF TypeOK
        <5>2. dict_data' = [dict_data EXCEPT ![w] = [f EXCEPT ![h] = T]]
          BY <3>2, <4>1 DEF TypeOK
        <5> HIDE DEF T
        <5>3. [f EXCEPT ![h] = T] = f
          BY <4>4, <5>1 DEF Stage
        <5>4. dict_data' = dict_data
          BY <4>1, <5>2, <5>3 DEF TypeOK
        <5> QED BY <5>4 DEF TypeOK
      <4> QED BY <4>3, <4>4
    <3> QED BY <1>3, <3>1, <3>2 DEF remove_data
  <2> QED BY <2>1, <2>2 DEF TypeOK
<1>4. ASSUME NEW w \in Wave, remove_stage(w) PROVE TypeOK'
  <2>1. /\ dict_index' \in [Key -> {None} \cup Wave]
        /\ error' \in {"none", "KeyError"} /\ twice' \in SUBSET Key
    BY <1>4 DEF remove_stage, TypeOK
  <2>2. dict_data' \in [Wave -> {None} \cup Stage]
    BY <1>4, RemoveStageVoted DEF remove_stage, TypeOK
  <2> QED BY <2>1, <2>2 DEF TypeOK
<1>5. ASSUME NEW w \in Wave, remove_stage_except(w) PROVE TypeOK'
    BY <1>5 DEF remove_stage_except, TypeOK
<1>6. ASSUME clear PROVE TypeOK'
    BY <1>6 DEF clear, TypeOK
<1>7. CASE UNCHANGED vars
    BY <1>7 DEF vars, TypeOK
<1> QED BY <1>1, <1>2, <1>3, <1>4, <1>5, <1>6, <1>7 DEF Next, Call

(* The dictionaries and the index are well typed.                            *)
THEOREM TypeCorrect == Spec => []TypeOK
BY TypeInit, TypeStep, PTL DEF Spec

-----------------------------------------------------------------------------
(* The votes as one set, of which each says where it is.                     *)

Stored == {d \in Data : d \in Voted(GetWave[d], GetHash[d])}

\* A vote is in the dictionary of its wave and its hash.
Placed ==
    \A w \in Wave, h \in Hash :
        \A d \in Voted(w, h) : GetWave[d] = w /\ GetHash[d] = h

\* A dictionary has one vote per key.
OnePerKey ==
    \A d, e \in Stored :
        (GetKey[d] = GetKey[e] /\ GetWave[d] = GetWave[e]) => d = e

\* IndexFits, of that set
IndexLeads ==
    /\ \A k \in Key : dict_index[k] # None =>
           \E d \in Stored : GetKey[d] = k /\ GetWave[d] = dict_index[k]
    /\ error = "none" =>
           \A d \in Stored : GetKey[d] \notin twice =>
                                 dict_index[GetKey[d]] = GetWave[d]

Inv == TypeOK /\ Placed /\ OnePerKey /\ IndexLeads /\ FailsOnTwiceOnly

LEMMA VotesAre ==
    TypeOK /\ Placed =>
        \A w \in Wave : Votes(w) = {d \in Stored : GetWave[d] = w}
<1> SUFFICES ASSUME TypeOK, Placed, NEW w \in Wave
             PROVE  Votes(w) = {d \in Stored : GetWave[d] = w}
    OBVIOUS
<1>1. ASSUME NEW d \in Votes(w) PROVE d \in Stored /\ GetWave[d] = w
  <2>1. PICK h \in Hash : d \in Voted(w, h)
    BY <1>1 DEF Votes
  <2> QED BY <2>1, VotedType DEF Placed, Stored
<1>2. ASSUME NEW d \in Stored, GetWave[d] = w PROVE d \in Votes(w)
    BY <1>2 DEF Stored, Votes
<1> QED BY <1>1, <1>2

LEMMA HashOfKey == \A d \in Data : HashOf(GetKey[d]) = GetHash[d]
BY KeyAssumption DEF HashOf

\* Where the index leads.
LEMMA IndexEntry ==
    ASSUME Inv, NEW k \in Key, Finds(k)
    PROVE  /\ dict_index[k] \in Wave
           /\ Leads(k)
           /\ HashOf(k) \in Hash
           /\ k \in Keys(dict_data[dict_index[k]][HashOf(k)])
           /\ GetData(k) \in Stored
           /\ GetKey[GetData(k)] = k
           /\ GetWave[GetData(k)] = dict_index[k]
<1> USE DEF Inv
<1> DEFINE w == dict_index[k]
           h == HashOf(k)
<1>1. w \in Wave
    BY DEF Finds, TypeOK
<1>2. PICK d \in Stored : GetKey[d] = k /\ GetWave[d] = w
    BY DEF Finds, IndexLeads
<1>3. d \in Data /\ h = GetHash[d] /\ h \in Hash
    BY <1>2, HashOfKey DEF Stored
<1>4. d \in Voted(w, h)
    BY <1>2, <1>3 DEF Stored
<1>5. dict_data[w] # None /\ dict_data[w][h] # None /\ d \in dict_data[w][h]
    BY <1>4 DEF Voted
<1>6. Leads(k)
    BY <1>5 DEF Leads
<1>7. k \in Keys(dict_data[w][h])
    BY <1>2, <1>5 DEF Keys
<1>8. d \in WithKey(Votes(w), k)
    BY <1>1, <1>2, VotesAre DEF WithKey
<1>9. GetData(k) \in WithKey(Votes(w), k)
    BY <1>8 DEF GetData
<1>10. /\ GetData(k) \in Stored /\ GetKey[GetData(k)] = k
       /\ GetWave[GetData(k)] = w
    BY <1>1, <1>9, VotesAre DEF WithKey
<1> QED BY <1>1, <1>3, <1>6, <1>7, <1>10

LEMMA PutStored ==
    ASSUME Inv, NEW d \in Data, put_data(d)
    PROVE  /\ TypeOK' /\ Placed'
           /\ Stored' = (Stored \ {e \in Stored : /\ GetKey[e] = GetKey[d]
                                                  /\ GetWave[e] = GetWave[d]})
                            \cup {d}
           /\ \A k \in Key : dict_index'[k] =
                  IF k = GetKey[d] THEN GetWave[d] ELSE dict_index[k]
           /\ error' = error /\ twice \subseteq twice'
           /\ GetKey[d] \notin twice' =>
                  \A e \in Stored :
                      GetKey[e] = GetKey[d] => GetWave[e] = GetWave[d]
<1> USE DEF Inv
<1> DEFINE w == GetWave[d]
           h == GetHash[d]
           k == GetKey[d]
<1>1. /\ TypeOK'
      /\ \A v \in Wave, g \in Hash :
             Voted(v, g)' = IF v = w /\ g = h
                              THEN (Voted(v, g) \ WithKey(Data, k)) \cup {d}
                              ELSE Voted(v, g)
    BY PutVoted
<1>2. Placed'
    BY <1>1 DEF Placed
<1>3. \A e \in Data : e \in Stored' <=>
          IF GetWave[e] = w /\ GetKey[e] = k THEN e = d ELSE e \in Stored
  <2> SUFFICES ASSUME NEW e \in Data
               PROVE  e \in Stored' <=>
                          IF GetWave[e] = w /\ GetKey[e] = k
                            THEN e = d ELSE e \in Stored
    OBVIOUS
  <2>1. GetKey[e] = k => GetHash[e] = h
    BY KeyAssumption
  <2>2. e \in Stored' <=> e \in Voted(GetWave[e], GetHash[e])'
    BY DEF Stored
  <2>3. e \in Voted(GetWave[e], GetHash[e])' <=>
            IF GetWave[e] = w /\ GetHash[e] = h
              THEN (e \in Stored /\ GetKey[e] # k) \/ e = d
              ELSE e \in Stored
    BY <1>1 DEF Stored, WithKey
  <2> QED BY <2>1, <2>2, <2>3
<1>4. Stored \subseteq Data /\ Stored' \subseteq Data
    BY DEF Stored
<1>5. Stored' = (Stored \ {e \in Stored : GetKey[e] = k /\ GetWave[e] = w})
                    \cup {d}
    BY <1>3, <1>4
<1>6. /\ dict_index' = [dict_index EXCEPT ![k] = w]
      /\ twice' = twice \cup
            {j \in {k} : \E v \in Wave \ {w} : WithKey(Votes(v), k) # {}}
      /\ error' = error
    BY DEF put_data
<1>7. ASSUME k \notin twice', NEW e \in Stored, GetKey[e] = k
      PROVE  GetWave[e] = w
  <2>1. \A v \in Wave \ {w} : WithKey(Votes(v), k) = {}
    BY <1>6, <1>7
  <2>2. e \in WithKey(Votes(GetWave[e]), k)
    BY <1>7, VotesAre DEF WithKey, Stored
  <2> QED BY <1>4, <2>1, <2>2
<1> QED BY <1>1, <1>2, <1>5, <1>6, <1>7 DEF TypeOK

LEMMA RemoveStored ==
    ASSUME Inv, NEW k \in Key, remove_data(k)
    PROVE  /\ Placed' /\ Finds(k)
           /\ Stored' = Stored \ {GetData(k)}
           /\ \A j \in Key : dict_index'[j] =
                  IF j = k THEN None ELSE dict_index[j]
           /\ error' = error /\ twice' = twice
<1> USE DEF Inv
<1> DEFINE w == dict_index[k]
           h == HashOf(k)
<1>1. Finds(k)
    BY DEF remove_data
<1>2. /\ w \in Wave /\ h \in Hash /\ Leads(k)
      /\ k \in Keys(dict_data[w][h])
      /\ GetData(k) \in Stored /\ GetKey[GetData(k)] = k
      /\ GetWave[GetData(k)] = w
    BY <1>1, IndexEntry
<1>3. /\ dict_index' = [dict_index EXCEPT ![k] = None]
      /\ dict_data' = [dict_data EXCEPT ![w][h] = @ \ WithKey(Data, k)]
      /\ error' = error /\ twice' = twice
    BY <1>2 DEF remove_data
<1>4. dict_data[w] # None /\ dict_data[w][h] # None
    BY <1>2 DEF Leads
<1> HIDE DEF w, h
<1>5. \A v \in Wave, g \in Hash :
          Voted(v, g)' = IF v = w /\ g = h THEN Voted(v, g) \ WithKey(Data, k)
                                           ELSE Voted(v, g)
  <2>1. \A v \in Wave, g \in Hash :
            In(dict_data', v, g) = IF v = w /\ g = h
                                     THEN In(dict_data, v, g) \ WithKey(Data, k)
                                     ELSE In(dict_data, v, g)
    <3>1. dict_data' = Without(dict_data, w, h, k)
      BY <1>3 DEF Without
    <3> QED BY <1>2, <1>4, <3>1, RemoveVoted
  <2> QED BY <2>1, VotedIn
<1>6. Placed'
    BY <1>5 DEF Placed
<1>7. \A e \in Data : e \in Stored' <=>
          e \in Stored /\ ~(GetWave[e] = w /\ GetKey[e] = k)
  <2> SUFFICES ASSUME NEW e \in Data
               PROVE  e \in Stored' <=>
                          e \in Stored /\ ~(GetWave[e] = w /\ GetKey[e] = k)
    OBVIOUS
  <2>1. GetKey[e] = k => GetHash[e] = h
    BY HashOfKey DEF h
  <2>2. e \in Stored' <=> e \in Voted(GetWave[e], GetHash[e])'
    BY DEF Stored
  <2>3. e \in Voted(GetWave[e], GetHash[e])' <=>
            /\ e \in Stored
            /\ ~(GetWave[e] = w /\ GetHash[e] = h /\ GetKey[e] = k)
    BY <1>5 DEF Stored, WithKey
  <2> QED BY <2>1, <2>2, <2>3
<1>8. Stored \subseteq Data /\ Stored' \subseteq Data
    BY DEF Stored
<1>9. \A e \in Stored : (GetWave[e] = w /\ GetKey[e] = k) <=> e = GetData(k)
    BY <1>2 DEF OnePerKey
<1>10. Stored' = Stored \ {GetData(k)}
    BY <1>7, <1>8, <1>9
<1> QED BY <1>1, <1>3, <1>6, <1>10 DEF TypeOK

LEMMA RemoveStageStored ==
    ASSUME Inv, error = "none", NEW w \in Wave, remove_stage(w)
    PROVE  /\ Placed' /\ twice' = twice
           /\ \/ /\ \A k \in Keys(Votes(w)) : Finds(k)
                 /\ Stored' = {e \in Stored : GetWave[e] # w}
                 /\ \A j \in Key : dict_index'[j] =
                        IF j \in Keys(Votes(w)) THEN None ELSE dict_index[j]
                 /\ error' = error
              \/ /\ twice # {}
                 /\ \E k \in Keys(Votes(w)) : ~Finds(k)
                 /\ Stored' = Stored
                 /\ \E K \in SUBSET {k \in Keys(Votes(w)) : Finds(k)} :
                        \A j \in Key : dict_index'[j] =
                            IF j \in K THEN None ELSE dict_index[j]
                 /\ error' = "KeyError"
<1> USE DEF Inv
<1>1. twice' = twice
    BY DEF remove_stage
<1>2. CASE /\ \A k \in Keys(Votes(w)) : Finds(k)
           /\ dict_index' = [j \in Key |-> IF j \in Keys(Votes(w))
                                             THEN None ELSE dict_index[j]]
           /\ dict_data' = [dict_data EXCEPT ![w] = NewStage]
           /\ error' = error
  <2>1. \A v \in Wave, g \in Hash :
            Voted(v, g)' = IF v = w THEN {} ELSE Voted(v, g)
    BY <1>2, RemoveStageVoted
  <2>2. Placed'
    BY <2>1 DEF Placed
  <2>3. Stored' = {e \in Stored : GetWave[e] # w}
    BY <2>1 DEF Stored
  <2> QED BY <1>1, <1>2, <2>2, <2>3
<1>3. CASE /\ \E k \in Keys(Votes(w)) : ~Finds(k)
           /\ \E K \in SUBSET {k \in Keys(Votes(w)) : Finds(k)} :
                  dict_index' = [j \in Key |-> IF j \in K
                                                 THEN None ELSE dict_index[j]]
           /\ error' = "KeyError"
           /\ dict_data' = dict_data
  <2>1. \A v \in Wave, g \in Hash : Voted(v, g)' = Voted(v, g)
    BY <1>3 DEF Voted
  <2>2. Placed' /\ Stored' = Stored
    BY <2>1 DEF Placed, Stored
  <2>3. PICK k \in Keys(Votes(w)) : ~Finds(k)
    BY <1>3
  <2>4. PICK d \in Votes(w) : GetKey[d] = k
    BY <2>3 DEF Keys
  <2>5. d \in Stored /\ dict_index[GetKey[d]] # GetWave[d]
    BY <2>3, <2>4, VotesAre DEF Finds, Stored
  <2>6. twice # {}
    BY <2>5 DEF IndexLeads
  <2> QED BY <1>1, <1>3, <2>2, <2>6
<1> QED BY <1>2, <1>3 DEF remove_stage

LEMMA KeepStageStored ==
    ASSUME Inv, NEW w \in Wave, remove_stage_except(w)
    PROVE  /\ Placed'
           /\ Stored' = {e \in Stored : GetWave[e] = w}
           /\ \A j \in Key : dict_index'[j] =
                  IF j \in Keys(Votes(w)) THEN w ELSE None
           /\ error' = error /\ twice' = twice
<1> USE DEF Inv
<1>2. \A v \in Wave, g \in Hash :
          Voted(v, g)' = IF v = w THEN Voted(v, g) ELSE {}
    BY KeepVoted
<1>3. Placed'
    BY <1>2 DEF Placed
<1>4. Stored' = {e \in Stored : GetWave[e] = w}
    BY <1>2 DEF Stored
<1> QED BY <1>3, <1>4 DEF remove_stage_except

LEMMA ClearStored ==
    ASSUME Inv, clear
    PROVE  /\ Placed'
           /\ Stored' = {}
           /\ \A j \in Key : dict_index'[j] = None
           /\ error' = error /\ twice' = twice
<1> USE DEF Inv
<1>1. \A v \in Wave, g \in Hash : Voted(v, g)' = {}
    BY DEF clear, Voted
<1> QED BY <1>1 DEF clear, Placed, Stored

\* get_data never drops an index entry.
LEMMA GetDataStored ==
    ASSUME Inv, NEW k \in Key, get_data(k)
    PROVE  UNCHANGED vars
<1>1. dict_index[k] \in Wave /\ Leads(k)
    BY IndexEntry DEF get_data
<1>2. dict_index' = dict_index
    BY <1>1 DEF get_data, Inv, TypeOK
<1> QED BY <1>2 DEF get_data, vars

\* The votes of a wave have the keys of the stored votes of that wave.
LEMMA KeysOfWave ==
    ASSUME Inv, NEW w \in Wave, NEW k \in Key
    PROVE  k \in Keys(Votes(w)) <=>
               \E d \in Stored : GetKey[d] = k /\ GetWave[d] = w
BY VotesAre DEF Inv, Keys

LEMMA InvInit == Init => Inv
<1> SUFFICES ASSUME Init PROVE Inv
    OBVIOUS
<1>1. TypeOK
    BY TypeInit
<1>2. \A w \in Wave, h \in Hash : Voted(w, h) = {}
    BY DEF Init, Voted
<1>3. Stored = {} /\ Placed
    BY <1>2 DEF Stored, Placed
<1> QED BY <1>1, <1>3 DEF Init, Inv, OnePerKey, IndexLeads, FailsOnTwiceOnly

LEMMA InvStep == Inv /\ [Next]_vars => Inv'
<1> SUFFICES ASSUME Inv, [Next]_vars PROVE Inv'
    OBVIOUS
<1>1. TypeOK'
    BY TypeStep DEF Inv
<1>2. Stored \subseteq Data /\ Stored' \subseteq Data
    BY DEF Stored
<1>3. CASE UNCHANGED vars
    BY <1>1, <1>3 DEF vars, Inv, Placed, OnePerKey, IndexLeads,
                      FailsOnTwiceOnly, Stored, Voted
<1>4. ASSUME NEW d \in Data, put_data(d) PROVE Inv'
  <2>1. /\ Placed'
        /\ Stored' = (Stored \ {e \in Stored : /\ GetKey[e] = GetKey[d]
                                               /\ GetWave[e] = GetWave[d]})
                         \cup {d}
        /\ \A k \in Key : dict_index'[k] =
               IF k = GetKey[d] THEN GetWave[d] ELSE dict_index[k]
        /\ error' = error /\ twice \subseteq twice'
        /\ GetKey[d] \notin twice' =>
               \A e \in Stored :
                   GetKey[e] = GetKey[d] => GetWave[e] = GetWave[d]
    BY <1>4, PutStored
  <2>2. OnePerKey'
    BY <2>1 DEF Inv, OnePerKey
  <2>3. ASSUME NEW k \in Key, dict_index'[k] # None
        PROVE  \E e \in Stored' : GetKey[e] = k /\ GetWave[e] = dict_index'[k]
    <3>1. CASE k = GetKey[d]
      BY <2>1, <3>1
    <3>2. CASE k # GetKey[d]
      <4>1. PICK e \in Stored : GetKey[e] = k /\ GetWave[e] = dict_index[k]
        BY <2>1, <2>3, <3>2 DEF Inv, IndexLeads
      <4> QED BY <2>1, <3>2, <4>1
    <3> QED BY <3>1, <3>2
  <2>4. ASSUME error' = "none", NEW e \in Stored', GetKey[e] \notin twice'
        PROVE  dict_index'[GetKey[e]] = GetWave[e]
    BY <1>2, <2>1, <2>4 DEF Inv, IndexLeads
  <2>5. FailsOnTwiceOnly'
    BY <2>1 DEF Inv, FailsOnTwiceOnly
  <2> QED BY <1>1, <2>1, <2>2, <2>3, <2>4, <2>5 DEF Inv, IndexLeads
<1>5. ASSUME NEW k \in Key, remove_data(k) PROVE Inv'
  <2> DEFINE x == GetData(k)
  <2>1. /\ Placed' /\ Stored' = Stored \ {x}
        /\ \A j \in Key : dict_index'[j] =
               IF j = k THEN None ELSE dict_index[j]
        /\ error' = error /\ twice' = twice
        /\ Finds(k)
    BY <1>5, RemoveStored
  <2>2. x \in Stored /\ GetKey[x] = k /\ GetWave[x] = dict_index[k]
    BY <2>1, IndexEntry
  <2> HIDE DEF x
  <2>3. OnePerKey'
    BY <2>1 DEF Inv, OnePerKey
  <2>4. ASSUME NEW j \in Key, dict_index'[j] # None
        PROVE  \E e \in Stored' : GetKey[e] = j /\ GetWave[e] = dict_index'[j]
    BY <2>1, <2>2, <2>4 DEF Inv, IndexLeads
  <2>5. ASSUME error' = "none", NEW e \in Stored', GetKey[e] \notin twice'
        PROVE  dict_index'[GetKey[e]] = GetWave[e]
    <3>1. e \in Stored /\ e # x /\ dict_index[GetKey[e]] = GetWave[e]
      BY <2>1, <2>5 DEF Inv, IndexLeads
    <3>2. GetKey[e] # k
      BY <2>2, <3>1 DEF Inv, OnePerKey
    <3> QED BY <1>2, <2>1, <3>1, <3>2
  <2>6. FailsOnTwiceOnly'
    BY <2>1 DEF Inv, FailsOnTwiceOnly
  <2> QED BY <1>1, <2>1, <2>3, <2>4, <2>5, <2>6 DEF Inv, IndexLeads
<1>6. ASSUME error = "none", NEW w \in Wave, remove_stage(w) PROVE Inv'
  <2>1. Placed' /\ twice' = twice
    BY <1>6, RemoveStageStored
  <2>2. CASE /\ Stored' = {e \in Stored : GetWave[e] # w}
             /\ \A j \in Key : dict_index'[j] =
                    IF j \in Keys(Votes(w)) THEN None ELSE dict_index[j]
             /\ error' = error
    <3>1. OnePerKey'
      BY <2>2 DEF Inv, OnePerKey
    <3>2. ASSUME NEW j \in Key, dict_index'[j] # None
          PROVE  \E e \in Stored' :
                     GetKey[e] = j /\ GetWave[e] = dict_index'[j]
      <4>1. j \notin Keys(Votes(w)) /\ dict_index'[j] = dict_index[j]
        BY <2>2, <3>2
      <4>2. PICK e \in Stored : GetKey[e] = j /\ GetWave[e] = dict_index[j]
        BY <3>2, <4>1 DEF Inv, IndexLeads
      <4>3. GetWave[e] # w
        BY <4>1, <4>2, KeysOfWave
      <4> QED BY <2>2, <4>1, <4>2, <4>3
    <3>3. ASSUME error' = "none", NEW e \in Stored', GetKey[e] \notin twice'
          PROVE  dict_index'[GetKey[e]] = GetWave[e]
      <4>1. /\ e \in Stored /\ GetWave[e] # w /\ GetKey[e] \in Key
            /\ dict_index[GetKey[e]] = GetWave[e]
        BY <1>2, <2>1, <2>2, <3>3 DEF Inv, IndexLeads
      <4>2. GetKey[e] \notin Keys(Votes(w))
        <5> SUFFICES ASSUME GetKey[e] \in Keys(Votes(w)) PROVE FALSE
          OBVIOUS
        <5>1. PICK d \in Stored : GetKey[d] = GetKey[e] /\ GetWave[d] = w
          BY <4>1, KeysOfWave
        <5>2. dict_index[GetKey[d]] = GetWave[d]
          BY <1>6, <2>1, <3>3, <5>1 DEF Inv, IndexLeads
        <5> QED BY <4>1, <5>1, <5>2
      <4> QED BY <2>2, <4>1, <4>2
    <3>4. FailsOnTwiceOnly'
      BY <2>1, <2>2 DEF Inv, FailsOnTwiceOnly
    <3> QED BY <1>1, <2>1, <3>1, <3>2, <3>3, <3>4 DEF Inv, IndexLeads
  <2>3. CASE /\ twice # {} /\ Stored' = Stored
             /\ \E K \in SUBSET {k \in Keys(Votes(w)) : Finds(k)} :
                    \A j \in Key : dict_index'[j] =
                        IF j \in K THEN None ELSE dict_index[j]
             /\ error' = "KeyError"
    <3>1. OnePerKey'
      BY <2>3 DEF Inv, OnePerKey
    <3>2. \A j \in Key : dict_index'[j] # None => dict_index'[j] = dict_index[j]
      BY <2>3
    <3>3. ASSUME NEW j \in Key, dict_index'[j] # None
          PROVE  \E e \in Stored' :
                     GetKey[e] = j /\ GetWave[e] = dict_index'[j]
      BY <2>3, <3>2, <3>3 DEF Inv, IndexLeads
    <3>4. FailsOnTwiceOnly'
      BY <2>1, <2>3 DEF FailsOnTwiceOnly
    <3>5. error' # "none"
      BY <2>3
    <3> QED BY <1>1, <2>1, <3>1, <3>3, <3>4, <3>5 DEF Inv, IndexLeads
  <2> QED BY <1>6, <2>2, <2>3, RemoveStageStored
<1>7. ASSUME NEW w \in Wave, remove_stage_except(w) PROVE Inv'
  <2>1. /\ Placed' /\ Stored' = {e \in Stored : GetWave[e] = w}
        /\ \A j \in Key : dict_index'[j] =
               IF j \in Keys(Votes(w)) THEN w ELSE None
        /\ error' = error /\ twice' = twice
    BY <1>7, KeepStageStored
  <2>2. OnePerKey'
    BY <2>1 DEF Inv, OnePerKey
  <2>3. ASSUME NEW j \in Key, dict_index'[j] # None
        PROVE  \E e \in Stored' : GetKey[e] = j /\ GetWave[e] = dict_index'[j]
    <3>1. j \in Keys(Votes(w)) /\ dict_index'[j] = w
      BY <2>1, <2>3
    <3> QED BY <2>1, <3>1, KeysOfWave
  <2>4. ASSUME NEW e \in Stored' PROVE dict_index'[GetKey[e]] = GetWave[e]
    <3>1. e \in Stored /\ GetWave[e] = w /\ GetKey[e] \in Key
      BY <1>2, <2>1
    <3> QED BY <2>1, <3>1, KeysOfWave
  <2>5. FailsOnTwiceOnly'
    BY <2>1 DEF Inv, FailsOnTwiceOnly
  <2> QED BY <1>1, <2>1, <2>2, <2>3, <2>4, <2>5 DEF Inv, IndexLeads
<1>8. ASSUME clear PROVE Inv'
  <2>1. /\ Placed' /\ Stored' = {}
        /\ \A j \in Key : dict_index'[j] = None
        /\ error' = error /\ twice' = twice
    BY <1>8, ClearStored
  <2> QED BY <1>1, <2>1 DEF Inv, OnePerKey, IndexLeads, FailsOnTwiceOnly
<1>9. ASSUME NEW k \in Key, get_data(k) PROVE Inv'
    BY <1>3, <1>9, GetDataStored
<1> QED BY <1>3, <1>4, <1>5, <1>6, <1>7, <1>8, <1>9 DEF Next, Call

LEMMA Invariant == Spec => []Inv
BY InvInit, InvStep, PTL DEF Spec

(* Whatever the sequence of the calls, a key that is in the index is a vote  *)
(* of the wave the index names, and one that has only been in one wave at a  *)
(* time is in no dictionary without being in the index.                      *)
THEOREM IndexRight == Spec => []IndexFits
<1>1. Inv => IndexFits
  <2> SUFFICES ASSUME Inv, NEW k \in Key
               PROVE  /\ Finds(k) => k \in Keys(Votes(dict_index[k]))
                      /\ error = "none" /\ k \notin twice =>
                             \A w \in Wave : k \in Keys(Votes(w)) =>
                                                 dict_index[k] = w
    BY DEF IndexFits
  <2>1. ASSUME Finds(k) PROVE k \in Keys(Votes(dict_index[k]))
    <3>1. dict_index[k] \in Wave
      BY <2>1 DEF Finds, Inv, TypeOK
    <3> QED BY <2>1, <3>1, KeysOfWave DEF Finds, Inv, IndexLeads
  <2>2. ASSUME error = "none", k \notin twice, NEW w \in Wave,
               k \in Keys(Votes(w))
        PROVE  dict_index[k] = w
    BY <2>2, KeysOfWave DEF Inv, IndexLeads
  <2> QED BY <2>1, <2>2
<1> QED BY <1>1, Invariant, PTL

(* A removal fails half way only after a vote has been in two waves at once. *)
THEOREM FailsOnTwice == Spec => []FailsOnTwiceOnly
<1>1. Inv => FailsOnTwiceOnly
    BY DEF Inv
<1> QED BY <1>1, Invariant, PTL

-----------------------------------------------------------------------------
(* Counting the votes.                                                       *)

\* Votes with distinct keys are as many as their keys.
LEMMA AsManyKeys ==
    ASSUME NEW S \in SUBSET Data,
           \A d, e \in S : GetKey[d] = GetKey[e] => d = e
    PROVE  Cardinality(Keys(S)) = Cardinality(S)
<1> DEFINE T == Keys(S)
           f == [d \in S |-> GetKey[d]]
<1>1. IsFiniteSet(S)
    BY FS_Subset
<1>2. f \in [S -> T]
    BY DEF Keys
<1>3. \A d, e \in S : f[d] = f[e] => d = e
    OBVIOUS
<1>4. \A t \in T : \E d \in S : f[d] = t
    BY DEF Keys
<1> HIDE DEF f, T
<1>5. f \in Injection(S, T)
    BY <1>2, <1>3 DEF Injection, IsInjective
<1>6. f \in Surjection(S, T)
    BY <1>2, <1>4 DEF Surjection
<1>7. ExistsBijection(S, T)
    BY <1>5, <1>6 DEF ExistsBijection, Bijection
<1>8. Cardinality(T) = Cardinality(S)
    BY <1>1, <1>7, FS_Bijection
<1> QED BY <1>8 DEF T

(* However often a vote arrives, and whatever was removed meanwhile,         *)
(* get_vote_result gives the number of different votes of the wave for each  *)
(* hash.                                                                     *)
THEOREM CountedOnce == Spec => []CountsOnce
<1>1. Inv => CountsOnce
  <2> SUFFICES ASSUME Inv, NEW w \in Wave, GetVoteResult(w) # None,
                      NEW h \in DOMAIN GetVoteResult(w)
               PROVE  GetVoteResult(w)[h] =
                          Cardinality(Keys({d \in Votes(w) : GetHash[d] = h}))
    BY DEF CountsOnce
  <2> DEFINE S == {d \in Votes(w) : GetHash[d] = h}
  <2>1. dict_data[w] # None
    BY DEF GetVoteResult
  <2>2. /\ h \in Hash /\ dict_data[w][h] # None
        /\ GetVoteResult(w)[h] = Cardinality(Voted(w, h))
    BY <2>1 DEF GetVoteResult, Voted
  <2>3. S = Voted(w, h)
    BY <2>2 DEF Votes, Inv, Placed
  <2>4. S \in SUBSET Data
    BY VotesType DEF Inv
  <2>5. \A d \in S : d \in Stored /\ GetWave[d] = w
    BY VotesAre DEF Inv
  <2>6. \A d, e \in S : GetKey[d] = GetKey[e] => d = e
    BY <2>5 DEF Inv, OnePerKey
  <2> HIDE DEF S
  <2>7. Cardinality(Keys(S)) = Cardinality(S)
    BY <2>4, <2>6, AsManyKeys
  <2> QED BY <2>2, <2>3, <2>7 DEF S
<1> QED BY <1>1, Invariant, PTL

-----------------------------------------------------------------------------
(* The refinement: the Pool holds Stored, and finds the votes that the index *)
(* leads to.                                                                 *)

Indexed == {d \in Stored : dict_index[GetKey[d]] = GetWave[d]}

LEMMA Mapping == Inv => Held = Stored /\ Found = Indexed
<1> SUFFICES ASSUME Inv PROVE Held = Stored /\ Found = Indexed
    OBVIOUS
<1>1. Held = Stored
  <2>1. \A d \in Held : d \in Stored
    BY VotesAre DEF Held, Inv
  <2>2. \A d \in Stored : d \in Held
    BY VotesAre DEF Held, Inv, Stored
  <2> QED BY <2>1, <2>2
<1>2. ASSUME NEW d \in Found PROVE d \in Indexed
  <2>1. PICK k \in Key : Finds(k) /\ d = GetData(k)
    BY <1>2 DEF Found
  <2> QED BY <2>1, IndexEntry DEF Indexed
<1>3. ASSUME NEW d \in Indexed PROVE d \in Found
  <2> DEFINE k == GetKey[d]
  <2>1. d \in Data /\ d \in Stored /\ k \in Key /\ Finds(k)
    BY <1>3 DEF Indexed, Stored, Finds
  <2>2. GetData(k) \in Stored /\ GetKey[GetData(k)] = k
        /\ GetWave[GetData(k)] = GetWave[d]
    BY <1>3, <2>1, IndexEntry DEF Indexed
  <2>3. GetData(k) = d
    BY <2>1, <2>2 DEF Inv, OnePerKey
  <2> QED BY <2>1, <2>3 DEF Found
<1> QED BY <1>1, <1>2, <1>3

MappingHolds == Held = Stored /\ Found = Indexed

LEMMA MappingNow == Inv => MappingHolds
BY Mapping DEF MappingHolds

LEMMA MappingNext == Inv' => MappingHolds'
BY MappingNow, PTL

LEMMA RefineInit == Init => Abstract!Init
<1> SUFFICES ASSUME Init PROVE Abstract!Init
    OBVIOUS
<1>1. \A w \in Wave, h \in Hash : Voted(w, h) = {}
    BY DEF Init, Voted
<1>2. Stored = {} /\ Indexed = {}
    BY <1>1 DEF Stored, Indexed
<1> QED BY <1>2, InvInit, Mapping DEF Abstract!Init

LEMMA RefineStep ==
    Inv /\ Inv' /\ [Next]_vars => [Abstract!Next]_<<Held, Found>>
<1> SUFFICES ASSUME Inv, Inv', [Next]_vars
             PROVE  Abstract!Next \/ (Held' = Held /\ Found' = Found)
    OBVIOUS
<1>1. Held = Stored /\ Found = Indexed /\ Held' = Stored' /\ Found' = Indexed'
    BY MappingNow, MappingNext DEF MappingHolds
<1>2. Stored \subseteq Data /\ Stored' \subseteq Data
    BY DEF Stored
<1>3. ASSUME NEW d \in Data, put_data(d) PROVE Abstract!Put(d)
  <2>1. /\ Stored' = (Stored \ {e \in Stored : /\ GetKey[e] = GetKey[d]
                                               /\ GetWave[e] = GetWave[d]})
                         \cup {d}
        /\ \A k \in Key : dict_index'[k] =
               IF k = GetKey[d] THEN GetWave[d] ELSE dict_index[k]
    BY <1>3, PutStored
  <2>2. Indexed' = {e \in Indexed : GetKey[e] # GetKey[d]} \cup {d}
    BY <1>2, <2>1 DEF Indexed
  <2> QED BY <1>1, <2>1, <2>2 DEF Abstract!Put, Abstract!Same
<1>4. ASSUME NEW k \in Key, remove_data(k)
      PROVE  \E d \in Data : Abstract!Remove(d)
  <2> DEFINE x == GetData(k)
  <2>1. /\ Stored' = Stored \ {x}
        /\ \A j \in Key : dict_index'[j] = IF j = k THEN None ELSE dict_index[j]
        /\ Finds(k)
    BY <1>4, RemoveStored
  <2>2. x \in Stored /\ GetKey[x] = k /\ GetWave[x] = dict_index[k]
    BY <2>1, IndexEntry
  <2> HIDE DEF x
  <2>3. x \in Data /\ x \in Indexed
    BY <1>2, <2>2 DEF Indexed
  <2>4. \A e \in Stored : e \in Indexed /\ e # x => GetKey[e] # k
    BY <2>2 DEF Inv, OnePerKey, Indexed
  <2>5. \A e \in Stored : GetKey[e] \in Key /\ GetWave[e] # None
    BY <1>2
  <2>6. Indexed' = Indexed \ {x}
    BY <2>1, <2>2, <2>4, <2>5 DEF Indexed
  <2> QED BY <1>1, <2>1, <2>3, <2>6 DEF Abstract!Remove
<1>5. ASSUME error = "none", NEW w \in Wave, remove_stage(w)
      PROVE  Abstract!RemoveWave(w) \/ Abstract!RemoveWaveFails(w)
  <2> DEFINE K == Abstract!Keys(Abstract!InWave(Held, w))
             G == Abstract!Keys(Found)
  <2>1. K = Keys(Votes(w))
    <3>1. Abstract!InWave(Held, w) = Votes(w)
      BY <1>1, VotesAre DEF Abstract!InWave, Inv
    <3> QED BY <3>1 DEF Abstract!Keys, Keys
  <2>2. G = {k \in Key : Finds(k)}
    <3>1. \A k \in Key : Finds(k) => k \in G
      <4> SUFFICES ASSUME NEW k \in Key, Finds(k) PROVE k \in G
        OBVIOUS
      <4>1. GetData(k) \in Indexed /\ GetKey[GetData(k)] = k
        BY IndexEntry DEF Indexed
      <4> QED BY <1>1, <4>1 DEF Abstract!Keys
    <3>2. \A k \in G : k \in Key /\ Finds(k)
      BY <1>1, <1>2 DEF Indexed, Finds, Abstract!Keys
    <3> QED BY <3>1, <3>2
  <2>3. \A k \in Keys(Votes(w)) : k \in Key
    BY VotesType DEF Keys, Inv
  <2> HIDE DEF K, G
  <2>4. CASE /\ \A k \in Keys(Votes(w)) : Finds(k)
             /\ Stored' = {e \in Stored : GetWave[e] # w}
             /\ \A j \in Key : dict_index'[j] =
                    IF j \in Keys(Votes(w)) THEN None ELSE dict_index[j]
    <3>1. \A e \in Stored : GetWave[e] = w => GetKey[e] \in Keys(Votes(w))
      BY <1>2, KeysOfWave
    <3>2. \A e \in Stored : GetKey[e] \in Key /\ GetWave[e] # None
      BY <1>2
    <3>3. Indexed' = {e \in Indexed : GetKey[e] \notin Keys(Votes(w))}
      BY <2>4, <3>1, <3>2 DEF Indexed
    <3>4. Keys(Votes(w)) \subseteq {k \in Key : Finds(k)}
      BY <2>3, <2>4
    <3>5. Abstract!RemoveWave(w)
      <4>1. K \subseteq G
        BY <2>1, <2>2, <3>4
      <4>2. Held' = Held \ Abstract!InWave(Held, w)
        BY <1>1, <2>4 DEF Abstract!InWave
      <4>3. Found' = {d \in Found : GetKey[d] \notin K}
        BY <1>1, <2>1, <3>3
      <4> QED BY <4>1, <4>2, <4>3 DEF Abstract!RemoveWave, K, G
    <3> QED BY <3>5
  <2>5. CASE /\ \E k \in Keys(Votes(w)) : ~Finds(k)
             /\ Stored' = Stored
             /\ \E L \in SUBSET {k \in Keys(Votes(w)) : Finds(k)} :
                    \A j \in Key : dict_index'[j] =
                        IF j \in L THEN None ELSE dict_index[j]
    <3>1. PICK L \in SUBSET {k \in Keys(Votes(w)) : Finds(k)} :
              \A j \in Key : dict_index'[j] =
                  IF j \in L THEN None ELSE dict_index[j]
      BY <2>5
    <3>2. \A e \in Stored : GetKey[e] \in Key /\ GetWave[e] # None
      BY <1>2
    <3>3. /\ Indexed' \subseteq Indexed
          /\ \A e \in Indexed : e \notin Indexed' => GetKey[e] \in L
      BY <2>5, <3>1, <3>2 DEF Indexed
    <3>4. ~(K \subseteq G)
      BY <2>1, <2>2, <2>5
    <3>5. Abstract!Keys(Found \ Found') \subseteq K
      BY <1>1, <2>1, <3>1, <3>3 DEF Abstract!Keys
    <3>6. Abstract!RemoveWaveFails(w)
      <4>1. Held' = Held /\ Found' \subseteq Found
        BY <1>1, <2>5, <3>3
      <4> QED BY <3>4, <3>5, <4>1 DEF Abstract!RemoveWaveFails, K, G
    <3> QED BY <3>6
  <2> QED BY <1>5, <2>4, <2>5, RemoveStageStored
<1>6. ASSUME NEW w \in Wave, remove_stage_except(w) PROVE Abstract!KeepWave(w)
  <2>1. /\ Stored' = {e \in Stored : GetWave[e] = w}
        /\ \A j \in Key : dict_index'[j] =
               IF j \in Keys(Votes(w)) THEN w ELSE None
    BY <1>6, KeepStageStored
  <2>2. \A e \in Stored : GetWave[e] = w =>
            GetKey[e] \in Key /\ GetKey[e] \in Keys(Votes(w))
    BY <1>2, KeysOfWave
  <2>3. Indexed' = {e \in Stored : GetWave[e] = w}
    BY <2>1, <2>2 DEF Indexed
  <2> QED BY <1>1, <2>1, <2>3 DEF Abstract!KeepWave, Abstract!InWave
<1>7. ASSUME clear PROVE Abstract!Clear
  <2>1. Stored' = {} /\ Indexed' = {}
    BY <1>7, ClearStored DEF Indexed
  <2> QED BY <1>1, <2>1 DEF Abstract!Clear
<1>8. ASSUME UNCHANGED vars PROVE Held' = Held /\ Found' = Found
  <2>1. Stored' = Stored /\ Indexed' = Indexed
    BY <1>8 DEF vars, Stored, Indexed, Voted
  <2> QED BY <1>1, <2>1
<1>9. ASSUME NEW k \in Key, get_data(k)
      PROVE  Held' = Held /\ Found' = Found
  <2>1. UNCHANGED vars
    BY <1>9, GetDataStored
  <2> QED BY <1>8, <2>1
<1>10. CASE error = "none" /\ Call
  <2>1. ASSUME NEW d \in Data, put_data(d) PROVE Abstract!Next
    BY <1>3, <2>1 DEF Abstract!Next
  <2>2. ASSUME NEW k \in Key, remove_data(k) PROVE Abstract!Next
    BY <1>4, <2>2 DEF Abstract!Next
  <2>3. ASSUME NEW w \in Wave, remove_stage(w) PROVE Abstract!Next
    BY <1>5, <1>10, <2>3 DEF Abstract!Next
  <2>4. ASSUME NEW w \in Wave, remove_stage_except(w) PROVE Abstract!Next
    BY <1>6, <2>4 DEF Abstract!Next
  <2>5. ASSUME clear PROVE Abstract!Next
    BY <1>7, <2>5 DEF Abstract!Next
  <2> QED BY <1>9, <1>10, <2>1, <2>2, <2>3, <2>4, <2>5 DEF Call
<1> QED BY <1>8, <1>10 DEF Next

(* The dictionaries and the index implement the Pool of LLFC, whatever the   *)
(* sequence of the calls.                                                    *)
THEOREM Refinement == Spec => ImplementsPool
<1>1. Spec => Abstract!Init /\ [][Abstract!Next]_<<Held, Found>>
    BY InvInit, Invariant, RefineInit, RefineStep, PTL DEF Spec
<1> QED BY <1>1 DEF ImplementsPool, Abstract!Spec
=============================================================================
