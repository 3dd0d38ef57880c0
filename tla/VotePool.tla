------------------------------ MODULE VotePool ------------------------------
(* The pool of votes (gbrick/consensus/base/datapool.py, class VotePool): by *)
(* wave, by the hash that was voted for, by the hash of the vote; with an    *)
(* index that keeps one wave per vote.  The hash of a vote covers the hash   *)
(* it votes for and its creator, and not the retry count, so it may come in  *)
(* several waves.  Nothing puts a key into set_deleted_key.                  *)
EXTENDS VoteData

VARIABLES
    dict_data,  \* by wave, by hash: the votes, with distinct keys
    dict_index, \* by key: the wave; the hash is the key's
    error,      \* the exception that ended the thread
    twice       \* history: the keys that have been in two waves at once

vars == <<dict_data, dict_index, error, twice>>

Stage == [Hash -> {None} \cup SUBSET Data]

TypeOK ==
    /\ dict_data \in [Wave -> {None} \cup Stage]
    /\ dict_index \in [Key -> {None} \cup Wave]
    /\ error \in {"none", "KeyError"}
    /\ twice \in SUBSET Key

Init ==
    /\ dict_data = [w \in Wave |-> None]
    /\ dict_index = [k \in Key |-> None]
    /\ error = "none"
    /\ twice = {}

\* dict_data.get(w).get(h), nothing where one of them is not there
Voted(w, h) ==
    IF dict_data[w] = None THEN {}
      ELSE IF dict_data[w][h] = None THEN {} ELSE dict_data[w][h]

Votes(w) == UNION {Voted(w, h) : h \in Hash}

Keys(S) == {GetKey[d] : d \in S}
WithKey(S, k) == {d \in S : GetKey[d] = k}
Finds(k) == dict_index[k] # None

\* The second component of the index entry of k
HashOf(k) == GetHash[CHOOSE d \in Data : GetKey[d] = k]

\* get_data, when it returns a vote
GetData(k) == CHOOSE d \in WithKey(Votes(dict_index[k]), k) : TRUE

\* get_vote_result
GetVoteResult(w) ==
    IF dict_data[w] = None THEN None
      ELSE [h \in {g \in Hash : dict_data[w][g] # None} |->
               Cardinality(dict_data[w][h])]

-----------------------------------------------------------------------------
NewStage == [h \in Hash |-> None]

\* Mutant: votes are collected in a list, where they may be twice.
WithVoteTwice(w, d) ==
    LET stage == IF dict_data[w] = None THEN NewStage ELSE dict_data[w]
    IN  [dict_data EXCEPT ![w] =
            [stage EXCEPT ![GetHash[d]] = Voted(w, GetHash[d]) \cup {d}]]

\* put_data, the dictionaries
WithVote(w, d) ==
    LET stage == IF dict_data[w] = None THEN NewStage ELSE dict_data[w]
    IN  [dict_data EXCEPT ![w] =
            [stage EXCEPT ![GetHash[d]] =
                (Voted(w, GetHash[d]) \ WithKey(Data, GetKey[d])) \cup {d}]]

put_data(d) ==
    LET k == GetKey[d]
        w == GetWave[d]
    IN  /\ dict_data' = WithVote(w, d)
        /\ dict_index' = [dict_index EXCEPT ![k] = w]
        /\ twice' = twice \cup
            {j \in {k} : \E v \in Wave \ {w} : WithKey(Votes(v), k) # {}}
        /\ UNCHANGED error

\* The index entry of k leads to a dictionary of votes.
Leads(k) ==
    LET w == dict_index[k]
    IN  dict_data[w] # None /\ dict_data[w][HashOf(k)] # None

\* get_data drops an index entry that leads to no dictionary.
get_data(k) ==
    /\ Finds(k)
    /\ dict_index' = [dict_index EXCEPT ![k] = IF Leads(k) THEN @ ELSE None]
    /\ UNCHANGED <<dict_data, error, twice>>

\* A key that is not in the index is ignored, and so is one that leads to no
\* dictionary; one that is not in the dictionary it leads to is a KeyError.
remove_data(k) ==
    LET w == dict_index[k]
        h == HashOf(k)
        found == Leads(k) /\ k \in Keys(dict_data[w][h])
    IN  /\ Finds(k)
        /\ dict_index' = [dict_index EXCEPT ![k] = None]
        /\ dict_data' =
            IF found THEN [dict_data EXCEPT ![w][h] = @ \ WithKey(Data, k)]
                     ELSE dict_data
        /\ error' = IF Leads(k) /\ ~found THEN "KeyError" ELSE error
        /\ UNCHANGED twice

\* The first key without an index entry is a KeyError; some of those before it
\* are gone.
remove_stage(w) ==
    LET keys == Keys(Votes(w))
        Without(K) == [k \in Key |-> IF k \in K THEN None ELSE dict_index[k]]
    IN  /\ dict_data[w] # None
        /\ \/ /\ \A k \in keys : Finds(k)
              /\ dict_index' = Without(keys)
              /\ dict_data' = [dict_data EXCEPT ![w] = NewStage]
              /\ UNCHANGED error
           \/ /\ \E k \in keys : ~Finds(k)
              /\ \E K \in SUBSET {k \in keys : Finds(k)} :
                     dict_index' = Without(K)
              /\ error' = "KeyError"
              /\ UNCHANGED dict_data
        /\ UNCHANGED twice

\* Mutant: a wave that has no votes keeps those of the other waves.
RemoveStageExceptEmpty(w) ==
    /\ dict_data' =
        [v \in Wave |-> IF v = w \/ dict_data[w] = None THEN dict_data[v]
                                                        ELSE None]
    /\ dict_index' =
        [k \in Key |-> IF k \in Keys(Votes(w)) THEN w ELSE None]
    /\ UNCHANGED <<error, twice>>

remove_stage_except(w) ==
    /\ dict_data' = [v \in Wave |-> IF v = w THEN dict_data[w] ELSE None]
    /\ dict_index' =
        [k \in Key |-> IF k \in Keys(Votes(w)) THEN w ELSE None]
    /\ UNCHANGED <<error, twice>>

clear ==
    /\ dict_data' = [w \in Wave |-> None]
    /\ dict_index' = [k \in Key |-> None]
    /\ UNCHANGED <<error, twice>>

Call ==
    \/ \E d \in Data : put_data(d)
    \/ \E k \in Key : get_data(k) \/ remove_data(k)
    \/ \E w \in Wave : remove_stage(w) \/ remove_stage_except(w)
    \/ clear

Next == error = "none" /\ Call

Spec == Init /\ [][Next]_vars

-----------------------------------------------------------------------------
(* A key that is in the index is a vote of the wave the index names, so that *)
(* get_data need not drop it.  While the thread runs, a key that has never   *)
(* been in two waves at once is in no dictionary without being in the index. *)
IndexFits ==
    \A k \in Key :
        /\ Finds(k) => k \in Keys(Votes(dict_index[k]))
        /\ error = "none" /\ k \notin twice =>
               \A w \in Wave : k \in Keys(Votes(w)) => dict_index[k] = w

(* get_vote_result counts every vote once, under the hash it is for, however *)
(* often it arrives and whatever was removed meanwhile: for each hash it     *)
(* gives the number of different votes of the wave.                          *)
CountsOnce ==
    \A w \in Wave : GetVoteResult(w) # None =>
        \A h \in DOMAIN GetVoteResult(w) :
            GetVoteResult(w)[h] =
                Cardinality(Keys({d \in Votes(w) : GetHash[d] = h}))

(* Only a vote that has been in two waves at once can make a removal fail    *)
(* half way.                                                                 *)
FailsOnTwiceOnly == error = "KeyError" => twice # {}

(* The dictionaries are a Pool: the votes they hold, and the votes get_data  *)
(* finds.                                                                    *)
Held == UNION {Votes(w) : w \in Wave}
Found == {GetData(k) : k \in {j \in Key : Finds(j)}}

Abstract == INSTANCE Pool WITH held <- Held, found <- Found
ImplementsPool == Abstract!Spec
=============================================================================
