--------------------------- MODULE StagedDataPool ---------------------------
(* The pool of candidate blocks (gbrick/consensus/base/datapool.py, class    *)
(* StagedDataPool): a dictionary of dictionaries, and an index that keeps    *)
(* one wave per key.  Its callers are one thread, which a KeyError or an     *)
(* AttributeError ends.                                                      *)
(*                                                                           *)
(* A wave without a dictionary and one with an empty dictionary are the same *)
(* here: every reader of the code tells them apart only to treat them alike. *)

EXTENDS PoolData

VARIABLES
    dict_data,  \* by wave, by key
    dict_index, \* by key: the wave
    error,      \* the exception that ended the thread
    twice       \* history: the keys that have been in two waves at once

vars == <<dict_data, dict_index, error, twice>>

TypeOK ==
    /\ dict_data \in [Wave -> [Key -> Data \cup {None}]]
    /\ dict_index \in [Key -> Wave \cup {None}]
    /\ error \in {"none", "KeyError", "AttributeError"}
    /\ twice \in SUBSET Key

Empty == [k \in Key |-> None]

Init ==
    /\ dict_data = [w \in Wave |-> Empty]
    /\ dict_index = Empty
    /\ error = "none"
    /\ twice = {}

\* The keys of a wave
StageKeys(w) == {k \in Key : dict_data[w][k] # None}

\* get_data
Finds(k) == dict_index[k] # None
GetData(k) == dict_data[dict_index[k]][k]

-----------------------------------------------------------------------------
\* Mutant: the index stays at the first wave of a key.
PutDataKeepIndex(d) ==
    LET k == GetKey[d]
        w == GetWave[d]
    IN  /\ dict_data' = [dict_data EXCEPT ![w][k] = d]
        /\ dict_index' = [dict_index EXCEPT ![k] = IF @ = None THEN w ELSE @]
        /\ twice' = twice \cup
            {j \in {k} : \E v \in Wave \ {w} : dict_data[v][k] # None}
        /\ UNCHANGED error

put_data(d) ==
    LET k == GetKey[d]
        w == GetWave[d]
    IN  /\ dict_data' = [dict_data EXCEPT ![w][k] = d]
        /\ dict_index' = [dict_index EXCEPT ![k] = w]
        /\ twice' = twice \cup
            {j \in {k} : \E v \in Wave \ {w} : dict_data[v][k] # None}
        /\ UNCHANGED error

\* Mutant: the index entry stays.
RemoveDataOnly(k) ==
    /\ Finds(k)
    /\ dict_data' = [dict_data EXCEPT ![dict_index[k]][k] = None]
    /\ UNCHANGED <<dict_index, error, twice>>

\* A key that is not in the index: dict_data.get(None) is None.
remove_data(k) ==
    /\ IF Finds(k) /\ GetData(k) # None
         THEN /\ dict_data' = [dict_data EXCEPT ![dict_index[k]][k] = None]
              /\ dict_index' = [dict_index EXCEPT ![k] = None]
              /\ UNCHANGED error
         ELSE /\ error' = IF Finds(k) THEN "KeyError" ELSE "AttributeError"
              /\ UNCHANGED <<dict_data, dict_index>>
    /\ UNCHANGED twice

\* The index entries of the wave's keys are deleted one by one, and one that is
\* not there is a KeyError: some of those before it, in the order of the puts,
\* are gone.
remove_stage(w) ==
    LET Without(K) == [k \in Key |-> IF k \in K THEN None ELSE dict_index[k]]
    IN  /\ \/ /\ \A k \in StageKeys(w) : Finds(k)
              /\ dict_index' = Without(StageKeys(w))
              /\ dict_data' = [dict_data EXCEPT ![w] = Empty]
              /\ UNCHANGED error
           \/ /\ \E k \in StageKeys(w) : ~Finds(k)
              /\ \E K \in SUBSET {k \in StageKeys(w) : Finds(k)} :
                     dict_index' = Without(K)
              /\ error' = "KeyError"
              /\ UNCHANGED dict_data
        /\ UNCHANGED twice

\* Mutant: the index is not rebuilt.
RemoveStageExceptIndex(w) ==
    /\ dict_data' = [v \in Wave |-> IF v = w THEN dict_data[w] ELSE Empty]
    /\ dict_index' = Empty
    /\ UNCHANGED <<error, twice>>

remove_stage_except(w) ==
    /\ dict_data' = [v \in Wave |-> IF v = w THEN dict_data[w] ELSE Empty]
    /\ dict_index' =
        [k \in Key |-> IF k \in StageKeys(w) THEN GetWave[dict_data[w][k]]
                                             ELSE None]
    /\ UNCHANGED <<error, twice>>

clear ==
    /\ dict_data' = [w \in Wave |-> Empty]
    /\ dict_index' = Empty
    /\ UNCHANGED <<error, twice>>

Call ==
    \/ \E d \in Data : put_data(d)
    \/ \E k \in Key : remove_data(k)
    \/ \E w \in Wave : remove_stage(w) \/ remove_stage_except(w)
    \/ clear

Next == error = "none" /\ Call

Spec == Init /\ [][Next]_vars

-----------------------------------------------------------------------------
(* A key that is in the index is in the dictionary of the wave the index     *)
(* names, and get_data never ends in an exception.  While the thread runs, a *)
(* key that has never been in two waves at once is in no dictionary without  *)
(* being in the index.                                                       *)
IndexFits ==
    \A k \in Key :
        /\ Finds(k) => GetData(k) # None
        /\ error = "none" /\ k \notin twice =>
               \A w \in Wave : dict_data[w][k] # None => dict_index[k] = w

(* Only a key that has been in two waves at once can make a removal fail     *)
(* half way.                                                                 *)
FailsOnTwiceOnly == error = "KeyError" => twice # {}

(* The dictionaries are a Pool: the data they hold, and the data get_data    *)
(* finds.  Whatever the sequence of calls, no datum is lost or found in a    *)
(* wave it was not put in.                                                   *)
Held == {dict_data[w][k] : w \in Wave, k \in Key} \ {None}
Found == {GetData(k) : k \in {j \in Key : Finds(j)}}

Abstract == INSTANCE Pool WITH held <- Held, found <- Found
ImplementsPool == Abstract!Spec
=============================================================================
