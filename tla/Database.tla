------------------------------ MODULE Database ------------------------------
(***************************************************************************)
(* DbManager, the LevelDB wrapper for the rest of the node (module/        *)
(* component/db.py; DBManager in common/dbmanager.py is the same but for   *)
(* text keys and pickled values).  Its threads share one database; each    *)
(* operation of LevelDB is atomic, and the process may end at any point.   *)
(***************************************************************************)

CONSTANTS Thread, Key, Val, Missing

VARIABLES
    db,        \* what LevelDB holds
    updating,  \* per thread: the key and the value between Delete and Put
    acked,     \* history: what the calls that returned True left
    broken     \* history: keys of updates that did not get to their Put

vars == <<db, updating, acked, broken>>

Init ==
    /\ db = [k \in Key |-> Missing]
    /\ updating = [t \in Thread |-> Missing]
    /\ acked = db
    /\ broken = {}

Idle(t) == updating[t] = Missing

\* What new writes over old, both from keys to values
Over(new, old) == [k \in Key |-> IF k \in DOMAIN new THEN new[k] ELSE old[k]]
One(k, v) == [j \in {k} |-> v]

\* The call that wrote the keys of new returns True.
Done(new) == acked' = Over(new, acked) /\ broken' = broken \ DOMAIN new

insert(t, k, v) ==
    /\ Idle(t)
    /\ db' = [db EXCEPT ![k] = v]
    /\ Done(One(k, v))
    /\ UNCHANGED updating

\* update: Delete, then Put
UpdateDelete(t, k, v) ==
    /\ Idle(t)
    /\ db' = [db EXCEPT ![k] = Missing]
    /\ updating' = [updating EXCEPT ![t] = <<k, v>>]
    /\ UNCHANGED <<acked, broken>>

UpdatePut(t) ==
    /\ ~Idle(t)
    /\ LET k == updating[t][1] v == updating[t][2]
       IN  db' = [db EXCEPT ![k] = v] /\ Done(One(k, v))
    /\ updating' = [updating EXCEPT ![t] = Missing]

\* The Put raises LevelDBError: update returns False, and the key is gone.
UpdateFails(t) ==
    /\ ~Idle(t)
    /\ broken' = broken \cup {updating[t][1]}
    /\ updating' = [updating EXCEPT ![t] = Missing]
    /\ UNCHANGED <<db, acked>>

\* Mutant: the answer to a LevelDBError is True.
DeleteSwallows(t, k) ==
    /\ Idle(t)
    /\ \/ db' = [db EXCEPT ![k] = Missing]
       \/ UNCHANGED db
    /\ Done(One(k, Missing))
    /\ UNCHANGED updating

delete(t, k) ==
    /\ Idle(t)
    /\ db' = [db EXCEPT ![k] = Missing]
    /\ Done(One(k, Missing))
    /\ UNCHANGED updating

\* One WriteBatch
batch_process(t, data) ==
    /\ Idle(t)
    /\ db' = Over(data, db)
    /\ Done(data)
    /\ UNCHANGED updating

Crash ==
    /\ broken' = broken \cup {updating[t][1] : t \in {s \in Thread : ~Idle(s)}}
    /\ updating' = [t \in Thread |-> Missing]
    /\ UNCHANGED <<db, acked>>

Next ==
    \/ \E t \in Thread :
        \/ \E k \in Key, v \in Val : insert(t, k, v) \/ UpdateDelete(t, k, v)
        \/ UpdatePut(t) \/ UpdateFails(t)
        \/ \E k \in Key : delete(t, k)
        \/ \E K \in SUBSET Key : \E data \in [K -> Val] : batch_process(t, data)
    \/ Crash

Spec == Init /\ [][Next]_vars

-----------------------------------------------------------------------------
select(k) == db[k]
get_key_list == {k \in Key : db[k] # Missing}

(* A thread finds what the last call that returned True has left, whatever   *)
(* others were in the middle of.  Only an update loses a key: while it is    *)
(* under way, and for good when it is cut between its Delete and its Put.    *)
Acknowledged ==
    \A k \in Key :
        \/ select(k) = acked[k]
        \/ /\ k \notin get_key_list
           /\ k \in broken \/ \E t \in Thread : ~Idle(t) /\ updating[t][1] = k
=============================================================================
